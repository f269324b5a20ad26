----------------------- MODULE SnapshotInferenceProofs -----------------------
(***************************************************************************)
(* Proofs about SnapshotInference, for every set of windows, bindings and  *)
(* workers and any number of attempts and failures: a window and its job   *)
(* agree, a result is of the latest claim, a model is run at most          *)
(* MAX_ATTEMPTS times on a window, and the inbox is implemented.           *)
(***************************************************************************)
EXTENDS SnapshotInference, FiniteSetTheorems, TLAPS

(* What a job says of its row.  A job that waits was never claimed, the     *)
(* token of one that runs is its last, and a decided one never runs again.  *)
JobFollowsRow(w) ==
  jobs[w] # Unset =>
    /\ snapshots[w] # Unset /\ snapshots[w].binding = jobs[w].binding
    /\ jobs[w].status = "queued" =>
         snapshots[w].status \in {"queued", "queued_inference"} /\ jobs[w].attempts = 0
    /\ jobs[w].status = "running" =>
         snapshots[w].status = "queued_inference" /\ jobs[w].token = jobs[w].attempts
    /\ jobs[w].status \in Final => snapshots[w].status = jobs[w].status

(* A row bears an attempt once its job is decided.                          *)
AttemptOfJob(w) ==
  snapshots[w] # Unset /\ snapshots[w].attempt > 0 =>
    /\ jobs[w] # Unset /\ jobs[w].status \in Final
    /\ snapshots[w].attempt = jobs[w].attempts

(* A worker at work holds one of the tokens given out for its window, and   *)
(* no other worker holds the same.                                          *)
TaskHasToken(p) ==
  task[p].pc # "idle" =>
    /\ task[p].w \in Windows /\ jobs[task[p].w] # Unset
    /\ task[p].token = task[p].tries + 1 /\ task[p].token <= jobs[task[p].w].attempts
TokenIsMine(p, q) ==
  p # q /\ task[p].pc # "idle" /\ task[q].pc # "idle" /\ task[p].w = task[q].w =>
    task[p].token # task[q].token

(* The attempts on a window that may still run a model: those not claimed   *)
(* yet, and those whose worker is about to look.                            *)
Claims(w) == IF jobs[w] = Unset THEN 0 ELSE jobs[w].attempts
Awaited(w, t) == \E p \in Workers : task[p].pc = "check" /\ task[p].w = w /\ task[p].token = t
Left(w) == {t \in 1..MaxAttempts : t > Claims(w) \/ Awaited(w, t)}
EvalsLeft(w) == evals[w] + Cardinality(Left(w)) <= MaxAttempts

JobsInv ==
  /\ \A w \in Windows : JobFollowsRow(w) /\ AttemptOfJob(w)
  /\ \A p \in Workers : TaskHasToken(p)
  /\ \A p, q \in Workers : TokenIsMine(p, q)
EvalsInv == \A w \in Windows : EvalsLeft(w)
JobsIInv == JobsTypeOK /\ JobsInv /\ EvalsInv

-----------------------------------------------------------------------------
(* Typing                                                                   *)

LEMMA IdleIsTask == IdleTask \in Task
BY DEF IdleTask, Task

(* A record is not the absent row or job.                                   *)
LEMMA Present ==
  /\ \A row \in SnapshotRow : row # Unset
  /\ \A job \in Job : job # Unset
BY UnsetIsNoRecord

(* What _claim and _finish write into a job.                                *)
LEMMA JobWritten ==
  ASSUME NEW job \in Job, NEW n \in Nat,
         NEW s \in {"queued", "running", "completed", "unavailable"}
  PROVE  /\ [job EXCEPT !.status = s, !.token = n, !.attempts = n, !.lapsed = FALSE] \in Job
         /\ [job EXCEPT !.status = s, !.token = 0, !.lapsed = FALSE] \in Job
BY DEF Job

(* Every step keeps the types.                                              *)
LEMMA JobsTyped ==
  ASSUME JobsTypeOK, JobsInv, [JobsNext]_jobVars PROVE JobsTypeOK'
<1> USE InferenceAssumption
<1>1. ASSUME NEW p \in Workers, NEW w \in Windows, Ingest(p, w) PROVE JobsTypeOK'
  <2> USE <1>1 DEF Ingest
  <2>1. PICK expired \in BOOLEAN :
          /\ snapshots' = [snapshots EXCEPT ![w] =
                          [late |-> \E v \in Received : v > w, binding |-> model[p],
                           attempt |-> 0,
                           status |-> IF w \in Valid /\ ~expired THEN "queued" ELSE "unavailable"]]
          /\ jobs' = IF Assigned(p, w, expired)
                     THEN [jobs EXCEPT ![w] = [binding |-> model[p], status |-> "queued",
                                               attempts |-> 0, token |-> 0, lapsed |-> FALSE]]
                     ELSE jobs
    OBVIOUS
  <2>2. snapshots' \in [Windows -> SnapshotRow \cup {Unset}]
    BY <2>1 DEF JobsTypeOK, SnapshotRow, Final
  <2>3. jobs' \in [Windows -> Job \cup {Unset}]
    BY <2>1 DEF JobsTypeOK, Job, Assigned
  <2> QED
    BY <2>2, <2>3 DEF JobsTypeOK
<1>2. ASSUME NEW w \in Windows, Prepare(w) PROVE JobsTypeOK'
  <2>1. snapshots[w] \in SnapshotRow
    BY <1>2 DEF Prepare, JobsTypeOK
  <2>2. snapshots' \in [Windows -> SnapshotRow \cup {Unset}]
    BY <1>2, <2>1 DEF Prepare, JobsTypeOK, SnapshotRow, Final
  <2>3. jobs' \in [Windows -> Job \cup {Unset}]
    BY <1>2 DEF Prepare, PrepareMark, JobsTypeOK, Job
  <2> QED
    BY <1>2, <2>2, <2>3 DEF JobsTypeOK, Prepare
<1>3. ASSUME NEW w \in Windows, Lapse(w) PROVE JobsTypeOK'
  <2>1. jobs[w] \in Job
    BY <1>3 DEF Lapse, JobsTypeOK
  <2>2. jobs' \in [Windows -> Job \cup {Unset}]
    BY <1>3, <2>1 DEF Lapse, JobsTypeOK, Job
  <2>3. failures' \in [FailureKinds -> Nat]
    BY <1>3 DEF Lapse, JobsTypeOK, Failure, NoFailure, FailureKinds
  <2> QED
    BY <1>3, <2>2, <2>3 DEF JobsTypeOK, Lapse
<1>4. ASSUME NEW p \in Workers, NEW w \in Windows, Claim(p, w) PROVE JobsTypeOK'
  <2>1. jobs[w] \in Job
    BY <1>4 DEF Claim, Claimable, JobsTypeOK
  <2>2. jobs' \in [Windows -> Job \cup {Unset}]
    BY <1>4, <2>1 DEF Claim, JobsTypeOK, Job
  <2>3. task' \in [Workers -> Task]
    BY <1>4, <2>1, IdleIsTask DEF Claim, JobsTypeOK, Job, IdleTask, Task
  <2> QED
    BY <1>4, <2>2, <2>3 DEF JobsTypeOK, Claim
<1>5. ASSUME NEW p \in Workers, Evaluate(p) PROVE JobsTypeOK'
  <2>1. task[p] \in Task /\ task[p].w \in Windows
    BY <1>5 DEF Evaluate, JobsTypeOK, JobsInv, TaskHasToken
  <2>2. task' \in [Workers -> Task]
    BY <1>5, <2>1 DEF Evaluate, JobsTypeOK, Task
  <2>3. evals' \in [Windows -> Nat] /\ failures' \in [FailureKinds -> Nat]
    BY <1>5, <2>1 DEF Evaluate, JobsTypeOK, Failure, NoFailure, FailureKinds
  <2> QED
    BY <1>5, <2>2, <2>3 DEF JobsTypeOK, Evaluate
<1>6. ASSUME NEW p \in Workers, Finish(p) PROVE JobsTypeOK'
  <2>1. /\ task[p] \in Task /\ task[p].w \in Windows
        /\ snapshots[task[p].w] \in SnapshotRow /\ jobs[task[p].w] \in Job
    BY <1>6 DEF Finish, JobsTypeOK, JobsInv, TaskHasToken, JobFollowsRow
  <2>2. snapshots' \in [Windows -> SnapshotRow \cup {Unset}]
    <3> DEFINE w == task[p].w
               outcome == IF InTime(jobs[w]) THEN task[p].outcome ELSE "unavailable"
    <3>1. outcome \in Final /\ task[p].token \in Nat
      BY <2>1 DEF Task, Final
    <3>2. \/ snapshots' = snapshots
          \/ snapshots' = [snapshots EXCEPT ![w].status = outcome, ![w].attempt = task[p].token]
      BY <1>6 DEF Finish
    <3> HIDE DEF outcome
    <3> QED
      BY SMTT(60), <2>1, <3>1, <3>2 DEF JobsTypeOK, SnapshotRow
  <2>3. jobs' \in [Windows -> Job \cup {Unset}]
    BY <1>6, <2>1 DEF Finish, JobsTypeOK, Job, Task
  <2>4. failures' \in [FailureKinds -> Nat]
    BY <1>6 DEF Finish, JobsTypeOK, Failure, NoFailure, FailureKinds
  <2>5. task' \in [Workers -> Task]
    BY <1>6, IdleIsTask DEF Finish, JobsTypeOK
  <2> QED
    BY <1>6, <2>2, <2>3, <2>4, <2>5 DEF JobsTypeOK, Finish
<1>7. ASSUME NEW p \in Workers, Restart(p) PROVE JobsTypeOK'
  BY <1>7, IdleIsTask DEF Restart, JobsTypeOK, Failure, FailureKinds
<1>8. CASE UNCHANGED jobVars
  BY <1>8 DEF jobVars, JobsTypeOK
<1> QED
  BY <1>1, <1>2, <1>3, <1>4, <1>5, <1>6, <1>7, <1>8 DEF JobsNext

-----------------------------------------------------------------------------
(* Rows, jobs and tokens                                                    *)

(* A new window has no job yet, and no worker is at work on it.             *)
LEMMA IngestInv ==
  ASSUME JobsTypeOK, JobsInv, NEW p \in Workers, NEW w \in Windows, Ingest(p, w)
  PROVE  JobsInv' /\ Claims(w) = 0 /\ jobs[w] = Unset
             /\ (jobs'[w] # Unset => jobs'[w].attempts = 0)
             /\ \A v \in Windows : v # w => jobs'[v] = jobs[v]
<1>1. snapshots[w] = Unset /\ jobs[w] = Unset
  BY DEF Ingest, IsNew, JobsInv, JobFollowsRow
<1>2. PICK expired \in BOOLEAN :
        /\ snapshots' = [snapshots EXCEPT ![w] =
                        [late |-> \E v \in Received : v > w, binding |-> model[p],
                         attempt |-> 0,
                         status |-> IF w \in Valid /\ ~expired THEN "queued" ELSE "unavailable"]]
        /\ jobs' = IF Assigned(p, w, expired)
                   THEN [jobs EXCEPT ![w] = [binding |-> model[p], status |-> "queued",
                                             attempts |-> 0, token |-> 0, lapsed |-> FALSE]]
                   ELSE jobs
  BY DEF Ingest
<1>3. snapshots'[w] \in SnapshotRow /\ snapshots'[w] # Unset
  <2>1. snapshots'[w] = [late |-> \E v \in Received : v > w, binding |-> model[p],
                         attempt |-> 0,
                         status |-> IF w \in Valid /\ ~expired THEN "queued" ELSE "unavailable"]
    BY <1>2 DEF JobsTypeOK
  <2>2. snapshots'[w] \in SnapshotRow
    BY <2>1 DEF JobsTypeOK, SnapshotRow, Final
  <2> QED
    BY <2>2, Present
<1>4. jobs'[w] # Unset =>
        /\ Assigned(p, w, expired)
        /\ jobs'[w] = [binding |-> model[p], status |-> "queued",
                       attempts |-> 0, token |-> 0, lapsed |-> FALSE]
  BY <1>1, <1>2 DEF JobsTypeOK
<1>5. \A v \in Windows : v # w => jobs'[v] = jobs[v] /\ snapshots'[v] = snapshots[v]
  BY <1>2 DEF JobsTypeOK
<1>6. JobFollowsRow(w)' /\ AttemptOfJob(w)'
  <2>1. /\ snapshots'[w].attempt = 0 /\ snapshots'[w].binding = model[p]
        /\ Assigned(p, w, expired) => snapshots'[w].status = "queued"
    BY <1>2 DEF JobsTypeOK, Assigned
  <2> QED
    BY <1>3, <1>4, <2>1 DEF JobFollowsRow, AttemptOfJob, Final
<1>7. \A v \in Windows : JobFollowsRow(v)' /\ AttemptOfJob(v)'
  BY <1>5, <1>6 DEF JobsInv, JobFollowsRow, AttemptOfJob
<1>8. \A q \in Workers : TaskHasToken(q)'
  BY <1>1, <1>5 DEF Ingest, JobsInv, TaskHasToken
<1>9. \A q, r \in Workers : TokenIsMine(q, r)'
  BY DEF Ingest, JobsInv, TokenIsMine
<1> QED
  BY <1>1, <1>4, <1>5, <1>7, <1>8, <1>9 DEF JobsInv, Claims

(* Preparation and lapse change neither tokens nor attempts.                *)
LEMMA PrepareInv ==
  ASSUME JobsTypeOK, JobsInv, NEW w \in Windows, Prepare(w)
  PROVE  /\ JobsInv'
         /\ \A v \in Windows : Claims(v)' = Claims(v)
<1>1. /\ snapshots[w] \in SnapshotRow /\ snapshots[w].status = "queued"
      /\ jobs[w] # Unset => jobs[w] \in Job /\ jobs[w].status = "queued"
  BY DEF Prepare, JobsTypeOK, JobsInv, JobFollowsRow, Final, Job
<1>2. PICK s \in {"queued_inference", "waiting_model", "unavailable"} :
        /\ snapshots' = [snapshots EXCEPT ![w].status = s]
        /\ jobs[w] # Unset =>
             \/ s = "unavailable" /\ jobs' = [jobs EXCEPT ![w].status = "unavailable"]
             \/ s = "queued_inference" /\ jobs' = jobs
        /\ jobs[w] = Unset => jobs' = jobs
  BY DEF Prepare, PrepareMark
<1>3. /\ \A v \in Windows : v # w => snapshots'[v] = snapshots[v] /\ jobs'[v] = jobs[v]
      /\ snapshots'[w] # Unset /\ snapshots'[w].status = s
      /\ snapshots'[w].attempt = snapshots[w].attempt
      /\ snapshots'[w].binding = snapshots[w].binding
  <2>1. snapshots'[w] = [snapshots[w] EXCEPT !.status = s]
    BY <1>2 DEF JobsTypeOK
  <2>2. snapshots'[w] \in SnapshotRow
    BY <1>1, <2>1 DEF SnapshotRow, Final
  <2> QED
    BY <1>1, <1>2, <2>1, <2>2, Present DEF JobsTypeOK, SnapshotRow
<1>4. jobs[w] # Unset =>
        /\ jobs'[w] # Unset /\ jobs'[w].binding = jobs[w].binding
        /\ jobs'[w].attempts = jobs[w].attempts
        /\ \/ s = "unavailable" /\ jobs'[w].status = "unavailable"
           \/ s = "queued_inference" /\ jobs'[w].status = "queued"
  <2>1. ASSUME jobs[w] # Unset, jobs' = [jobs EXCEPT ![w].status = "unavailable"]
        PROVE  jobs'[w] \in Job /\ jobs'[w].binding = jobs[w].binding
                 /\ jobs'[w].attempts = jobs[w].attempts /\ jobs'[w].status = "unavailable"
    BY <1>1, <2>1 DEF JobsTypeOK, Job
  <2> QED
    BY <1>1, <1>2, <2>1, Present
<1>5. \A v \in Windows : JobFollowsRow(v)' /\ AttemptOfJob(v)'
  <2>1. JobFollowsRow(w)'
    BY <1>1, <1>2, <1>3, <1>4 DEF JobsInv, JobFollowsRow, Final
  <2>2. AttemptOfJob(w)'
    BY <1>1, <1>3, <1>4, Present DEF JobsInv, AttemptOfJob, Final
  <2> QED
    BY <1>3, <2>1, <2>2 DEF JobsInv, JobFollowsRow, AttemptOfJob
<1>6. \A q \in Workers : TaskHasToken(q)'
  BY <1>3, <1>4 DEF Prepare, JobsInv, TaskHasToken
<1>7. \A q, r \in Workers : TokenIsMine(q, r)'
  BY DEF Prepare, JobsInv, TokenIsMine
<1>8. \A v \in Windows : Claims(v)' = Claims(v)
  BY <1>2, <1>3, <1>4 DEF Claims
<1> QED
  BY <1>5, <1>6, <1>7, <1>8 DEF JobsInv

LEMMA LapseInv ==
  ASSUME JobsTypeOK, JobsInv, NEW w \in Windows, Lapse(w)
  PROVE  /\ JobsInv'
         /\ \A v \in Windows : Claims(v)' = Claims(v)
<1>1. jobs[w] \in Job /\ jobs[w] # Unset
  BY DEF Lapse, JobsTypeOK
<1>2. /\ jobs'[w] # Unset /\ jobs'[w].binding = jobs[w].binding
      /\ jobs'[w].attempts = jobs[w].attempts /\ jobs'[w].token = jobs[w].token
      /\ jobs'[w].status = jobs[w].status
      /\ \A v \in Windows : v # w => jobs'[v] = jobs[v]
  <2>1. jobs'[w] = [jobs[w] EXCEPT !.lapsed = TRUE]
    BY DEF Lapse, JobsTypeOK
  <2>2. jobs'[w] \in Job
    BY <1>1, <2>1 DEF Job
  <2> QED
    BY <1>1, <2>1, <2>2, Present DEF Lapse, JobsTypeOK, Job
<1>3. \A v \in Windows : JobFollowsRow(v)' /\ AttemptOfJob(v)'
  BY <1>1, <1>2 DEF Lapse, JobsInv, JobFollowsRow, AttemptOfJob
<1>4. \A q \in Workers : TaskHasToken(q)'
  BY <1>1, <1>2 DEF Lapse, JobsInv, TaskHasToken
<1>5. \A q, r \in Workers : TokenIsMine(q, r)'
  BY DEF Lapse, JobsInv, TokenIsMine
<1>6. \A v \in Windows : Claims(v)' = Claims(v)
  BY <1>1, <1>2 DEF Claims
<1> QED
  BY <1>3, <1>4, <1>5, <1>6 DEF JobsInv

(* A claim takes a token nobody holds: the next one of its job.             *)
LEMMA ClaimInv ==
  ASSUME JobsTypeOK, JobsInv, NEW p \in Workers, NEW w \in Windows, Claim(p, w)
  PROVE  /\ JobsInv'
         /\ jobs[w] # Unset /\ jobs[w].attempts \in Nat
         /\ task'[p].pc = "check" /\ task'[p].w = w /\ task'[p].token = jobs[w].attempts + 1
         /\ Claims(w)' = Claims(w) + 1
         /\ \A v \in Windows : v # w => Claims(v)' = Claims(v)
<1> DEFINE fresh == jobs[w].attempts + 1
<1>1. jobs[w] \in Job /\ jobs[w] # Unset /\ jobs[w].attempts \in Nat
  BY DEF Claim, Claimable, JobsTypeOK, Job
<1>2. /\ jobs'[w] # Unset /\ jobs'[w].binding = jobs[w].binding
      /\ jobs'[w].attempts = fresh /\ jobs'[w].token = fresh /\ jobs'[w].status = "running"
      /\ \A v \in Windows : v # w => jobs'[v] = jobs[v]
  <2>1. jobs'[w] = [jobs[w] EXCEPT !.status = "running", !.token = fresh,
                                   !.attempts = fresh, !.lapsed = FALSE]
    BY DEF Claim, JobsTypeOK
  <2>2. jobs'[w] \in Job
    <3>1. fresh \in Nat
      BY <1>1
    <3> HIDE DEF fresh
    <3> QED
      BY ZenonT(60), <1>1, <2>1, <3>1, JobWritten
  <2> QED
    BY SMTT(60), <1>1, <2>1, <2>2, Present DEF Claim, JobsTypeOK, Job
<1>3. /\ task'[p].pc = "check" /\ task'[p].w = w
      /\ task'[p].token = fresh /\ task'[p].tries = jobs[w].attempts
      /\ \A q \in Workers : q # p => task'[q] = task[q]
  BY DEF Claim, JobsTypeOK, IdleTask
<1>4. snapshots' = snapshots /\ snapshots[w].status = "queued_inference"
  BY DEF Claim, Claimable
<1>5. \A v \in Windows : JobFollowsRow(v)' /\ AttemptOfJob(v)'
  <2>1. JobFollowsRow(w)'
    BY <1>1, <1>2, <1>4 DEF JobsInv, JobFollowsRow, Final
  <2>2. AttemptOfJob(w)'
    <3>1. jobs[w].status \notin Final
      BY DEF Claim, Claimable, Final
    <3> QED
      BY <1>1, <1>4, <3>1 DEF JobsInv, AttemptOfJob
  <2> QED
    BY <1>2, <1>4, <2>1, <2>2 DEF JobsInv, JobFollowsRow, AttemptOfJob
<1>6. \A q \in Workers : TaskHasToken(q)'
  <2>1. TaskHasToken(p)'
    BY <1>1, <1>2, <1>3 DEF TaskHasToken
  <2>2. ASSUME NEW q \in Workers, q # p PROVE TaskHasToken(q)'
    <3>1. SUFFICES ASSUME task[q].pc # "idle"
                   PROVE  /\ task[q].w \in Windows /\ jobs'[task[q].w] # Unset
                          /\ task[q].token = task[q].tries + 1
                          /\ task[q].token <= jobs'[task[q].w].attempts
      BY <1>3, <2>2 DEF TaskHasToken
    <3>2. task[q].token \in Nat
      BY DEF JobsTypeOK, Task
    <3> QED
      BY <1>1, <1>2, <3>1, <3>2 DEF JobsInv, TaskHasToken
  <2> QED
    BY <2>1, <2>2
<1>7. \A q, r \in Workers : TokenIsMine(q, r)'
  <2>1. ASSUME NEW q \in Workers, q # p, task[q].pc # "idle", task[q].w = w
        PROVE  task[q].token # fresh
    <3>1. task[q].token <= jobs[w].attempts /\ task[q].token \in Nat
      BY <2>1 DEF JobsInv, TaskHasToken, JobsTypeOK, Task
    <3> QED
      BY <1>1, <3>1
  <2> HIDE DEF fresh
  <2> QED
    BY <1>3, <2>1 DEF JobsInv, TokenIsMine
<1>8. Claims(w)' = Claims(w) + 1 /\ \A v \in Windows : v # w => Claims(v)' = Claims(v)
  BY <1>1, <1>2 DEF Claims
<1> QED
  BY <1>1, <1>3, <1>5, <1>6, <1>7, <1>8 DEF JobsInv

(* A worker that looks, ends or restarts holds no other token than before.  *)
LEMMA EvaluateInv ==
  ASSUME JobsTypeOK, JobsInv, NEW p \in Workers, Evaluate(p)
  PROVE  /\ JobsInv'
         /\ task'[p].pc = "finish"
         /\ \A q \in Workers : q # p => task'[q] = task[q]
<1>1. /\ task'[p].pc = "finish" /\ task'[p].w = task[p].w
      /\ task'[p].token = task[p].token /\ task'[p].tries = task[p].tries
      /\ \A q \in Workers : q # p => task'[q] = task[q]
  BY DEF Evaluate, JobsTypeOK, Task
<1>2. UNCHANGED <<snapshots, jobs>> /\ task[p].pc # "idle"
  BY DEF Evaluate
<1>3. \A w \in Windows : JobFollowsRow(w)' /\ AttemptOfJob(w)'
  BY <1>2 DEF JobsInv, JobFollowsRow, AttemptOfJob
<1>4. \A q \in Workers : TaskHasToken(q)'
  BY <1>1, <1>2 DEF JobsInv, TaskHasToken
<1>5. \A q, r \in Workers : TokenIsMine(q, r)'
  BY SMTT(60), <1>1, <1>2 DEF JobsInv, TokenIsMine
<1> QED
  BY <1>1, <1>3, <1>4, <1>5 DEF JobsInv

(* _finish: a result is stored only under the token of the job, which is    *)
(* the last one that was given out.                                         *)
LEMMA FinishInv ==
  ASSUME JobsTypeOK, JobsInv, NEW p \in Workers, Finish(p)
  PROVE  /\ JobsInv'
         /\ task' = [task EXCEPT ![p] = IdleTask]
         /\ \A v \in Windows : Claims(v)' = Claims(v)
<1>0. PICK w \in Windows : w = task[p].w
  BY DEF Finish, JobsInv, TaskHasToken
<1> DEFINE outcome == IF InTime(jobs[w]) THEN task[p].outcome ELSE "unavailable"
<1>1. /\ jobs[w] # Unset /\ jobs[w] \in Job
      /\ snapshots[w] # Unset /\ snapshots[w] \in SnapshotRow
      /\ task[p].token \in Nat /\ task[p].token >= 1 /\ task[p] \in Task
  BY <1>0 DEF Finish, JobsTypeOK, JobsInv, TaskHasToken, JobFollowsRow, Task
<1>2. outcome \in Final
  BY <1>1 DEF Task, Final
<1>3. /\ task' = [task EXCEPT ![p] = IdleTask]
      /\ \A q \in Workers : task'[q] = IF q = p THEN IdleTask ELSE task[q]
  BY DEF Finish, JobsTypeOK
<1>4. CASE UNCHANGED <<snapshots, jobs>>
  <2>1. \A v \in Windows : JobFollowsRow(v)' /\ AttemptOfJob(v)'
    BY <1>4 DEF JobsInv, JobFollowsRow, AttemptOfJob
  <2>2. \A q \in Workers : TaskHasToken(q)'
    BY <1>3, <1>4 DEF JobsInv, TaskHasToken, IdleTask
  <2>3. \A q, r \in Workers : TokenIsMine(q, r)'
    BY <1>3 DEF JobsInv, TokenIsMine, IdleTask
  <2>4. \A v \in Windows : Claims(v)' = Claims(v)
    BY <1>4 DEF Claims
  <2> QED
    BY <1>3, <2>1, <2>2, <2>3, <2>4 DEF JobsInv
<1>5. CASE /\ Fenced(p, jobs[w])
           /\ snapshots' = IF snapshots[w].status = "queued_inference"
                   THEN [snapshots EXCEPT ![w].status = outcome, ![w].attempt = task[p].token]
                   ELSE snapshots
           /\ jobs' = [jobs EXCEPT ![w].status = outcome, ![w].token = 0, ![w].lapsed = FALSE]
  <2> HIDE DEF outcome
  <2>1. /\ jobs[w].status = "running" /\ task[p].token = jobs[w].attempts
        /\ snapshots[w].status = "queued_inference"
        /\ snapshots' = [snapshots EXCEPT ![w].status = outcome, ![w].attempt = task[p].token]
    BY <1>1, <1>5 DEF Fenced, JobsInv, JobFollowsRow
  <2>2. /\ jobs'[w] # Unset /\ jobs'[w].binding = jobs[w].binding
        /\ jobs'[w].attempts = jobs[w].attempts /\ jobs'[w].status = outcome
        /\ \A v \in Windows : v # w => jobs'[v] = jobs[v]
    <3>1. jobs'[w] = [jobs[w] EXCEPT !.status = outcome, !.token = 0, !.lapsed = FALSE]
      BY <1>1, <1>5 DEF JobsTypeOK
    <3>2. outcome \in {"completed", "unavailable"}
      BY <1>1 DEF outcome, Task
    <3>3. jobs'[w] \in Job
      BY ZenonT(60), <1>1, <3>1, <3>2, JobWritten, Zenon
    <3> QED
      BY <1>1, <1>5, <3>1, <3>3, Present DEF JobsTypeOK, Job
  <2>3. /\ snapshots'[w] # Unset /\ snapshots'[w].binding = snapshots[w].binding
        /\ snapshots'[w].status = outcome /\ snapshots'[w].attempt = jobs[w].attempts
        /\ \A v \in Windows : v # w => snapshots'[v] = snapshots[v]
    <3>1. snapshots'[w] = [snapshots[w] EXCEPT !.status = outcome, !.attempt = task[p].token]
      BY <1>1, <2>1 DEF JobsTypeOK
    <3>2. snapshots'[w] \in SnapshotRow
      BY <1>1, <1>2, <3>1 DEF SnapshotRow
    <3> QED
      BY <1>1, <2>1, <3>1, <3>2, Present DEF JobsTypeOK, SnapshotRow
  <2>4. \A v \in Windows : JobFollowsRow(v)' /\ AttemptOfJob(v)'
    <3>1. snapshots[w].binding = jobs[w].binding
      BY <1>1 DEF JobsInv, JobFollowsRow
    <3>2. JobFollowsRow(w)'
      BY <1>2, <2>2, <2>3, <3>1 DEF JobFollowsRow, Final
    <3>3. AttemptOfJob(w)'
      BY <1>2, <2>2, <2>3 DEF AttemptOfJob
    <3>4. ASSUME NEW v \in Windows, v # w PROVE JobFollowsRow(v)' /\ AttemptOfJob(v)'
      <4>1. JobFollowsRow(v) /\ AttemptOfJob(v)
        BY DEF JobsInv
      <4> QED
        BY <2>2, <2>3, <3>4, <4>1 DEF JobFollowsRow, AttemptOfJob
    <3> QED
      BY <3>2, <3>3, <3>4
  <2>5. \A q \in Workers : TaskHasToken(q)'
    BY <1>1, <1>3, <2>2 DEF JobsInv, TaskHasToken, IdleTask
  <2>6. \A q, r \in Workers : TokenIsMine(q, r)'
    BY <1>3 DEF JobsInv, TokenIsMine, IdleTask
  <2>7. \A v \in Windows : Claims(v)' = Claims(v)
    BY <1>1, <2>2 DEF Claims
  <2> QED
    BY <1>3, <2>4, <2>5, <2>6, <2>7 DEF JobsInv
<1> QED
  BY SMTT(60), <1>0, <1>4, <1>5 DEF Finish

LEMMA RestartInv ==
  ASSUME JobsTypeOK, JobsInv, NEW p \in Workers, Restart(p)
  PROVE  /\ JobsInv'
         /\ task' = [task EXCEPT ![p] = IdleTask]
         /\ UNCHANGED <<jobs, evals>>
<1>1. \A q \in Workers : task'[q] = IF q = p THEN IdleTask ELSE task[q]
  BY DEF Restart, JobsTypeOK
<1>2. \A w \in Windows : JobFollowsRow(w)' /\ AttemptOfJob(w)'
  BY DEF Restart, JobsInv, JobFollowsRow, AttemptOfJob
<1>3. \A q \in Workers : TaskHasToken(q)'
  BY <1>1 DEF Restart, JobsInv, TaskHasToken, IdleTask
<1>4. \A q, r \in Workers : TokenIsMine(q, r)'
  BY <1>1 DEF JobsInv, TokenIsMine, IdleTask
<1> QED
  BY <1>2, <1>3, <1>4 DEF Restart, JobsInv

-----------------------------------------------------------------------------
(* The attempts that are left                                               *)

LEMMA LeftFinite ==
  ASSUME NEW w
  PROVE  IsFiniteSet(Left(w)) /\ Cardinality(Left(w)) \in Nat
<1>1. IsFiniteSet(1..MaxAttempts)
  BY FS_Interval, InferenceAssumption
<1>2. Left(w) \subseteq 1..MaxAttempts
  BY DEF Left
<1>3. IsFiniteSet(Left(w))
  BY <1>1, <1>2, FS_Subset
<1> QED
  BY <1>3, FS_CardinalityType

(* A step that frees no attempt and runs no model uses none.                *)
LEMMA NothingUsed ==
  ASSUME JobsTypeOK, EvalsInv, NEW w \in Windows, evals'[w] = evals[w],
         Left(w)' \subseteq Left(w)
  PROVE  EvalsLeft(w)'
<1>1. IsFiniteSet(Left(w)) /\ Cardinality(Left(w)) \in Nat
  BY LeftFinite
<1>2. Cardinality(Left(w)') <= Cardinality(Left(w)) /\ IsFiniteSet(Left(w)')
  BY <1>1, FS_Subset
<1>3. Cardinality(Left(w)') \in Nat
  BY <1>2, FS_CardinalityType
<1>4. evals[w] \in Nat /\ MaxAttempts \in Nat /\ EvalsLeft(w)
  BY InferenceAssumption DEF JobsTypeOK, EvalsInv
<1> QED
  BY <1>1, <1>2, <1>3, <1>4 DEF EvalsLeft

(* Evaluate takes one of the attempts that are left.                        *)
LEMMA OneUsed ==
  ASSUME JobsTypeOK, EvalsInv, NEW w \in Windows, NEW t \in Left(w),
         evals'[w] = evals[w] + 1, Left(w)' \subseteq Left(w) \ {t}
  PROVE  EvalsLeft(w)'
<1>1. IsFiniteSet(Left(w)) /\ Cardinality(Left(w)) \in Nat
  BY LeftFinite
<1>2. /\ IsFiniteSet(Left(w) \ {t})
      /\ Cardinality(Left(w) \ {t}) = Cardinality(Left(w)) - 1
  BY <1>1, FS_RemoveElement
<1>3. Cardinality(Left(w)') <= Cardinality(Left(w)) - 1 /\ IsFiniteSet(Left(w)')
  BY <1>2, FS_Subset
<1>4. Cardinality(Left(w)') \in Nat
  BY <1>3, FS_CardinalityType
<1>5. evals[w] \in Nat /\ MaxAttempts \in Nat /\ EvalsLeft(w)
  BY InferenceAssumption DEF JobsTypeOK, EvalsInv
<1> QED
  BY <1>1, <1>3, <1>4, <1>5 DEF EvalsLeft

(* Workers that leave, or restart, only give attempts up.                   *)
LEMMA LeftShrinks ==
  ASSUME NEW w, Claims(w)' = Claims(w),
         \A q \in Workers : task'[q].pc = "check" => task'[q] = task[q]
  PROVE  Left(w)' \subseteq Left(w)
<1> SUFFICES ASSUME NEW t \in 1..MaxAttempts, t > Claims(w) \/ Awaited(w, t)'
             PROVE  t > Claims(w) \/ Awaited(w, t)
  BY DEF Left
<1> QED
  BY DEF Awaited

LEMMA EvalsKept ==
  ASSUME JobsTypeOK, JobsInv, EvalsInv, [JobsNext]_jobVars PROVE EvalsInv'
<1> SUFFICES ASSUME NEW v \in Windows PROVE EvalsLeft(v)'
  BY DEF EvalsInv
<1>1. ASSUME NEW p \in Workers, NEW w \in Windows, Ingest(p, w) PROVE EvalsLeft(v)'
  <2>1. Claims(v)' = Claims(v)
    <3>1. CASE v = w
      BY <1>1, <3>1, IngestInv DEF Claims
    <3>2. CASE v # w
      BY <1>1, <3>2, IngestInv DEF Claims
    <3> QED
      BY <3>1, <3>2
  <2>2. Left(v)' \subseteq Left(v)
    BY <1>1, <2>1, LeftShrinks DEF Ingest
  <2> QED
    BY <1>1, <2>2, NothingUsed DEF Ingest
<1>2. ASSUME NEW w \in Windows, Prepare(w) \/ Lapse(w) PROVE EvalsLeft(v)'
  <2>1. Claims(v)' = Claims(v)
    BY <1>2, PrepareInv, LapseInv
  <2>2. Left(v)' \subseteq Left(v)
    BY <1>2, <2>1, LeftShrinks DEF Prepare, Lapse
  <2> QED
    BY <1>2, <2>2, NothingUsed DEF Prepare, Lapse
<1>3. ASSUME NEW p \in Workers, NEW w \in Windows, Claim(p, w) PROVE EvalsLeft(v)'
  <2>1. \A q \in Workers : q # p => task'[q] = task[q]
    BY <1>3 DEF Claim, JobsTypeOK
  <2>2. CASE v # w
    <3>1. Claims(v)' = Claims(v) /\ task'[p].w # v
      BY <1>3, <2>2, ClaimInv
    <3>2. \A t : Awaited(v, t)' => Awaited(v, t)
      BY <2>1, <3>1 DEF Awaited
    <3>3. Left(v)' \subseteq Left(v)
      BY <3>1, <3>2 DEF Left
    <3> QED
      BY <1>3, <3>3, NothingUsed DEF Claim
  <2>3. CASE v = w
    <3>1. /\ Claims(v)' = Claims(v) + 1 /\ task'[p].token = Claims(v) + 1
          /\ Claims(v) \in Nat
      BY <1>3, <2>3, ClaimInv DEF Claims
    <3>2. \A t : Awaited(v, t)' => Awaited(v, t) \/ t = Claims(v) + 1
      BY <2>1, <3>1 DEF Awaited
    <3>3. ASSUME NEW t \in 1..MaxAttempts, t > Claims(v)' \/ Awaited(v, t)'
          PROVE  t > Claims(v) \/ Awaited(v, t)
      BY <3>1, <3>2, <3>3
    <3>4. Left(v)' \subseteq Left(v)
      BY <3>3 DEF Left
    <3> QED
      BY <1>3, <3>4, NothingUsed DEF Claim
  <2> QED
    BY <2>2, <2>3
<1>4. ASSUME NEW p \in Workers, Evaluate(p) PROVE EvalsLeft(v)'
  <2>1. \A q \in Workers : task'[q].pc = "check" => task'[q] = task[q] /\ q # p
    BY <1>4, EvaluateInv
  <2>2. Claims(v)' = Claims(v)
    BY <1>4 DEF Evaluate, Claims
  <2>3. Left(v)' \subseteq Left(v)
    BY <2>1, <2>2, LeftShrinks
  <2>4. CASE evals'[v] = evals[v]
    BY <2>3, <2>4, NothingUsed
  <2>5. CASE evals'[v] # evals[v]
    <3>1. ~Exhausted(p) /\ v = task[p].w /\ evals'[v] = evals[v] + 1
      BY <1>4, <2>5 DEF Evaluate, JobsTypeOK
    <3>2. /\ task[p].tries \in Nat /\ task[p].token = task[p].tries + 1
          /\ jobs[v] # Unset /\ task[p].token <= Claims(v)
      BY <1>4, <3>1 DEF Evaluate, JobsTypeOK, JobsInv, TaskHasToken, Task, Claims
    <3>3. task[p].token \in 1..MaxAttempts
      BY <3>1, <3>2, InferenceAssumption DEF Exhausted
    <3>4. Awaited(v, task[p].token)
      BY <1>4, <3>1 DEF Awaited, Evaluate
    <3>5. task[p].token \in Left(v)
      BY <3>3, <3>4 DEF Left
    <3>6. Left(v)' \subseteq Left(v) \ {task[p].token}
      <4> SUFFICES task[p].token \notin Left(v)'
        BY <2>3
      <4>1. ~(task[p].token > Claims(v))
        <5>1. jobs[v] \in Job
          BY <3>2 DEF JobsTypeOK
        <5>2. Claims(v) \in Nat
          BY <3>2, <5>1 DEF Claims, Job
        <5> QED
          BY <3>2, <3>3, <5>2
      <4>2. SUFFICES ASSUME NEW q \in Workers, task'[q].pc = "check", task'[q].w = v,
                            task'[q].token = task[p].token
                     PROVE  FALSE
        BY <2>2, <4>1 DEF Left, Awaited
      <4>3. q # p /\ task[q] = task'[q]
        BY <2>1, <4>2
      <4>4. TokenIsMine(p, q) /\ task[p].pc = "check"
        BY SMTT(60), <1>4 DEF JobsInv, Evaluate
      <4> QED
        BY <3>1, <4>2, <4>3, <4>4 DEF TokenIsMine
    <3> QED
      BY <3>1, <3>5, <3>6, OneUsed
  <2> QED
    BY <2>4, <2>5
<1>5. ASSUME NEW p \in Workers, Finish(p) \/ Restart(p) PROVE EvalsLeft(v)'
  <2>1. task' = [task EXCEPT ![p] = IdleTask] /\ Claims(v)' = Claims(v)
    BY <1>5, FinishInv, RestartInv DEF Claims
  <2>2. \A q \in Workers : task'[q].pc = "check" => task'[q] = task[q]
    BY <2>1 DEF JobsTypeOK, IdleTask
  <2>3. Left(v)' \subseteq Left(v)
    BY <2>1, <2>2, LeftShrinks
  <2> QED
    BY <1>5, <2>3, NothingUsed DEF Finish, Restart
<1>6. CASE UNCHANGED jobVars
  <2>1. Left(v)' \subseteq Left(v)
    BY <1>6 DEF jobVars, Left, Claims, Awaited
  <2> QED
    BY <1>6, <2>1, NothingUsed DEF jobVars
<1> QED
  BY <1>1, <1>2, <1>3, <1>4, <1>5, <1>6 DEF JobsNext
-----------------------------------------------------------------------------
(* The invariant                                                            *)

LEMMA JobsInitially == JobsInit => JobsIInv
<1> SUFFICES ASSUME JobsInit PROVE JobsIInv
  OBVIOUS
<1>1. JobsTypeOK
  BY IdleIsTask DEF JobsInit, JobsTypeOK
<1>2. JobsInv
  BY DEF JobsInit, JobsInv, JobFollowsRow, AttemptOfJob, TaskHasToken, TokenIsMine, IdleTask
<1>3. ASSUME NEW w \in Windows PROVE EvalsLeft(w)
  <2>1. Left(w) \subseteq 1..MaxAttempts
    BY DEF Left
  <2>2. /\ IsFiniteSet(1..MaxAttempts) /\ Cardinality(1..MaxAttempts) = MaxAttempts
        /\ MaxAttempts \in Nat
    BY FS_Interval, InferenceAssumption
  <2>3. Cardinality(Left(w)) <= MaxAttempts
    BY <2>1, <2>2, FS_Subset
  <2> QED
    BY <1>3, <2>2, <2>3, LeftFinite DEF JobsInit, EvalsLeft
<1> QED
  BY <1>1, <1>2, <1>3 DEF JobsIInv, EvalsInv

LEMMA JobsStep == JobsIInv /\ [JobsNext]_jobVars => JobsIInv'
<1> SUFFICES ASSUME JobsIInv, [JobsNext]_jobVars PROVE JobsIInv'
  OBVIOUS
<1> USE DEF JobsIInv
<1>1. JobsTypeOK' /\ EvalsInv'
  BY JobsTyped, EvalsKept
<1>2. JobsInv'
  <2>1. CASE UNCHANGED jobVars
    BY <2>1 DEF jobVars, JobsInv, JobFollowsRow, AttemptOfJob, TaskHasToken, TokenIsMine
  <2>2. CASE JobsNext
    BY <2>2, IngestInv, PrepareInv, LapseInv, ClaimInv, EvaluateInv, FinishInv, RestartInv
       DEF JobsNext
  <2> QED
    BY <2>1, <2>2
<1> QED
  BY <1>1, <1>2

(* In every behaviour rows, jobs, tokens and attempts stay related: the      *)
(* inductive invariant of the inference queue, with its types.              *)
THEOREM JobsInvariance == JobsSpec => []JobsIInv
BY JobsInitially, JobsStep, PTL DEF JobsSpec

(* However leases lapse, writes fail and processes restart, a window and its *)
(* job are decided together and alike, the result shown is that of the last *)
(* claim, and a model is run at most MAX_ATTEMPTS times on a window.        *)
THEOREM JobsAreHeld == JobsSpec => []JobsHold
<1>1. JobsIInv => JobsHold
  <2> SUFFICES ASSUME JobsIInv PROVE JobsHold
    OBVIOUS
  <2>1. RowAndJobAgree
    BY DEF JobsIInv, JobsInv, JobsTypeOK, Job, JobFollowsRow, RowAndJobAgree, Final
  <2>2. ResultOfLatestClaim
    BY DEF JobsIInv, JobsInv, AttemptOfJob, ResultOfLatestClaim
  <2>3. BoundedEvaluations
    <3> SUFFICES ASSUME NEW w \in Windows PROVE evals[w] <= MaxAttempts
      BY DEF BoundedEvaluations
    <3>1. EvalsLeft(w) /\ evals[w] \in Nat /\ MaxAttempts \in Nat
      BY InferenceAssumption DEF JobsIInv, JobsTypeOK, EvalsInv
    <3> QED
      BY <3>1, LeftFinite DEF EvalsLeft
  <2> QED
    BY <2>1, <2>2, <2>3 DEF JobsHold
<1> QED
  BY <1>1, JobsInvariance, PTL

-----------------------------------------------------------------------------
(* The inbox is implemented                                                 *)

(* What the inbox shows of a row.                                           *)
Shown(row) ==
  IF row = Unset THEN Unset
  ELSE [late |-> row.late, binding |-> row.binding, status |-> StatusOf(row.status)]

LEMMA ShownRow ==
  ASSUME NEW row \in SnapshotRow
  PROVE  /\ row # Unset /\ Shown(row) # Unset
         /\ Shown(row) = [late |-> row.late, binding |-> row.binding,
                          status |-> StatusOf(row.status)]
         /\ Shown(row).status = StatusOf(row.status) /\ Shown(row).binding = row.binding
<1>1. row # Unset
  BY Present
<1>2. [late |-> row.late, binding |-> row.binding, status |-> StatusOf(row.status)] \in InboxRow
  BY DEF SnapshotRow, InboxRow, StatusOf, Final
<1> QED
  BY <1>1, <1>2, UnsetIsNoRecord DEF Shown

LEMMA RowsShown ==
  /\ InboxRows = [w \in Windows |-> Shown(snapshots[w])]
  /\ InboxRows' = [w \in Windows |-> Shown(snapshots'[w])]
BY DEF InboxRows, Shown

(* A step that leaves what is shown of every row alone is a stutter.        *)
LEMMA ShownAlike ==
  ASSUME \A w \in Windows : Shown(snapshots'[w]) = Shown(snapshots[w])
  PROVE  UNCHANGED InboxRows
BY RowsShown

(* A step that changes one row changes what is shown of that one.           *)
LEMMA ShownOne ==
  ASSUME NEW w \in Windows, \A v \in Windows : v # w => snapshots'[v] = snapshots[v]
  PROVE  InboxRows' = [InboxRows EXCEPT ![w] = Shown(snapshots'[w])]
BY RowsShown

(* A row that was undecided is decided: the step Decide of the inbox.       *)
LEMMA DecidesRow ==
  ASSUME JobsTypeOK, NEW w \in Windows, NEW s \in Final,
         snapshots[w] \in SnapshotRow, snapshots[w].status \notin Final,
         s = "completed" => snapshots[w].binding # Unset,
         \A v \in Windows : v # w => snapshots'[v] = snapshots[v],
         snapshots'[w] \in SnapshotRow, snapshots'[w].status = s,
         snapshots'[w].late = snapshots[w].late, snapshots'[w].binding = snapshots[w].binding
  PROVE  Inbox!Decide(w, s)
<1>1. /\ InboxRows[w] = Shown(snapshots[w]) /\ InboxRows[w] # Unset
      /\ InboxRows[w].status = "open" /\ InboxRows[w].binding = snapshots[w].binding
  BY RowsShown, ShownRow DEF StatusOf
<1>2. Shown(snapshots'[w]) = [InboxRows[w] EXCEPT !.status = s]
  BY <1>1, ShownRow DEF StatusOf
<1>3. InboxRows' = [InboxRows EXCEPT ![w].status = s]
  BY <1>2, ShownOne
<1> QED
  BY <1>1, <1>3 DEF Inbox!Decide, Final

LEMMA IngestReceives ==
  ASSUME JobsIInv, NEW p \in Workers, NEW w \in Windows, Ingest(p, w)
  PROVE  Inbox!InboxNext
<1> USE DEF JobsIInv
<1>1. PICK expired \in BOOLEAN :
        snapshots' = [snapshots EXCEPT ![w] =
                        [late |-> \E v \in Received : v > w, binding |-> model[p],
                         attempt |-> 0,
                         status |-> IF w \in Valid /\ ~expired THEN "queued" ELSE "unavailable"]]
  BY DEF Ingest
<1> DEFINE status == IF w \in Valid /\ ~expired THEN "queued" ELSE "unavailable"
<1>2. snapshots'[w] = [late |-> \E v \in Received : v > w, binding |-> model[p],
                       attempt |-> 0, status |-> status]
  BY <1>1 DEF JobsTypeOK
<1>3. snapshots'[w] \in SnapshotRow
  BY <1>2 DEF JobsTypeOK, SnapshotRow, Final
<1>4. \A v \in Windows : InboxRows[v] # Unset <=> snapshots[v] # Unset
  BY RowsShown, ShownRow DEF JobsTypeOK, Shown
<1>5. Inbox!IsLate(w) = (\E v \in Received : v > w)
  BY <1>4 DEF Inbox!IsLate, Inbox!Received, Received
<1>6. StatusOf(status) = Inbox!ReceivedStatus(w, expired)
  BY DEF StatusOf, Final, Inbox!ReceivedStatus
<1>7. Shown(snapshots'[w]) = [late |-> Inbox!IsLate(w), binding |-> model[p],
                              status |-> Inbox!ReceivedStatus(w, expired)]
  <2>1. /\ snapshots'[w].late = (\E v \in Received : v > w)
        /\ snapshots'[w].binding = model[p] /\ snapshots'[w].status = status
    BY <1>2
  <2> HIDE DEF status
  <2> QED
    BY <1>3, <1>5, <1>6, <2>1, ShownRow
<1>8. InboxRows' = [InboxRows EXCEPT ![w] = Shown(snapshots'[w])]
  BY <1>1, ShownOne DEF JobsTypeOK
<1>9. Inbox!Receive(w, model[p], expired)
  BY <1>4, <1>7, <1>8 DEF Inbox!Receive, Ingest, IsNew
<1> QED
  BY <1>9 DEF Inbox!InboxNext, JobsTypeOK

LEMMA PrepareDecides ==
  ASSUME JobsIInv, NEW w \in Windows, Prepare(w)
  PROVE  [Inbox!InboxNext]_InboxRows
<1> USE DEF JobsIInv
<1>1. snapshots[w] \in SnapshotRow /\ snapshots[w].status = "queued"
  BY DEF Prepare, JobsTypeOK
<1>2. PICK s \in {"queued_inference", "waiting_model", "unavailable"} :
        snapshots' = [snapshots EXCEPT ![w].status = s]
  BY DEF Prepare
<1>3. /\ snapshots'[w] = [snapshots[w] EXCEPT !.status = s]
      /\ \A v \in Windows : v # w => snapshots'[v] = snapshots[v]
  BY <1>2 DEF JobsTypeOK
<1>4. /\ snapshots'[w] \in SnapshotRow /\ snapshots'[w].status = s
      /\ snapshots'[w].late = snapshots[w].late
      /\ snapshots'[w].binding = snapshots[w].binding
  BY <1>1, <1>3 DEF SnapshotRow, Final
<1>5. CASE s = "queued_inference"
  <2>1. Shown(snapshots'[w]) = Shown(snapshots[w])
    BY <1>1, <1>4, <1>5, ShownRow DEF StatusOf, Final
  <2> QED
    BY <1>3, <2>1, ShownAlike
<1>6. CASE s # "queued_inference"
  <2>1. Inbox!Decide(w, s)
    BY <1>1, <1>3, <1>4, <1>6, DecidesRow DEF Final
  <2> QED
    BY <1>6, <2>1 DEF Inbox!InboxNext
<1> QED
  BY <1>5, <1>6

LEMMA FinishDecides ==
  ASSUME JobsIInv, NEW p \in Workers, Finish(p)
  PROVE  [Inbox!InboxNext]_InboxRows
<1> USE DEF JobsIInv
<1>0. PICK w \in Windows : w = task[p].w
  BY DEF Finish, JobsInv, TaskHasToken
<1> DEFINE outcome == IF InTime(jobs[w]) THEN task[p].outcome ELSE "unavailable"
<1>1. CASE UNCHANGED snapshots
  BY <1>1, ShownAlike
<1>2. CASE /\ Fenced(p, jobs[w]) /\ snapshots[w].status = "queued_inference"
           /\ snapshots' = [snapshots EXCEPT ![w].status = outcome, ![w].attempt = task[p].token]
  <2>1. outcome \in {"completed", "unavailable"} /\ task[p].token \in Nat
    BY DEF JobsTypeOK, Task
  <2> HIDE DEF outcome
  <2>2. /\ snapshots[w] \in SnapshotRow /\ snapshots[w].binding \in Bindings
    BY <1>0 DEF Finish, JobsTypeOK, JobsInv, TaskHasToken, JobFollowsRow, Job
  <2>3. /\ snapshots'[w] = [snapshots[w] EXCEPT !.status = outcome, !.attempt = task[p].token]
        /\ \A v \in Windows : v # w => snapshots'[v] = snapshots[v]
    BY <1>2 DEF JobsTypeOK
  <2>4. /\ snapshots'[w] \in SnapshotRow /\ snapshots'[w].status = outcome
        /\ snapshots'[w].late = snapshots[w].late
        /\ snapshots'[w].binding = snapshots[w].binding
    BY <2>1, <2>2, <2>3 DEF SnapshotRow, Final
  <2>5. Inbox!Decide(w, outcome)
    BY <1>2, <2>1, <2>2, <2>3, <2>4, InferenceAssumption, DecidesRow DEF Final
  <2> QED
    BY <2>1, <2>5 DEF Inbox!InboxNext
<1> QED
  BY <1>0, <1>1, <1>2 DEF Finish

LEMMA StepImplements ==
  ASSUME JobsIInv, [JobsNext]_jobVars
  PROVE  [Inbox!InboxNext]_InboxRows
<1>1. ASSUME UNCHANGED snapshots PROVE UNCHANGED InboxRows
  BY <1>1, ShownAlike
<1>2. CASE UNCHANGED jobVars
  BY <1>1, <1>2 DEF jobVars
<1>3. ASSUME NEW w \in Windows, Lapse(w) PROVE UNCHANGED InboxRows
  BY <1>1, <1>3 DEF Lapse
<1>4. ASSUME NEW p \in Workers,
             (\E w \in Windows : Claim(p, w)) \/ Evaluate(p) \/ Restart(p)
      PROVE  UNCHANGED InboxRows
  BY ZenonT(60), <1>1, <1>4 DEF Claim, Evaluate, Restart
<1> QED
  BY <1>2, <1>3, <1>4, IngestReceives, PrepareDecides, FinishDecides DEF JobsNext

LEMMA InitImplements == JobsInit => Inbox!InboxInit
BY DEF JobsInit, InboxRows, Inbox!InboxInit

(* The queue with its leases, attempts and restarts does what the inbox      *)
(* promises: each window is received once, bound at its receipt to the model *)
(* in use, and decided once.                                                *)
THEOREM JobsImplementInbox == JobsSpec => ImplementsInbox
BY InitImplements, StepImplements, JobsInvariance, PTL
   DEF JobsSpec, ImplementsInbox, Inbox!InboxSpec
=============================================================================
