-------------------------- MODULE SnapshotInference --------------------------
(***************************************************************************)
(* periodic_snapshots.py and snapshot_inference.py: the durable inbox of   *)
(* measurement windows, its preparation, and the inference jobs that       *)
(* several connections to the same database may claim under a lease.  The  *)
(* computation holds no lock: a claim may lapse, be taken by another       *)
(* worker, or be orphaned by a restart while the result is computed, and   *)
(* only the token of the latest claim may store a result.                  *)
(***************************************************************************)
EXTENDS Naturals, FiniteSets

CONSTANTS
  Windows, Valid, Bindings, Unset,   \* as in SnapshotInbox
  Preparable,    \* windows whose stored original passes preparation
  Workers,       \* connections (server processes) that open the database
  MaxAttempts,   \* MAX_ATTEMPTS
  MaxFailures    \* bound on each kind of failure

FailureKinds == {"crash", "db", "lapse", "model"}
Final == {"completed", "unavailable", "waiting_model"}

ASSUME InferenceAssumption ==
  /\ Windows \subseteq Nat /\ Valid \subseteq Windows /\ Preparable \subseteq Windows
  /\ Unset \notin Bindings
  /\ MaxAttempts \in Nat \ {0}
  /\ MaxFailures \in [FailureKinds -> Nat]

VARIABLES
  snapshots, \* periodic_snapshots: status, binding at receipt, lateness
  jobs,      \* snapshot_inference_jobs
  model,     \* the model each process was started with
  task,      \* the inference thread of each process and the claim it works on
  evals,     \* how often a model was run on each window
  failures   \* failures so far, by kind

jobVars == <<snapshots, jobs, model, task, evals, failures>>

SnapshotRow ==
  [late : BOOLEAN, binding : Bindings \cup {Unset}, attempt : Nat,
   status : Final \cup {"queued", "queued_inference"}]
Job == [binding : Bindings, status : {"queued", "running", "completed", "unavailable"},
        attempts : Nat, token : Nat, lapsed : BOOLEAN]
Task == [pc : {"idle", "check", "finish"}, w : Windows \cup {Unset}, token : Nat, tries : Nat,
         outcome : {"completed", "unavailable"}]
InboxRow == [late : BOOLEAN, binding : Bindings \cup {Unset}, status : Final \cup {"open"}]
ASSUME UnsetIsNoRecord == Unset \notin SnapshotRow \cup Job \cup InboxRow

IdleTask == [pc |-> "idle", w |-> Unset, token |-> 0, tries |-> 0, outcome |-> "unavailable"]

JobsInit ==
  /\ snapshots = [w \in Windows |-> Unset]
  /\ jobs = [w \in Windows |-> Unset]
  /\ model \in [Workers -> Bindings \cup {Unset}]
  /\ task = [p \in Workers |-> IdleTask]
  /\ evals = [w \in Windows |-> 0]
  /\ failures = [k \in FailureKinds |-> 0]

Failure(k) == /\ failures[k] < MaxFailures[k]
              /\ failures' = [failures EXCEPT ![k] = @ + 1]
NoFailure  == UNCHANGED failures
Received == {w \in Windows : snapshots[w] # Unset}

-----------------------------------------------------------------------------
(* ingest: the original, its inference job and its event job are one        *)
(* transaction.  A job is assigned at the receipt or never.  Features older *)
(* than their retention are archived without a job.                         *)
Assigned(p, w, expired) == w \in Valid /\ model[p] # Unset /\ ~expired

(* The identity of an upload, device, boot and index, is looked up first.   *)
IsNew_Mut(w) == TRUE
IsNew(w) == snapshots[w] = Unset

Ingest(p, w) ==
  /\ IsNew(w)
  /\ \E expired \in BOOLEAN :
       /\ snapshots' = [snapshots EXCEPT ![w] =
                          [late |-> \E v \in Received : v > w, binding |-> model[p],
                           attempt |-> 0,
                           status |-> IF w \in Valid /\ ~expired THEN "queued" ELSE "unavailable"]]
       /\ jobs' = IF Assigned(p, w, expired)
                  THEN [jobs EXCEPT ![w] = [binding |-> model[p], status |-> "queued",
                                            attempts |-> 0, token |-> 0, lapsed |-> FALSE]]
                  ELSE jobs
  /\ UNCHANGED <<model, task, evals, failures>>

(* tick of the preparation worker: one short transaction decides what is    *)
(* left to do for one queued window.                                        *)
PrepareMark(w) ==
  IF jobs[w] # Unset /\ w \notin Preparable
  THEN [jobs EXCEPT ![w].status = "unavailable"] ELSE jobs

Prepare(w) ==
  /\ snapshots[w] # Unset /\ snapshots[w].status = "queued"
  /\ \E s \in IF w \notin Preparable THEN {"unavailable"}
              ELSE IF jobs[w] # Unset THEN {"queued_inference"}
              ELSE {"waiting_model", "unavailable"} :  \* no model, or one with another input
       snapshots' = [snapshots EXCEPT ![w].status = s]
  /\ jobs' = PrepareMark(w)
  /\ UNCHANGED <<model, task, evals, failures>>

-----------------------------------------------------------------------------
(* The inference thread *)

Claimable_Mut(p, w) ==
  /\ snapshots[w] # Unset /\ snapshots[w].status = "queued_inference"
  /\ jobs[w] # Unset /\ jobs[w].binding = model[p]
  /\ jobs[w].status = "queued"
Claimable(p, w) ==
  /\ snapshots[w] # Unset /\ snapshots[w].status = "queued_inference"
  /\ jobs[w] # Unset /\ jobs[w].binding = model[p]
  /\ \/ jobs[w].status = "queued"
     \/ jobs[w].status = "running" /\ jobs[w].lapsed

(* _claim: a new token fences every earlier claim of the same job.          *)
Claim(p, w) ==
  LET fresh == jobs[w].attempts + 1 IN
  /\ task[p].pc = "idle" /\ Claimable(p, w)
  /\ jobs' = [jobs EXCEPT ![w].status = "running", ![w].token = fresh,
                          ![w].attempts = fresh, ![w].lapsed = FALSE]
  /\ task' = [task EXCEPT ![p] = [IdleTask EXCEPT !.pc = "check", !.w = w, !.token = fresh,
                                                  !.tries = jobs[w].attempts]]
  /\ UNCHANGED <<snapshots, model, evals, failures>>

(* The body of tick: the model is run unless the attempts are used up, and  *)
(* may fail.                                                                *)
Exhausted(p) == task[p].tries >= MaxAttempts

Evaluate(p) ==
  /\ task[p].pc = "check"
  /\ IF Exhausted(p)
     THEN /\ task' = [task EXCEPT ![p].pc = "finish", ![p].outcome = "unavailable"]
          /\ UNCHANGED <<evals, failures>>
     ELSE /\ evals' = [evals EXCEPT ![task[p].w] = @ + 1]
          /\ \/ /\ task' = [task EXCEPT ![p].pc = "finish", ![p].outcome = "completed"]
                /\ NoFailure
             \/ /\ task' = [task EXCEPT ![p].pc = "finish", ![p].outcome = "unavailable"]
                /\ Failure("model")
  /\ UNCHANGED <<snapshots, jobs, model>>

(* _finish: an expired attempt cannot overwrite a newer claim or a final    *)
(* result, and a result that comes after the deadline is no verdict.        *)
Fenced_Mut(p, job) == job.status = "running" /\ job.binding = model[p]
Fenced(p, job) ==
  job.status = "running" /\ job.token = task[p].token /\ job.binding = model[p]
InTime(job) == ~job.lapsed

Finish(p) ==
  LET w == task[p].w
      outcome == IF InTime(jobs[w]) THEN task[p].outcome ELSE "unavailable"
  IN
  /\ task[p].pc = "finish"
  /\ \/ /\ Fenced(p, jobs[w]) /\ NoFailure
        /\ snapshots' = IF snapshots[w].status = "queued_inference"
                   THEN [snapshots EXCEPT ![w].status = outcome, ![w].attempt = task[p].token]
                   ELSE snapshots
        /\ jobs' = [jobs EXCEPT ![w].status = outcome, ![w].token = 0, ![w].lapsed = FALSE]
     \/ ~Fenced(p, jobs[w]) /\ NoFailure /\ UNCHANGED <<snapshots, jobs>>
     \/ Failure("db") /\ UNCHANGED <<snapshots, jobs>>
  /\ task' = [task EXCEPT ![p] = IdleTask]
  /\ UNCHANGED <<model, evals>>

-----------------------------------------------------------------------------
(* LEASE_SECONDS pass for the latest claim. *)
Lapse(w) ==
  /\ jobs[w] # Unset /\ jobs[w].status = "running" /\ ~jobs[w].lapsed
  /\ jobs' = [jobs EXCEPT ![w].lapsed = TRUE]
  /\ IF \E p \in Workers : task[p].w = w /\ task[p].token = jobs[w].token
     THEN Failure("lapse") ELSE NoFailure
  /\ UNCHANGED <<snapshots, model, task, evals>>

(* The process stops and starts again, perhaps with another model.          *)
Restart(p) ==
  /\ Failure("crash")
  /\ model' \in {[model EXCEPT ![p] = b] : b \in Bindings \cup {Unset}}
  /\ task' = [task EXCEPT ![p] = IdleTask]
  /\ UNCHANGED <<snapshots, jobs, evals>>

JobsNext ==
  \/ \E w \in Windows : Prepare(w) \/ Lapse(w)
  \/ \E p \in Workers :
       \/ \E w \in Windows : Ingest(p, w) \/ Claim(p, w)
       \/ Evaluate(p) \/ Finish(p) \/ Restart(p)

JobsSpec == JobsInit /\ [][JobsNext]_jobVars

(* Threads keep running and time keeps passing; nothing makes the board     *)
(* send, or the process restart.                                            *)
JobsFairness ==
  /\ \A w \in Windows : WF_jobVars(Prepare(w)) /\ WF_jobVars(Lapse(w))
  /\ \A p \in Workers :
       WF_jobVars(Evaluate(p)) /\ WF_jobVars(Finish(p))
          /\ WF_jobVars(\E w \in Windows : Claim(p, w))
JobsFairSpec == JobsSpec /\ JobsFairness

-----------------------------------------------------------------------------
(* Properties *)

JobsTypeOK ==
  /\ snapshots \in [Windows -> SnapshotRow \cup {Unset}]
  /\ jobs \in [Windows -> Job \cup {Unset}]
  /\ model \in [Workers -> Bindings \cup {Unset}]
  /\ task \in [Workers -> Task]
  /\ evals \in [Windows -> Nat]
  /\ failures \in [FailureKinds -> Nat]

(* A window and its job are decided together and alike: the result shown to *)
(* the operator and the queue never disagree, whichever worker wrote them.  *)
RowAndJobAgree ==
  \A w \in Windows : jobs[w] # Unset =>
    /\ snapshots[w] # Unset /\ snapshots[w].binding = jobs[w].binding
    /\ jobs[w].status \in Final \/ snapshots[w].status \in Final =>
         snapshots[w].status = jobs[w].status

(* The attempt recorded with a result is the last that was claimed: no      *)
(* worker still computes on a newer claim when an older result is stored.   *)
ResultOfLatestClaim ==
  \A w \in Windows : snapshots[w] # Unset /\ snapshots[w].attempt > 0 =>
    snapshots[w].attempt = jobs[w].attempts

(* A model is run at most MAX_ATTEMPTS times on a window, whatever lapses,  *)
(* fails or restarts.                                                       *)
BoundedEvaluations == \A w \in Windows : evals[w] <= MaxAttempts

\* Snapshot jobs: the row and its job agree, the result is of the latest claim, and no
\* window is evaluated more often than it may be.
JobsHold == RowAndJobAgree /\ ResultOfLatestClaim /\ BoundedEvaluations

(* The inbox is implemented: received once, bound once, decided once.       *)
StatusOf(s) == IF s \in Final THEN s ELSE "open"
InboxRows == [w \in Windows |->
  IF snapshots[w] = Unset THEN Unset
  ELSE [late |-> snapshots[w].late, binding |-> snapshots[w].binding,
        status |-> StatusOf(snapshots[w].status)]]
Inbox == INSTANCE SnapshotInbox WITH rows <- InboxRows, None <- Unset
ImplementsInbox == Inbox!InboxSpec

(* A received window is decided in the end, unless no running process has   *)
(* the model it was bound to.                                               *)
Decided(w)  == snapshots[w] # Unset /\ snapshots[w].status \in Final
Orphaned(w) ==
  /\ snapshots[w] # Unset /\ snapshots[w].status = "queued_inference"
  /\ \A p \in Workers : model[p] # snapshots[w].binding
ReceivedIsDecided ==
  \A w \in Windows : snapshots[w] # Unset ~> Decided(w) \/ Orphaned(w)
=============================================================================
