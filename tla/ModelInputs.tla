---------------------------- MODULE ModelInputs ----------------------------
(***************************************************************************)
(* Shadow inference over windows a device uploads: model_inference.py, and *)
(* the guards that keep a device with such history from being deleted      *)
(* (device_lifecycle.py, model_history.py).                                *)
(*                                                                         *)
(* A stream is the windows of one source for one model and in one context  *)
(* (site, asset, preprocessing, rate, raw or prepared: the last is what    *)
(* varies here); a verdict is given on Length consecutive ones.  Ingestion *)
(* checks the device under the store's lock and inserts under its own; the *)
(* worker reads, evaluates without a lock and writes; rows expire at any   *)
(* time; the process is restarted with the same model, another or none.    *)
(***************************************************************************)
EXTENDS Integers, FiniteSets
CONSTANTS
  Models, NoModel,
  Contents,          \* digests of a window's body
  Length,            \* checkpoint.sequence_length
  MaxIndex, MaxRows, MaxAccepted, MaxRestarts, Absent

ASSUME ModelInputsConstants ==
  /\ NoModel \notin Models
  /\ Length \in Nat \ {0} /\ {MaxIndex, MaxRows, MaxAccepted, MaxRestarts} \subseteq Nat

\* A row of the table of streams: the context, and the last index taken.
StreamRow == [context : {"raw", "prepared"}, last : Nat]
ASSUME AbsentIsNoStream == Absent \notin StreamRow

VARIABLES
  checkpoint,  \* the model of this process, or NoModel: no inference store
  exists,      \* the device is registered
  gate,        \* the upload that holds the device lifecycle gate, or Absent
  inputs,      \* rows of inputs; the ordinal is the row's place in the queue
  streams,     \* rows of streams: model -> [context, last], or Absent
  known,       \* the device is in the table of identities
  ordinal,
  worker,      \* the row and the group the worker has read, or Absent
  taken,       \* history: windows that were answered 202
  restarts

inputsVars == <<checkpoint, exists, gate, inputs, streams, known, ordinal, worker,
                taken, restarts>>

ModelInputsInit ==
  /\ checkpoint \in Models /\ exists = TRUE /\ gate = Absent
  /\ inputs = {} /\ streams = [m \in Models |-> Absent] /\ known = FALSE
  /\ ordinal = 0 /\ worker = Absent /\ taken = {} /\ restarts = 0

Uploads == [model : Models, index : 0..MaxIndex, content : Contents,
            kind : {"raw", "prepared"}]

-----------------------------------------------------------------------------
(* ingest.                                                                 *)

\* The mapping is checked and the envelope normalized, the gate held.
BeginUpload(w) ==
  /\ gate = Absent /\ exists /\ checkpoint # NoModel
  /\ w.model = checkpoint /\ Cardinality(taken) < MaxAccepted
  /\ gate' = w
  /\ UNCHANGED <<checkpoint, exists, inputs, streams, known, ordinal, worker, taken, restarts>>

Previous(w) == {r \in inputs : r.model = w.model /\ r.index = w.index}

\* mutant: only rows that are still there are compared, not the watermark.
InSequence_Mut(w) ==
  LET stream == streams[w.model]
  IN  IF stream = Absent THEN w.index = 0 ELSE stream.context = w.kind
\* Behind the durable watermark, and of the same context; a new source starts at 0.
InSequence(w) ==
  LET stream == streams[w.model]
  IN  IF stream = Absent THEN w.index = 0
      ELSE stream.context = w.kind /\ w.index > stream.last

\* A duplicate, a conflict and a full queue leave the tables as they are.
Insert(w) ==
  IF Previous(w) = {} /\ InSequence(w) /\ Cardinality(inputs) < MaxRows
  THEN /\ ordinal' = ordinal + 1
       /\ inputs' = inputs \cup {[ordinal |-> ordinal + 1, model |-> w.model,
                                  index |-> w.index, content |-> w.content,
                                  kind |-> w.kind, status |-> "queued",
                                  prepared |-> FALSE]}
       /\ streams' = [streams EXCEPT ![w.model] = [context |-> w.kind, last |-> w.index]]
       /\ known' = TRUE
       /\ taken' = taken \cup {w}
  ELSE UNCHANGED <<ordinal, inputs, streams, known, taken>>

FinishUpload ==
  /\ gate # Absent /\ gate' = Absent
  /\ Insert(gate)
  /\ UNCHANGED <<checkpoint, exists, worker, restarts>>

-----------------------------------------------------------------------------
(* tick.                                                                   *)

Queued == {r \in inputs : r.status = "queued"}
Start(r) == r.index - (r.index % Length)

Group(r) == {g \in inputs : g.model = r.model /\ g.index \in Start(r)..r.index}

ReadRow ==
  /\ worker = Absent /\ checkpoint # NoModel /\ Queued # {}
  /\ LET row == CHOOSE r \in Queued : \A s \in Queued : r.ordinal <= s.ordinal
     IN  worker' = [row |-> row, group |-> Group(row)]
  /\ UNCHANGED <<checkpoint, exists, gate, inputs, streams, known, ordinal, taken, restarts>>

\* Every window of the group is prepared, or was transformed in its own turn.
Transformed(row, group, prepared) ==
  \A g \in group : g.kind = "prepared" \/ g.prepared \/ (g.index = row.index /\ prepared)

\* What the worker may find; features and timestamps decide between the verdict
\* and a discontinuity.
Statuses(row, group, prepared) ==
  CASE row.model # checkpoint -> {"not_evaluated"}
    [] row.model = checkpoint /\ row.kind = "raw" /\ ~prepared -> {"not_evaluated"}
    [] OTHER ->
         IF row.index % Length # Length - 1 THEN {"warming_up"}
         ELSE IF Cardinality(group) # Length \/ ~Transformed(row, group, prepared)
         THEN {"not_evaluated"} ELSE {"inferred", "not_evaluated"}

\* UPDATE ... WHERE id=? AND status='queued'.
IsSettled(row, status, prepared) ==
  {IF r.ordinal = row.ordinal /\ r.status = "queued"
   THEN [r EXCEPT !.status = status, !.prepared = prepared] ELSE r : r \in inputs}

WriteResult ==
  /\ worker # Absent
  /\ \E prepared \in IF worker.row.kind = "raw" /\ worker.row.model = checkpoint
                     THEN BOOLEAN ELSE {FALSE} :
       \E status \in Statuses(worker.row, worker.group, prepared) :
         inputs' = IsSettled(worker.row, status, prepared)
  /\ worker' = Absent
  /\ UNCHANGED <<checkpoint, exists, gate, streams, known, ordinal, taken, restarts>>

-----------------------------------------------------------------------------
(* Retention, deletion, restarts.                                          *)

\* prune, when the row's capture time is a week ago; the stream stays.
Expire(r) ==
  /\ inputs' = inputs \ {r}
  /\ UNCHANGED <<checkpoint, exists, gate, streams, known, ordinal, worker, taken, restarts>>

\* check_history: the store if there is one, and ModelHistoryGuard.
HistoryForbids == known

\* delete_device, and the id taken again by a new device.
DeleteDevice ==
  /\ gate = Absent /\ exists /\ ~HistoryForbids
  /\ exists' = FALSE
  /\ UNCHANGED <<checkpoint, gate, inputs, streams, known, ordinal, worker, taken, restarts>>

CreateDevice ==
  /\ ~exists /\ gate = Absent /\ ~HistoryForbids /\ exists' = TRUE
  /\ UNCHANGED <<checkpoint, gate, inputs, streams, known, ordinal, worker, taken, restarts>>

RestartProcess ==
  /\ restarts < MaxRestarts /\ restarts' = restarts + 1
  /\ checkpoint' \in Models \cup {NoModel}
  /\ worker' = Absent /\ gate' = Absent
  /\ UNCHANGED <<exists, inputs, streams, known, ordinal, taken>>

ModelInputsNext ==
  \/ \E w \in Uploads : BeginUpload(w)
  \/ FinishUpload \/ ReadRow \/ WriteResult
  \/ \E r \in inputs : Expire(r)
  \/ DeleteDevice \/ CreateDevice \/ RestartProcess

ModelInputsSpec == ModelInputsInit /\ [][ModelInputsNext]_inputsVars
-----------------------------------------------------------------------------
(* Properties.                                                             *)

\* A window is taken once for all time, also after its row has expired and the
\* process was restarted, and windows of one stream share their context.
AcceptedOnce ==
  \A v, w \in taken : v.model = w.model =>
    v.kind = w.kind /\ (v.index = w.index => v = w)

\* A verdict stands on as many consecutive windows as the model takes, all of them
\* taken for that model.
VerdictsAreBacked ==
  \A r \in inputs : r.status = "inferred" =>
    /\ r.index % Length = Length - 1
    /\ \A i \in Start(r)..r.index : \E w \in taken : w.model = r.model /\ w.index = i

\* A device whose windows were taken stays registered.
HistoryKeepsDevice == taken # {} => exists

\* Uploads are evaluated once, in the order of acceptance, and none comes back.
EvaluatedInOrder ==
  [][ \A r \in inputs' :
        LET before == {s \in inputs : s.ordinal = r.ordinal}
        IN  /\ before = {} => r.ordinal = ordinal' /\ ordinal' > ordinal
            /\ \A s \in before : s # r => s.status = "queued" /\
                 (\A q \in Queued : q.ordinal >= s.ordinal) ]_inputsVars
=============================================================================
