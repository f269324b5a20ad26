------------------------------ MODULE MqttRetry ------------------------------
(***************************************************************************)
(* The MQTT-to-HTTP bridge of motor_diagnosis/mqtt_service.py: the durable *)
(* delivery table and retry queue of MqttRetryQueue, the Paho callback     *)
(* thread (process_mqtt_message and the session callbacks), the retry      *)
(* worker thread, and the broker and backend they talk to.                 *)
(*                                                                         *)
(* Every SQLite transaction, HTTP call and PUBACK is a step of its own, so *)
(* the process may stop, the connection drop or the other thread run in    *)
(* between.  A lock of the code is a guard on the program counters of the  *)
(* threads that can hold it.  Several bridge processes may share one       *)
(* retry database, as the claim columns of the queue provide for.          *)
(***************************************************************************)
EXTENDS Integers, Sequences, FiniteSets

CONSTANTS
  Bridges,        \* bridge processes that open the same retry database
  Msgs,           \* messages the broker has for the subscription
  Payloads,       \* topic and payload bytes, as _payload_hash compares them
  PayloadOf,      \* the payload each message carries
  Malformed,      \* payloads that decode_mqtt_payload refuses
  Mids,           \* MQTT packet identifiers of the broker session
  MidsOf,         \* the packet identifiers the broker may give each message
  MaxDeliveries,  \* bound on delivery ids (the code draws a random token)
  MaxEpoch,       \* bound on session epochs
  MaxFaults,      \* bound on each kind of failure of the environment
  None            \* an absent row, generation, packet, message or connection

Ops       == {"ingest", "quarantine"}
Outcomes  == {"accepted", "quarantined"}
FaultKinds == {"crash", "drop", "session", "suback", "db", "http", "puback", "lease"}
Deliveries == 1 .. MaxDeliveries
Epochs    == 1 .. MaxEpoch
Keys      == Ops \X Deliveries      \* message_key = operation ":" delivery_id

(* The columns that never change once a delivery id is drawn: the packet id, *)
(* the bytes and the session epoch.  The generation, the retry row and the   *)
(* RetryMessage objects in memory all carry copies of them.                  *)
Packet == [mid : Mids, payload : Payloads, epoch : Epochs]
(* A row of mqtt_delivery_generations and a row of mqtt_retry_queue. *)
Gen == [active : BOOLEAN, state : {"active", "terminal", "acked"},
        outcome : Outcomes \cup {""}]
Row == [qos : {0, 1}, completed : BOOLEAN, outcome : Outcomes \cup {""},
        acknowledged : BOOLEAN, attempted : BOOLEAN, awaiting : BOOLEAN,
        claim : Bridges \cup {"", "dead"}]
Publication == [mid : Mids, msg : Msgs, dup : BOOLEAN]

CbPcs == {"idle", "defer", "resume", "forward", "quarantine", "enqueue",
          "terminal", "ack", "acked", "rintent", "rack", "runack", "racked",
          "rdelete", "cterm", "cintent", "cack", "cunack", "cmark", "cdelete",
          "cacked"}
WkPcs == {"idle", "claim", "look", "post", "terminal", "fence", "ack", "send",
          "unsent", "mark", "settle", "delete", "retire", "stale", "unacked", "resched",
          "release"}

ASSUME BridgeAssumption ==
  /\ PayloadOf \in [Msgs -> Payloads]
  /\ Malformed \subseteq Payloads
  /\ MidsOf \in [Msgs -> SUBSET Mids]
  /\ IsFiniteSet(Mids)
  /\ MaxDeliveries \in Nat
  /\ MaxEpoch \in Nat \ {0}
  /\ MaxFaults \in [FaultKinds -> Nat]
  /\ Bridges \cap {"", "dead"} = {}
  /\ None \notin Gen \cup Row \cup Packet \cup Msgs \cup Bridges

VARIABLES
  \* the retry database
  epoch, packet, gens, rows, minted,
  \* broker and network
  session, inflight, wire, ackQ, conn, published, released,
  \* backend
  accepted, quarantined,
  \* memory of each bridge process
  phase, sessEpoch, targets, cb, wk,
  \* bookkeeping of the model
  pubacked, faults

db      == <<epoch, packet, gens, rows, minted>>
broker  == <<session, inflight, wire, ackQ, conn, published, released>>
backend == <<accepted, quarantined>>
memory  == <<phase, sessEpoch, targets, cb, wk>>
vars    == <<db, broker, backend, memory, pubacked, faults>>

Stored == accepted \cup quarantined

-----------------------------------------------------------------------------
(* Initial state: a new database, no connection, idle threads. *)

IdleCb == [pc |-> "idle", d |-> 0, dup |-> FALSE, st |-> "active", out |-> "",
           op |-> "ingest"]
IdleWk == [pc |-> "idle", d |-> 0, op |-> "ingest", done |-> FALSE, out |-> "",
           acked |-> FALSE, sent |-> FALSE]

Init ==
  /\ epoch = 1 /\ minted = 0
  /\ packet = [d \in Deliveries |-> None]
  /\ gens = [d \in Deliveries |-> None]
  /\ rows = [k \in Keys |-> None]
  /\ session = FALSE /\ inflight = [m \in Mids |-> None]
  /\ wire = <<>> /\ ackQ = <<>> /\ conn = None
  /\ published = {} /\ released = {}
  /\ accepted = {} /\ quarantined = {}
  /\ phase = [b \in Bridges |-> "off"]
  /\ sessEpoch = [b \in Bridges |-> 1]
  /\ targets = [b \in Bridges |-> {}]
  /\ cb = [b \in Bridges |-> IdleCb]
  /\ wk = [b \in Bridges |-> IdleWk]
  /\ pubacked = {} /\ faults = [k \in FaultKinds |-> 0]

-----------------------------------------------------------------------------
(* Helpers *)

Fault(k) == /\ faults[k] < MaxFaults[k]
            /\ faults' = [faults EXCEPT ![k] = @ + 1]
NoFault  == UNCHANGED faults

(* Mutated forms, named ..._Mut: what a plausible mistake would make of the  *)
(* definition they stand before.  No specification uses them.                *)

DecodeOp(p) == IF p \in Malformed THEN "quarantine" ELSE "ingest"
OutcomeOp_Mut(out) == "ingest"
OutcomeOp(out) == IF out = "quarantined" THEN "quarantine" ELSE "ingest"
OpOutcome(op)  == IF op = "quarantine" THEN "quarantined" ELSE "accepted"

(* Locks: the part of the callback and of the worker that holds             *)
(* _processing_lock, and the worker's PUBACK under Paho's callback mutex    *)
(* and _session_fence_lock.                                                 *)
CbHoldsProcessing(b) ==
  cb[b].pc \in {"cterm", "cintent", "cack", "cunack", "cmark", "cdelete", "cacked"}
WkHoldsProcessing(b) ==
  wk[b].pc \in {"ack", "send", "unsent", "mark", "settle", "delete", "retire", "stale",
               "unacked"}
WkSending(b) == wk[b].pc \in {"send", "unsent"}
CallbackFree(b) == cb[b].pc = "idle" /\ ~WkSending(b)

(* _inflight_message_keys of process b. *)
Inflight(b) ==
  IF wk[b].pc \in {"idle", "claim", "release"} THEN {}
  ELSE {<<wk[b].op, wk[b].d>>}

(* _run_generation_gc: retired identities that no row refers to. *)
Unreferenced(d, r) == \A op \in Ops : r[<<op, d>>] = None
Prunable(g, r) ==
  {d \in Deliveries : g[d] # None /\ ~g[d].active /\ Unreferenced(d, r)}
Pruned(g, r) ==
  LET gone  == {d \in Prunable(g, r) : g[d].state # "acked"}
      acked == {d \in Prunable(g, r) : g[d].state = "acked"}
  IN  {[d \in Deliveries |-> IF d \in gone \cup old THEN None ELSE g[d]] :
         old \in SUBSET acked}
(* _prune_delivery_generations runs only when its period has elapsed. *)
MaybePruned(g, r) == {g} \cup Pruned(g, r)

(* _set_delivery_state: an acked generation never becomes terminal again. *)
WithState(g, d, s, out) ==
  [g EXCEPT ![d].state = IF @ = "acked" /\ s = "terminal" THEN @ ELSE s,
            ![d].outcome = out]
SetState(d, s, out) ==
  /\ gens[d] # None
  /\ gens' \in MaybePruned(WithState(gens, d, s, out), rows)
  /\ UNCHANGED <<epoch, packet, rows, minted>>

(* The transaction of an UPDATE or DELETE on both rows of a delivery. *)
WithAttempt(r, d, attempted) ==
  [k \in Keys |-> IF k[2] = d /\ r[k] # None
                  THEN [r[k] EXCEPT !.attempted = attempted] ELSE r[k]]
WithoutRows(r, S) == [k \in Keys |-> IF k \in S THEN None ELSE r[k]]

(* client.ack: the packet reaches the broker only on b's live connection. *)
SendAck(b, d) ==
  /\ pubacked' = pubacked \cup {d}
  /\ ackQ' = IF conn = b THEN Append(ackQ, packet[d].mid) ELSE ackQ
  /\ UNCHANGED <<session, inflight, wire, conn, published, released>>
NoAck == UNCHANGED <<pubacked, broker>>

(* POST to the ingest endpoint.  The backend accepts the payload, or        *)
(* refuses it for good and keeps it in its own quarantine; a retryable      *)
(* error or a lost answer leaves the bridge not knowing which happened.     *)
Forward(p, result) ==
  \/ /\ result = "accepted" /\ accepted' = accepted \cup {p}
     /\ UNCHANGED quarantined /\ NoFault
  \/ /\ result = "quarantined" /\ quarantined' = quarantined \cup {p}
     /\ UNCHANGED accepted /\ NoFault
  \/ /\ result = "retry" /\ Fault("http")
     /\ accepted' \in {accepted, accepted \cup {p}}
     /\ UNCHANGED quarantined
(* POST to the quarantine endpoint, idempotent in the row's message_key. *)
PostQuarantine(p, result) ==
  \/ /\ result = "quarantined" /\ quarantined' = quarantined \cup {p}
     /\ UNCHANGED accepted /\ NoFault
  \/ /\ result = "retry" /\ Fault("http")
     /\ quarantined' \in {quarantined, quarantined \cup {p}}
     /\ UNCHANGED accepted

-----------------------------------------------------------------------------
(* The broker and the network (external) *)

Resend(b) ==  \* unacknowledged messages are sent again, marked DUP
  LET mids == {m \in Mids : inflight[m] # None}
      Orders == {s \in [1 .. Cardinality(mids) -> mids] :
                   \A i, j \in DOMAIN s : s[i] = s[j] => i = j}
  IN  {[i \in DOMAIN s |-> [mid |-> s[i], msg |-> inflight[s[i]], dup |-> TRUE]] :
         s \in Orders}

Publish(m) ==
  /\ conn # None /\ session /\ m \notin published
  /\ \E mid \in MidsOf[m] :
       /\ inflight[mid] = None
       /\ inflight' = [inflight EXCEPT ![mid] = m]
       /\ wire' = Append(wire, [mid |-> mid, msg |-> m, dup |-> FALSE])
  /\ published' = published \cup {m}
  /\ UNCHANGED <<db, session, ackQ, conn, released, backend, memory, pubacked, faults>>

ReceivePuback ==
  /\ ackQ # <<>>
  /\ ackQ' = Tail(ackQ)
  /\ released' = released \cup ({inflight[Head(ackQ)]} \ {None})
  /\ inflight' = [inflight EXCEPT ![Head(ackQ)] = None]
  /\ UNCHANGED <<db, session, wire, conn, published, backend, memory, pubacked, faults>>

DropConnection ==
  /\ conn # None /\ Fault("drop")
  /\ conn' = None /\ wire' = <<>> /\ ackQ' = <<>>
  /\ UNCHANGED <<db, session, inflight, published, released, backend, memory, pubacked>>

LoseSession ==
  /\ conn = None /\ session /\ Fault("session")
  /\ session' = FALSE /\ inflight' = [m \in Mids |-> None]
  /\ UNCHANGED <<db, wire, ackQ, conn, published, released, backend, memory, pubacked>>

-----------------------------------------------------------------------------
(* Session callbacks *)

(* begin_session: with a new broker session every packet id of the old one *)
(* is void, so finished rows are dropped and unfinished rows lose the      *)
(* PUBACK they were waiting to send.                                       *)
BeginSession(b, present) ==
  LET fresh == epoch + 1
      stale(r) == [k \in Keys |->
                     IF r[k] = None THEN None
                     ELSE IF r[k].completed THEN None
                     ELSE [r[k] EXCEPT !.qos = 0]]
      retired == [d \in Deliveries |->
                    IF gens[d] = None THEN None ELSE [gens[d] EXCEPT !.active = FALSE]]
  IN  IF present
      THEN /\ gens' \in Pruned(gens, rows)
           /\ sessEpoch' = [sessEpoch EXCEPT ![b] = epoch]
           /\ targets' = [targets EXCEPT ![b] = {}]
           /\ UNCHANGED <<epoch, packet, rows, minted>>
      ELSE /\ fresh \in Epochs
           /\ epoch' = fresh
           /\ rows' = stale(rows)
           /\ gens' \in Pruned(retired, stale(rows))
           /\ sessEpoch' = [sessEpoch EXCEPT ![b] = fresh]
           /\ targets' = [targets EXCEPT ![b] = {}]
           /\ UNCHANGED <<packet, minted>>

(* on_connect: pause_session, then begin_session for the broker's answer; a *)
(* SQLite error leaves the activation to a timer.  A second process with    *)
(* the same client id connects after the broker dropped the first.          *)
OnConnect(b) ==
  /\ CallbackFree(b) /\ conn = None /\ phase[b] = "off"
  /\ conn' = b /\ session' = TRUE /\ ackQ' = <<>>
  /\ wire' \in IF session THEN Resend(b) ELSE {<<>>}
  /\ \/ /\ BeginSession(b, session)
        /\ phase' = [phase EXCEPT ![b] = "pending"]
        /\ NoFault
     \/ /\ Fault("db")
        /\ phase' = [phase EXCEPT ![b] = IF session THEN "retryPresent" ELSE "retryClean"]
        /\ targets' = [targets EXCEPT ![b] = {}]
        /\ UNCHANGED <<db, sessEpoch>>
  /\ UNCHANGED <<inflight, published, released, backend, cb, wk, pubacked>>

(* The timer's activate_session, which holds only _session_fence_lock. *)
RetryActivation(b) ==
  /\ phase[b] \in {"retryPresent", "retryClean"} /\ ~WkSending(b)
  /\ BeginSession(b, phase[b] = "retryPresent")
  /\ phase' = [phase EXCEPT ![b] = "pending"]
  /\ UNCHANGED <<broker, backend, cb, wk, pubacked, faults>>

BufferLockFree(b) == cb[b].pc # "defer"
Ungated(r) ==
  [k \in Keys |-> IF r[k] = None THEN None ELSE [r[k] EXCEPT !.awaiting = FALSE]]

(* A granted SUBACK: resume_session, under _subscription_buffer_lock.  It   *)
(* fails, and is retried, when another process began a newer epoch.         *)
ResumeSession(b) ==
  /\ phase[b] = "pending" /\ conn = b /\ BufferLockFree(b)
  /\ sessEpoch[b] = epoch
  /\ rows' = Ungated(rows)
  /\ phase' = [phase EXCEPT ![b] = "ready"]
  /\ UNCHANGED <<epoch, packet, gens, minted, broker, backend, sessEpoch, targets, cb, wk,
                 pubacked, faults>>

(* A refused or downgraded SUBACK pauses the queue until the next connect. *)
SubackRefused(b) ==
  /\ phase[b] = "pending" /\ conn = b /\ BufferLockFree(b)
  /\ Fault("suback")
  /\ phase' = [phase EXCEPT ![b] = "off"]
  /\ targets' = [targets EXCEPT ![b] = {}]
  /\ UNCHANGED <<db, broker, backend, sessEpoch, cb, wk, pubacked>>

(* on_disconnect: pause_session forgets every PUBACK target. *)
OnDisconnect(b) ==
  /\ CallbackFree(b) /\ conn # b /\ phase[b] # "off"
  /\ phase' = [phase EXCEPT ![b] = "off"]
  /\ targets' = [targets EXCEPT ![b] = {}]
  /\ UNCHANGED <<db, broker, backend, sessEpoch, cb, wk, pubacked, faults>>

(* The process stops and starts again: only the database survives, and the  *)
(* new process has a new claim owner.                                       *)
Crash(b) ==
  /\ Fault("crash")
  /\ phase' = [phase EXCEPT ![b] = "off"]
  /\ sessEpoch' = [sessEpoch EXCEPT ![b] = epoch]
  /\ targets' = [targets EXCEPT ![b] = {}]
  /\ cb' = [cb EXCEPT ![b] = IdleCb]
  /\ wk' = [wk EXCEPT ![b] = IdleWk]
  /\ rows' = [k \in Keys |-> IF rows[k] # None /\ rows[k].claim = b
                             THEN [rows[k] EXCEPT !.claim = "dead"] ELSE rows[k]]
  /\ IF conn = b THEN conn' = None /\ wire' = <<>> /\ ackQ' = <<>>
                 ELSE UNCHANGED <<conn, wire, ackQ>>
  /\ UNCHANGED <<epoch, packet, gens, minted, session, inflight, published, released,
                 backend, pubacked>>

-----------------------------------------------------------------------------
(* Callback thread: on_message, process_mqtt_message *)

CbAt(b, pc) == cb[b].pc = pc
CbGoto(b, pc) == cb' = [cb EXCEPT ![b].pc = pc]
CbDone(b) == cb' = [cb EXCEPT ![b] = IdleCb]
CbKey(b) == <<cb[b].op, cb[b].d>>
CbPayload(b) == packet[cb[b].d].payload

(* prepare_delivery: a DUP packet with the same identity and bytes resumes  *)
(* its generation; any other packet retires the identity that held its mid. *)
Superseded_Mut(b, p) ==
  {d \in Deliveries :
     /\ gens[d] # None /\ gens[d].active /\ packet[d].payload = PayloadOf[p.msg]
     /\ packet[d].epoch = sessEpoch[b] /\ packet[d].mid = p.mid}
Superseded(b, p) ==
  {d \in Deliveries :
     /\ gens[d] # None /\ gens[d].active
     /\ packet[d].epoch = sessEpoch[b] /\ packet[d].mid = p.mid}
Same(b, p) ==
  {d \in Superseded(b, p) : p.dup /\ packet[d].payload = PayloadOf[p.msg]}

MintDelivery(b, p, d) ==
  LET old == Superseded(b, p)
      retired == [e \in Deliveries |->
                    IF e \in old THEN [gens[e] EXCEPT !.active = FALSE]
                    ELSE IF e = d
                         THEN [active |-> TRUE, state |-> "active", outcome |-> ""]
                         ELSE gens[e]]
  IN  /\ minted' = d
      /\ packet' = [packet EXCEPT ![d] =
                      [mid |-> p.mid, payload |-> PayloadOf[p.msg], epoch |-> sessEpoch[b]]]
      /\ rows' = [k \in Keys |-> IF k[2] \in old /\ rows[k] # None
                                 THEN [rows[k] EXCEPT !.qos = 0] ELSE rows[k]]
      /\ gens' \in MaybePruned(retired, rows')
      /\ targets' = [targets EXCEPT ![b] = @ \ (Ops \X old)]
      /\ UNCHANGED epoch

(* defer_unapproved_message gates a packet that comes before the SUBACK.    *)
NextPc_Mut(b, dup) ==
  IF phase[b] = "pending" THEN "defer" ELSE IF dup THEN "rintent" ELSE "forward"
NextPc(b, dup) ==
  IF phase[b] = "pending" THEN "defer" ELSE IF dup THEN "resume" ELSE "forward"

OnMessage(b) ==
  LET p == Head(wire) IN
  /\ conn = b /\ wire # <<>> /\ CallbackFree(b)
  /\ phase[b] \in {"pending", "ready"} /\ ~WkHoldsProcessing(b)
  /\ wire' = Tail(wire)
  /\ IF Same(b, p) # {}
     THEN \E d \in Same(b, p) :
            /\ \A e \in Same(b, p) : e <= d
            /\ cb' = [cb EXCEPT ![b] =
                        [pc |-> NextPc(b, TRUE), d |-> d, dup |-> TRUE,
                         st |-> gens[d].state, out |-> gens[d].outcome,
                         op |-> OutcomeOp(gens[d].outcome)]]
            /\ UNCHANGED <<db, targets>>
     ELSE /\ minted + 1 \in Deliveries
          /\ MintDelivery(b, p, minted + 1)
          /\ cb' = [cb EXCEPT ![b] =
                      [IdleCb EXCEPT !.pc = NextPc(b, p.dup), !.d = minted + 1,
                                     !.dup = p.dup]]
  /\ UNCHANGED <<session, inflight, ackQ, conn, published, released, backend,
                 phase, sessEpoch, wk, pubacked, faults>>

(* A packet that finds no prepared session, or a busy database, is neither  *)
(* stored nor acknowledged: the broker sends it again on the next connect.  *)
IgnoreMessage(b) ==
  /\ conn = b /\ wire # <<>> /\ CallbackFree(b)
  /\ IF phase[b] \in {"pending", "ready"} THEN Fault("db") ELSE NoFault
  /\ wire' = Tail(wire)
  /\ UNCHANGED <<db, session, inflight, ackQ, conn, published, released, backend,
                 memory, pubacked>>

(* enqueue: insert the retry row, or merge a DUP into the row it finds. *)
MergedOutcome(row, out) == IF row.completed THEN row.outcome ELSE out

Enqueued(b, op, completed, awaiting) ==
  LET d == cb[b].d
      key == <<op, d>>
      out == IF completed THEN OpOutcome(op) ELSE ""
      new == [qos |-> 1, completed |-> completed, outcome |-> out,
              acknowledged |-> FALSE, attempted |-> FALSE, awaiting |-> awaiting, claim |-> ""]
      merged == [rows[key] EXCEPT
                   !.qos = 1,
                   !.completed = @ \/ completed,
                   !.outcome = MergedOutcome(rows[key], out),
                   !.awaiting = @ \/ awaiting]
  IN  [rows EXCEPT ![key] = IF @ # None /\ cb[b].dup THEN merged ELSE new]

WithTarget_Mut(b, key) == targets
WithTarget(b, key) == [targets EXCEPT ![b] = @ \cup {key}]

Enqueue(b, op, completed, awaiting) ==
  LET key == <<op, cb[b].d>> IN
  \/ /\ completed => gens[cb[b].d] # None
     /\ rows' = Enqueued(b, op, completed, awaiting)
     /\ gens' \in IF completed
                  THEN MaybePruned(WithState(gens, cb[b].d, "terminal", OpOutcome(op)), rows)
                  ELSE {gens}
     /\ targets' = WithTarget(b, key)
     /\ NoFault
     /\ UNCHANGED <<epoch, packet, minted>>
  \/ /\ IF completed /\ gens[cb[b].d] = None THEN NoFault ELSE Fault("db")
     /\ targets' = [targets EXCEPT ![b] = @ \ {key}]
     /\ UNCHANGED db

CbFault(b) ==  \* a SQLite error that ends the callback with "retry"
  Fault("db") /\ CbDone(b) /\ UNCHANGED <<db, targets>>

(* Whether the packet in hand was already delivered. *)
Delivered_Mut(b) == TRUE
Delivered(b) == IF CbAt(b, "defer") THEN cb[b].st # "active" ELSE cb[b].out # ""

DeferUnapproved(b) ==
  LET completed == Delivered(b)
      op == IF completed THEN OutcomeOp(cb[b].out) ELSE DecodeOp(CbPayload(b))
  IN  /\ CbAt(b, "defer")
      /\ Enqueue(b, op, completed, TRUE)
      /\ CbDone(b)
      /\ UNCHANGED <<broker, backend, phase, sessEpoch, wk, pubacked>>

(* resume_pending_message for a DUP: a generation that is already terminal  *)
(* is only acknowledged; a waiting row gets a new PUBACK target.            *)
ResumeTerminal(b) ==
  /\ CbAt(b, "resume") /\ cb[b].st # "active"
  /\ cb' = [cb EXCEPT ![b].pc = "rintent"]
  /\ UNCHANGED <<db, broker, backend, phase, sessEpoch, targets, wk, pubacked, faults>>

ResumeRow(b) ==
  LET d == cb[b].d
      found == {op \in Ops : rows[<<op, d>>] # None}
      done  == {op \in found : rows[<<op, d>>].completed}
  IN
  /\ CbAt(b, "resume") /\ cb[b].st = "active" /\ ~WkHoldsProcessing(b)
  /\ \/ /\ found = {} /\ NoFault
        /\ CbGoto(b, "forward")
        /\ UNCHANGED <<db, targets>>
     \/ /\ \E op \in IF done # {} THEN done ELSE found :
             LET key == <<op, d>> IN
             /\ rows' = [rows EXCEPT ![key].qos = 1]
             /\ targets' = WithTarget(b, key)
             /\ cb' = IF op \in done /\ key \notin Inflight(b)
                      THEN [cb EXCEPT ![b].pc = "cterm", ![b].op = op,
                                      ![b].out = rows[key].outcome,
                                      ![b].st = IF rows[key].acknowledged
                                                THEN "acked" ELSE "terminal"]
                      ELSE [cb EXCEPT ![b] = IdleCb]
        /\ NoFault
        /\ UNCHANGED <<epoch, packet, gens, minted>>
     \/ CbFault(b)
  /\ UNCHANGED <<broker, backend, phase, sessEpoch, wk, pubacked>>

(* The PUBACK of a DUP: intent first, then the packet, then the record.     *)
MarkAttempted(b, attempted) ==
  /\ rows' = WithAttempt(rows, cb[b].d, attempted)
  /\ UNCHANGED <<epoch, packet, gens, minted>>

ResumeIntent(b) ==
  /\ cb[b].pc \in {"rintent", "cintent"}
  /\ \/ /\ MarkAttempted(b, TRUE) /\ NoFault
        /\ CbGoto(b, IF CbAt(b, "rintent") THEN "rack" ELSE "cack")
        /\ UNCHANGED targets
     \/ CbFault(b)
  /\ UNCHANGED <<broker, backend, phase, sessEpoch, wk, pubacked>>

ResumeAck(b) ==
  /\ CbAt(b, "rack")
  /\ \/ /\ SendAck(b, cb[b].d) /\ NoFault
        /\ CbGoto(b, "racked")
        /\ UNCHANGED db
     \/ NoAck /\ Fault("puback") /\ CbGoto(b, "runack") /\ UNCHANGED db
  /\ UNCHANGED <<backend, phase, sessEpoch, targets, wk>>

ResumeUnack(b) ==  \* a definite failure to send is not an uncertain PUBACK
  /\ CbAt(b, "runack")
  /\ \/ MarkAttempted(b, FALSE) /\ NoFault
     \/ Fault("db") /\ UNCHANGED db
  /\ cb' = [cb EXCEPT ![b].pc = "enqueue", ![b].op = OutcomeOp(cb[b].out)]
  /\ UNCHANGED <<broker, backend, phase, sessEpoch, targets, wk, pubacked>>

ResumeAcked(b) ==
  /\ CbAt(b, "racked")
  /\ \/ SetState(cb[b].d, "acked", cb[b].out) /\ CbGoto(b, "rdelete") /\ NoFault
     \/ gens[cb[b].d] = None /\ CbDone(b) /\ NoFault /\ UNCHANGED db
     \/ Fault("db") /\ CbDone(b) /\ UNCHANGED db
  /\ UNCHANGED <<broker, backend, phase, sessEpoch, targets, wk, pubacked>>

ResumeDelete(b) ==
  /\ CbAt(b, "rdelete")
  /\ \/ /\ rows' = WithoutRows(rows, Ops \X {cb[b].d})
        /\ gens' \in MaybePruned(gens, rows') /\ NoFault
        /\ UNCHANGED <<epoch, packet, minted>>
     \/ Fault("db") /\ UNCHANGED db
  /\ CbDone(b)
  /\ UNCHANGED <<broker, backend, phase, sessEpoch, targets, wk, pubacked>>

(* _complete: the row the DUP found is already delivered.                   *)
CompleteTerminal(b) ==
  /\ CbAt(b, "cterm")
  /\ \/ /\ SetState(cb[b].d, "terminal", cb[b].out) /\ NoFault
        /\ CbGoto(b, IF cb[b].st = "acked" THEN "cdelete" ELSE "cintent")
     \/ gens[cb[b].d] = None /\ CbDone(b) /\ NoFault /\ UNCHANGED db
     \/ Fault("db") /\ CbDone(b) /\ UNCHANGED db
  /\ UNCHANGED <<broker, backend, phase, sessEpoch, targets, wk, pubacked>>

CompleteAck(b) ==
  /\ CbAt(b, "cack")
  /\ \/ /\ SendAck(b, cb[b].d) /\ NoFault
        /\ CbGoto(b, "cmark")
        /\ UNCHANGED db
     \/ NoAck /\ Fault("puback") /\ CbGoto(b, "cunack") /\ UNCHANGED db
  /\ UNCHANGED <<backend, phase, sessEpoch, targets, wk>>

CompleteUnack(b) ==  \* clear the intent and _reschedule
  /\ CbAt(b, "cunack")
  /\ \/ /\ rows' = [WithAttempt(rows, cb[b].d, FALSE)
                      EXCEPT ![CbKey(b)] = IF @ = None THEN None ELSE [@ EXCEPT !.claim = ""]]
        /\ CbDone(b) /\ NoFault
        /\ UNCHANGED <<epoch, packet, gens, minted, targets>>
     \/ CbFault(b)
  /\ UNCHANGED <<broker, backend, phase, sessEpoch, wk, pubacked>>

CompleteMark(b) ==
  /\ CbAt(b, "cmark")
  /\ \/ /\ rows' = [rows EXCEPT ![CbKey(b)] =
                      IF @ = None THEN None ELSE [@ EXCEPT !.acknowledged = TRUE]]
        /\ CbGoto(b, "cdelete") /\ NoFault
        /\ UNCHANGED <<epoch, packet, gens, minted>>
     \/ Fault("db") /\ CbDone(b) /\ UNCHANGED db
  /\ UNCHANGED <<broker, backend, phase, sessEpoch, targets, wk, pubacked>>

CompleteDelete(b) ==
  /\ CbAt(b, "cdelete")
  /\ \/ /\ rows' = WithoutRows(rows, {CbKey(b)}) /\ NoFault
        /\ UNCHANGED <<epoch, packet, gens, minted>>
     \/ Fault("db") /\ UNCHANGED db
  /\ targets' = IF cb[b].st = "acked" THEN targets
                ELSE [targets EXCEPT ![b] = @ \ {CbKey(b)}]
  /\ CbGoto(b, "cacked")
  /\ UNCHANGED <<broker, backend, phase, sessEpoch, wk, pubacked>>

(* forward_mqtt_message on the callback thread. *)
LiveForward(b) ==
  /\ CbAt(b, "forward")
  /\ IF CbPayload(b) \in Malformed
     THEN CbGoto(b, "quarantine") /\ NoFault /\ UNCHANGED backend
     ELSE \E result \in Outcomes \cup {"retry"} :
            /\ Forward(CbPayload(b), result)
            /\ cb' = IF result = "retry"
                     THEN [cb EXCEPT ![b].pc = "enqueue", ![b].op = "ingest", ![b].out = ""]
                     ELSE [cb EXCEPT ![b].pc = "terminal", ![b].op = OutcomeOp(result),
                                     ![b].out = result]
  /\ UNCHANGED <<db, broker, phase, sessEpoch, targets, wk, pubacked>>

LiveQuarantine(b) ==
  /\ CbAt(b, "quarantine")
  /\ \E result \in {"quarantined", "retry"} :
       /\ PostQuarantine(CbPayload(b), result)
       /\ cb' = [cb EXCEPT ![b].pc = IF result = "retry" THEN "enqueue" ELSE "terminal",
                           ![b].op = "quarantine",
                           ![b].out = IF result = "retry" THEN "" ELSE result]
  /\ UNCHANGED <<db, broker, phase, sessEpoch, targets, wk, pubacked>>

(* complete_live_message: the generation is terminal on disk before the     *)
(* PUBACK leaves; a PUBACK that cannot be sent is left to the worker.       *)
LiveTerminal(b) ==
  /\ CbAt(b, "terminal")
  /\ \/ SetState(cb[b].d, "terminal", cb[b].out) /\ CbGoto(b, "ack") /\ NoFault
     \/ gens[cb[b].d] = None /\ CbDone(b) /\ NoFault /\ UNCHANGED db
     \/ Fault("db") /\ CbDone(b) /\ UNCHANGED db
  /\ UNCHANGED <<broker, backend, phase, sessEpoch, targets, wk, pubacked>>

LiveAck(b) ==
  /\ CbAt(b, "ack")
  /\ \/ SendAck(b, cb[b].d) /\ NoFault /\ CbGoto(b, "acked")
     \/ NoAck /\ Fault("puback") /\ CbGoto(b, "enqueue")
  /\ UNCHANGED <<db, backend, phase, sessEpoch, targets, wk>>

(* The last record of the live path and of _complete; an error is logged. *)
LiveAcked(b) ==
  /\ cb[b].pc \in {"acked", "cacked"}
  /\ \/ SetState(cb[b].d, "acked", cb[b].out) /\ NoFault
     \/ gens[cb[b].d] = None /\ NoFault /\ UNCHANGED db
     \/ Fault("db") /\ UNCHANGED db
  /\ CbDone(b)
  /\ UNCHANGED <<broker, backend, phase, sessEpoch, targets, wk, pubacked>>

LiveEnqueue(b) ==
  /\ CbAt(b, "enqueue")
  /\ Enqueue(b, cb[b].op, Delivered(b), FALSE)
  /\ CbDone(b)
  /\ UNCHANGED <<broker, backend, phase, sessEpoch, wk, pubacked>>

-----------------------------------------------------------------------------
(* Worker thread: process_due_once *)

WkAt(b, pc) == wk[b].pc = pc
WkGoto(b, pc) == wk' = [wk EXCEPT ![b].pc = pc]
WkKey(b) == <<wk[b].op, wk[b].d>>
WkPayload(b) == packet[wk[b].d].payload
(* Every conditional UPDATE and DELETE of the worker names its claim.  A    *)
(* process has one worker, so owner and token together say what owner says. *)
Owns(b) == rows[WkKey(b)] # None /\ rows[WkKey(b)].claim = b

PollDue(b) ==
  /\ WkAt(b, "idle") /\ phase[b] = "ready"
  /\ WkGoto(b, "claim")
  /\ UNCHANGED <<db, broker, backend, phase, sessEpoch, targets, cb, pubacked, faults>>

(* _claim_next_due: next_attempt_at only delays a row, so any ungated row   *)
(* whose lease is free may be next.  The lease of a stopped process, or one *)
(* left behind by a failed release, runs out; that of a working process is  *)
(* renewed by _keep_claim_alive unless the renewals fail.                   *)
LeaseFree(b, k) ==
  \/ rows[k].claim \in {"", "dead"} \/ rows[k].claim = b
  \/ rows[k].claim \in Bridges /\ k \notin Inflight(rows[k].claim)

ClaimRow(b, k) ==
  /\ WkAt(b, "claim") /\ ~CbHoldsProcessing(b)
  /\ rows[k] # None /\ ~rows[k].awaiting
  /\ IF LeaseFree(b, k) THEN NoFault ELSE Fault("lease")
  /\ rows' = [rows EXCEPT ![k].claim = b]
  /\ wk' = [wk EXCEPT ![b] = [IdleWk EXCEPT !.pc = "look", !.op = k[1], !.d = k[2],
                                            !.done = rows[k].completed,
                                            !.out = rows[k].outcome]]
  /\ UNCHANGED <<epoch, packet, gens, minted, broker, backend, phase, sessEpoch, targets,
                 cb, pubacked>>

ClaimNothing(b) ==
  /\ WkAt(b, "claim") /\ ~CbHoldsProcessing(b)
  /\ \/ (\A k \in Keys : rows[k] # None => rows[k].awaiting) /\ NoFault
     \/ Fault("db")
  /\ WkGoto(b, "idle")
  /\ UNCHANGED <<db, broker, backend, phase, sessEpoch, targets, cb, pubacked>>

(* A generation or a row that is already terminal is not posted again. *)
Settled_Mut(g) == FALSE
Settled(g) == g # None /\ g.state # "active"

LookUp(b) ==
  LET g == gens[wk[b].d] IN
  /\ WkAt(b, "look")
  /\ \/ /\ NoFault
        /\ wk' = IF Settled(g)
                 THEN [wk EXCEPT ![b].pc = "terminal", ![b].out = g.outcome]
                 ELSE [wk EXCEPT ![b].pc = IF wk[b].done THEN "terminal" ELSE "post"]
     \/ Fault("db") /\ WkGoto(b, "release")
  /\ UNCHANGED <<db, broker, backend, phase, sessEpoch, targets, cb, pubacked>>

RetryPost(b) ==
  /\ WkAt(b, "post")
  /\ \E result \in Outcomes \cup {"retry"} :
       /\ IF wk[b].op = "quarantine"
          THEN result # "accepted" /\ PostQuarantine(WkPayload(b), result)
          ELSE IF WkPayload(b) \in Malformed
          THEN result = "quarantined" /\ NoFault /\ UNCHANGED backend
          ELSE Forward(WkPayload(b), result)
       /\ wk' = IF result = "retry" THEN [wk EXCEPT ![b].pc = "resched"]
                ELSE [wk EXCEPT ![b].pc = "terminal", ![b].out = result]
  /\ UNCHANGED <<db, broker, phase, sessEpoch, targets, cb, pubacked>>

(* _complete_claimed records the outcome before it takes _processing_lock. *)
RetryTerminal(b) ==
  /\ WkAt(b, "terminal")
  /\ \/ /\ SetState(wk[b].d, "terminal", wk[b].out) /\ NoFault
        /\ wk' = [wk EXCEPT ![b].pc = "fence", ![b].acked = gens[wk[b].d].state = "acked"]
     \/ gens[wk[b].d] = None /\ WkGoto(b, "release") /\ NoFault /\ UNCHANGED db
     \/ Fault("db") /\ WkGoto(b, "release") /\ UNCHANGED db
  /\ UNCHANGED <<broker, backend, phase, sessEpoch, targets, cb, pubacked>>

(* The row is fenced by its claim, and what is left to do depends on it and *)
(* on the PUBACK target: a QoS 1 row without one waits for a redelivery,    *)
(* unless a PUBACK may already have gone out.                               *)
AwaitsTarget_Mut(b, row) == row.qos > 0
AwaitsTarget(b, row) == row.qos > 0 /\ ~wk[b].acked /\ ~row.attempted

FenceRow(b) ==
  LET row == rows[WkKey(b)]
      done == [rows EXCEPT ![WkKey(b)].completed = TRUE,
                           ![WkKey(b)].outcome = wk[b].out]
      target == WkKey(b) \in targets[b]
  IN
  /\ WkAt(b, "fence") /\ ~CbHoldsProcessing(b)
  /\ \/ ~Owns(b) /\ WkGoto(b, "release") /\ NoFault /\ UNCHANGED db
     \/ /\ Owns(b) /\ NoFault
        /\ IF ~row.acknowledged /\ ~target /\ AwaitsTarget(b, row)
           THEN /\ rows' = [done EXCEPT ![WkKey(b)].claim = ""]
                /\ WkGoto(b, "release")
           ELSE /\ rows' = done
                /\ WkGoto(b, IF row.acknowledged THEN "settle"
                             ELSE IF target THEN "ack" ELSE "retire")
        /\ UNCHANGED <<epoch, packet, gens, minted>>
     \/ Fault("db") /\ WkGoto(b, "release") /\ UNCHANGED db
  /\ UNCHANGED <<broker, backend, phase, sessEpoch, targets, cb, pubacked>>

(* _try_ack_claimed_target: never while a callback runs, or waits in        *)
(* prepare_delivery for the lock the worker holds; a delivery whose         *)
(* identity is void is not acknowledged; the intent is durable first.       *)
CallbackMutexTaken(b) == cb[b].pc # "idle" \/ (conn = b /\ wire # <<>>)
Current(b) ==
  LET d == wk[b].d IN
  packet[d].epoch = sessEpoch[b] /\ gens[d] # None /\ gens[d].active

AckIntent(b) ==
  /\ WkAt(b, "ack")
  /\ \/ /\ CallbackMutexTaken(b) /\ NoFault
        /\ WkGoto(b, "unacked") /\ UNCHANGED db
     \/ /\ cb[b].pc = "idle" /\ ~Current(b) /\ NoFault
        /\ WkGoto(b, "stale") /\ UNCHANGED db
     \/ /\ cb[b].pc = "idle" /\ Current(b) /\ NoFault
        /\ IF phase[b] = "ready" /\ Owns(b)
           THEN /\ rows' = [rows EXCEPT ![WkKey(b)].attempted = TRUE]
                /\ WkGoto(b, "send")
                /\ UNCHANGED <<epoch, packet, gens, minted>>
           ELSE WkGoto(b, "unacked") /\ UNCHANGED db
     \/ Fault("db") /\ WkGoto(b, "release") /\ UNCHANGED db
  /\ UNCHANGED <<broker, backend, phase, sessEpoch, targets, cb, pubacked>>

RetryAck(b) ==
  /\ WkAt(b, "send")
  /\ \/ /\ SendAck(b, wk[b].d) /\ NoFault
        /\ wk' = [wk EXCEPT ![b].pc = "mark", ![b].sent = TRUE]
     \/ NoAck /\ Fault("puback") /\ WkGoto(b, "unsent")
  /\ UNCHANGED <<db, backend, phase, sessEpoch, targets, cb>>

RetryUnack(b) ==
  /\ WkAt(b, "unsent")
  /\ \/ /\ rows' = IF Owns(b) THEN [rows EXCEPT ![WkKey(b)].attempted = FALSE] ELSE rows
        /\ WkGoto(b, "unacked") /\ NoFault
     \/ Fault("db") /\ WkGoto(b, "release") /\ UNCHANGED rows
  /\ UNCHANGED <<epoch, packet, gens, minted, broker, backend, phase, sessEpoch, targets, cb,
                 pubacked>>

MarkAcknowledged(b) ==
  /\ WkAt(b, "mark")
  /\ \/ /\ NoFault
        /\ rows' = [rows EXCEPT ![WkKey(b)] =
                      IF @ = None THEN None ELSE [@ EXCEPT !.acknowledged = TRUE]]
        /\ UNCHANGED <<epoch, packet, gens, minted>>
     \/ Fault("db") /\ UNCHANGED db
  /\ WkGoto(b, "settle")
  /\ targets' = [targets EXCEPT ![b] = @ \ {WkKey(b)}]
  /\ UNCHANGED <<broker, backend, phase, sessEpoch, cb, pubacked>>

(* Record "acked"; when that fails after a PUBACK the row stays to record   *)
(* it later.                                                                *)
SettleAcked(b) ==
  /\ WkAt(b, "settle")
  /\ \/ SetState(wk[b].d, "acked", wk[b].out) /\ WkGoto(b, "delete") /\ NoFault
     \/ /\ UNCHANGED db
        /\ IF gens[wk[b].d] = None THEN NoFault ELSE Fault("db")
        /\ WkGoto(b, IF wk[b].sent THEN "release" ELSE "delete")
  /\ UNCHANGED <<broker, backend, phase, sessEpoch, targets, cb, pubacked>>

DeleteRow(b) ==
  /\ wk[b].pc \in {"delete", "retire", "stale"}
  /\ \/ /\ rows' = IF Owns(b) THEN WithoutRows(rows, {WkKey(b)}) ELSE rows
        /\ gens' \in MaybePruned(gens, rows') /\ NoFault
        /\ UNCHANGED <<epoch, packet, minted>>
        /\ targets' = IF WkAt(b, "stale") \/ (WkAt(b, "delete") /\ Owns(b))
                      THEN [targets EXCEPT ![b] = @ \ {WkKey(b)}] ELSE targets
     \/ Fault("db") /\ UNCHANGED <<db, targets>>
  /\ WkGoto(b, "release")
  /\ UNCHANGED <<broker, backend, phase, sessEpoch, cb, pubacked>>

(* _reschedule_claimed, and the rescheduling after a PUBACK that was not    *)
(* sent: the claim is given up with a later next_attempt_at.                *)
Unclaimed(b) == IF Owns(b) THEN [rows EXCEPT ![WkKey(b)].claim = ""] ELSE rows

RescheduleClaimed(b) ==
  /\ wk[b].pc \in {"resched", "unacked"} /\ ~CbHoldsProcessing(b)
  /\ \/ rows' = Unclaimed(b) /\ NoFault
     \/ Fault("db") /\ UNCHANGED rows
  /\ WkGoto(b, "release")
  /\ UNCHANGED <<epoch, packet, gens, minted, broker, backend, phase, sessEpoch, targets, cb,
                 pubacked>>

ReleaseClaim(b) ==
  /\ WkAt(b, "release") /\ ~CbHoldsProcessing(b)
  /\ \/ rows' = Unclaimed(b) /\ NoFault
     \/ Fault("db") /\ UNCHANGED rows
  /\ wk' = [wk EXCEPT ![b] = IdleWk]
  /\ UNCHANGED <<epoch, packet, gens, minted, broker, backend, phase, sessEpoch, targets, cb,
                 pubacked>>

-----------------------------------------------------------------------------
(* Next-state relation *)

Environment ==
  \/ \E m \in Msgs : Publish(m)
  \/ ReceivePuback \/ DropConnection \/ LoseSession
  \/ \E b \in Bridges : Crash(b) \/ SubackRefused(b)

SessionStep(b) ==
  OnConnect(b) \/ RetryActivation(b) \/ ResumeSession(b) \/ OnDisconnect(b)

CallbackStep(b) ==
  \/ OnMessage(b) \/ DeferUnapproved(b)
  \/ ResumeTerminal(b) \/ ResumeRow(b) \/ ResumeIntent(b) \/ ResumeAck(b)
  \/ ResumeUnack(b) \/ ResumeAcked(b) \/ ResumeDelete(b)
  \/ CompleteTerminal(b) \/ CompleteAck(b) \/ CompleteUnack(b)
  \/ CompleteMark(b) \/ CompleteDelete(b)
  \/ LiveForward(b) \/ LiveQuarantine(b) \/ LiveTerminal(b) \/ LiveAck(b)
  \/ LiveAcked(b) \/ LiveEnqueue(b)

WorkerStep(b) ==
  \/ PollDue(b) \/ (\E k \in Keys : ClaimRow(b, k)) \/ ClaimNothing(b) \/ LookUp(b) \/ RetryPost(b)
  \/ RetryTerminal(b) \/ FenceRow(b) \/ AckIntent(b) \/ RetryAck(b)
  \/ RetryUnack(b) \/ MarkAcknowledged(b) \/ SettleAcked(b) \/ DeleteRow(b)
  \/ RescheduleClaimed(b) \/ ReleaseClaim(b)

Next ==
  \/ Environment
  \/ \E b \in Bridges :
       SessionStep(b) \/ IgnoreMessage(b) \/ CallbackStep(b) \/ WorkerStep(b)

Spec == Init /\ [][Next]_vars

(* Fairness.  Threads, timers and the network keep going; a lock that is    *)
(* free again and again is eventually taken, because the worker sleeps for  *)
(* poll_interval between two rows; and every due row is claimed in turn,    *)
(* because the queue is read in the order of next_attempt_at, which each    *)
(* attempt moves on.                                                        *)
Fairness ==
  /\ WF_vars(ReceivePuback)
  /\ \A b \in Bridges :
       /\ WF_vars(SessionStep(b)) /\ SF_vars(CallbackStep(b)) /\ WF_vars(WorkerStep(b))
       /\ \A k \in Keys : SF_vars(ClaimRow(b, k))

FairSpec == Spec /\ Fairness

-----------------------------------------------------------------------------
(* Properties *)

DbTypeOK ==
  /\ epoch \in Epochs /\ minted \in 0 .. MaxDeliveries
  /\ packet \in [Deliveries -> Packet \cup {None}]
  /\ gens \in [Deliveries -> Gen \cup {None}]
  /\ rows \in [Keys -> Row \cup {None}]
BrokerTypeOK ==
  /\ session \in BOOLEAN /\ inflight \in [Mids -> Msgs \cup {None}]
  /\ wire \in Seq(Publication) /\ ackQ \in Seq(Mids)
  /\ conn \in Bridges \cup {None}
  /\ published \subseteq Msgs /\ released \subseteq Msgs
BackendTypeOK == accepted \subseteq Payloads /\ quarantined \subseteq Payloads
CbRecord == [pc : CbPcs, d : 0 .. MaxDeliveries, dup : BOOLEAN,
             st : {"active", "terminal", "acked"}, out : Outcomes \cup {""}, op : Ops]
WkRecord == [pc : WkPcs, d : 0 .. MaxDeliveries, op : Ops, done : BOOLEAN,
             out : Outcomes \cup {""}, acked : BOOLEAN, sent : BOOLEAN]
MemoryTypeOK ==
  /\ phase \in [Bridges -> {"off", "retryPresent", "retryClean", "pending", "ready"}]
  /\ sessEpoch \in [Bridges -> Epochs]
  /\ targets \in [Bridges -> SUBSET Keys]
  /\ cb \in [Bridges -> CbRecord]
  /\ wk \in [Bridges -> WkRecord]
TypeOK ==
  /\ DbTypeOK /\ BrokerTypeOK /\ BackendTypeOK /\ MemoryTypeOK
  /\ pubacked \subseteq Deliveries /\ faults \in [FaultKinds -> Nat]

(* No PUBACK, from the callback, a resumed DUP or the worker, leaves the    *)
(* bridge for a delivery whose bytes the backend has not stored, in its     *)
(* telemetry or in its quarantine, whatever stops or fails in between.      *)
AckAfterStore == \A d \in pubacked : packet[d].payload \in Stored

(* End to end: the broker forgets a message only when the backend has it.   *)
(* This needs more than AckAfterStore, because a PUBACK names only a packet *)
(* id and the connection, the session and the id's owner change under it.   *)
ReleasedAfterStore == \A m \in released : PayloadOf[m] \in Stored

OutcomeIsReal(p, out) ==
  /\ out = "accepted" => p \in accepted
  /\ out = "quarantined" => p \in quarantined
(* A terminal generation or a completed row names an outcome, and the       *)
(* backend really has the bytes there: what a DUP after a restart is        *)
(* acknowledged from is true.                                               *)
TerminalStored ==
  /\ \A d \in Deliveries : gens[d] # None =>
       /\ gens[d].state # "active" => gens[d].outcome # ""
       /\ OutcomeIsReal(packet[d].payload, gens[d].outcome)
  /\ \A k \in Keys : rows[k] # None =>
       /\ rows[k].completed => rows[k].outcome # ""
       /\ OutcomeIsReal(packet[k[2]].payload, rows[k].outcome)

(* resume_session takes _subscription_buffer_lock so that no row stays      *)
(* gated by an INSERT that commits just after the SUBACK released them.     *)
ReadyIsUngated ==
  \A b \in Bridges : phase[b] = "ready" => \A k \in Keys : rows[k] # None => ~rows[k].awaiting

(* At most one live identity holds a packet id of a session epoch, so a DUP *)
(* can only resume the packet the broker means.                             *)
OneIdentity ==
  \A d, e \in Deliveries :
    /\ gens[d] # None /\ gens[e] # None /\ gens[d].active /\ gens[e].active
    /\ packet[d].mid = packet[e].mid /\ packet[d].epoch = packet[e].epoch
    => d = e

(* Garbage collection, which runs inside other transactions, never removes  *)
(* the generation that a row still has to complete.                         *)
RowsHaveGeneration ==
  \A k \in Keys : rows[k] # None => gens[k[2]] # None

(* The delivery table implements the ledger: see DeliveryLedger.            *)
LedgerOf(d) ==
  IF d > minted THEN "none"
  ELSE IF gens[d] = None THEN "gone"
  ELSE IF gens[d].state = "active" THEN "open" ELSE gens[d].outcome
StoreOf(out) == IF out = "accepted" THEN accepted ELSE quarantined
Kept == {x \in (1 .. minted) \X Outcomes : packet[x[1]].payload \in StoreOf(x[2])}
Ledger == INSTANCE DeliveryLedger WITH
            ledger <- [d \in Deliveries |-> LedgerOf(d)], kept <- Kept,
            acknowledged <- pubacked
ImplementsLedger == Ledger!Spec

(* A delivery that is terminal on disk is not posted to the backend again:  *)
(* a DUP is acknowledged "without repeating delivery".                      *)
Posts(b, d) ==
  \/ /\ cb[b].pc \in {"forward", "quarantine"} /\ cb[b].d = d
     /\ cb'[b].pc \in {"enqueue", "terminal"}
  \/ wk[b].pc = "post" /\ wk[b].d = d /\ wk'[b].pc \in {"resched", "terminal"}
NoRepeatedDelivery ==
  [][\A b \in Bridges, d \in Deliveries :
       Posts(b, d) => gens[d] = None \/ gens[d].state = "active"]_vars

(* Every published message is stored in the end.                            *)
PublishedIsStored == \A m \in Msgs : m \in published ~> PayloadOf[m] \in Stored

(* Every published message is acknowledged to the broker in the end.        *)
PublishedIsReleased == \A m \in Msgs : m \in published ~> m \in released

(* Retry work does not stay: every row leaves the queue in the end.         *)
RowsDrain == \A k \in Keys : rows[k] # None ~> rows[k] = None

-----------------------------------------------------------------------------
(* The inductive invariant.  SafeInv ties each program counter to what the  *)
(* backend stores: a thread stands before a PUBACK, and a generation or a   *)
(* row is finished, only with an outcome that is stored; and a row or a     *)
(* worker that counts as an ingest is not malformed, so that its success    *)
(* is the backend's.                                                        *)
Known == 1 .. minted
StoredDelivery(d) == packet[d].payload \in Stored
Stands(d, out) == out \in Outcomes /\ packet[d].payload \in StoreOf(out)
WellFormed(d) == packet[d].payload \notin Malformed

PacketsKnown == \A d \in Known : packet[d] # None

GensSafe ==
  \A d \in Deliveries : gens[d] # None =>
    /\ d \in Known
    /\ IF gens[d].state = "active" THEN gens[d].outcome = "" ELSE Stands(d, gens[d].outcome)

RowSafe(k) ==
  rows[k] # None =>
    /\ k[2] \in Known
    /\ IF rows[k].completed THEN Stands(k[2], rows[k].outcome)
       ELSE rows[k].outcome = "" /\ (k[1] = "ingest" => WellFormed(k[2]))

CbSafe(b) ==
  cb[b].pc # "idle" =>
    /\ cb[b].d \in Known
    /\ cb[b].pc \in {"defer", "resume"} /\ cb[b].st # "active" => Stands(cb[b].d, cb[b].out)
    /\ cb[b].pc \notin {"defer", "resume", "forward", "quarantine", "enqueue"}
       => Stands(cb[b].d, cb[b].out)
    /\ cb[b].pc = "enqueue" /\ cb[b].out # "" => Stands(cb[b].d, cb[b].out)
    /\ cb[b].pc = "enqueue" /\ cb[b].out = "" /\ cb[b].op = "ingest"
       => WellFormed(cb[b].d)
    /\ cb[b].pc \in {"terminal", "ack", "enqueue"} /\ cb[b].out # ""
       => cb[b].op = OutcomeOp(cb[b].out)

WkSafe(b) ==
  wk[b].pc \notin {"idle", "claim"} =>
    /\ wk[b].d \in Known
    /\ wk[b].pc = "look" /\ wk[b].done => Stands(wk[b].d, wk[b].out)
    /\ wk[b].pc = "look" /\ ~wk[b].done /\ wk[b].op = "ingest" => WellFormed(wk[b].d)
    /\ wk[b].pc = "post" /\ wk[b].op = "ingest" => WellFormed(wk[b].d)
    /\ wk[b].pc \notin {"look", "post", "resched", "release"} => Stands(wk[b].d, wk[b].out)

AcksSafe == pubacked \subseteq Known /\ AckAfterStore

SafeInv ==
  /\ PacketsKnown /\ GensSafe /\ AcksSafe
  /\ \A k \in Keys : RowSafe(k)
  /\ \A b \in Bridges : CbSafe(b) /\ WkSafe(b)

(* Whatever step is taken, a thread that is about to send a PUBACK or to    *)
(* finish a row holds an outcome that the backend really stored.            *)
IInv == TypeOK /\ SafeInv
=============================================================================
