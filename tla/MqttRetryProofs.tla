-------------------------- MODULE MqttRetryProofs --------------------------
(***************************************************************************)
(* Proofs about MqttRetry, for every number of bridges, messages, packet   *)
(* ids, deliveries, epochs and faults.  IInv is inductive: it ties each    *)
(* program counter of the two threads to what the backend stores.  The     *)
(* variables fall in groups (database, network, backend, memory); a lemma  *)
(* per operator says how it keeps its group, and a lemma per thread goes   *)
(* through its actions.  The second part proves what the scenarios of      *)
(* MCMqttScenarios claim of one bridge: TablesInv of the tables that its   *)
(* threads share, and ThreadsAgree, that both threads agree on the outcome *)
(* of a delivery; from these follow that nothing terminal is posted again  *)
(* and that the delivery table implements DeliveryLedger.  The last part   *)
(* follows every packet id from the wire to the broker's acknowledgement   *)
(* (IdsInv), for what the broker releases.                                 *)
(***************************************************************************)
EXTENDS MCMqttScenarios, FiniteSetTheorems, TLAPS

(* Garbage collection forgets generations; it never changes one it keeps.   *)
LEMMA PrunedValues ==
  ASSUME NEW g \in [Deliveries -> Gen \cup {None}], NEW r,
         NEW h \in MaybePruned(g, r)
  PROVE  /\ h \in [Deliveries -> Gen \cup {None}]
         /\ \A d \in Deliveries : h[d] = None \/ h[d] = g[d]
<1>1. CASE h = g
  BY <1>1
<1>2. CASE h \in Pruned(g, r)
  <2>1. PICK S : h = [d \in Deliveries |-> IF d \in S THEN None ELSE g[d]]
    BY <1>2 DEF Pruned
  <2> QED
    BY <2>1
<1> QED
  BY <1>1, <1>2 DEF MaybePruned

(* _set_delivery_state writes one generation and may forget others.         *)
LEMMA SetStateValues ==
  ASSUME TypeOK, NEW d \in Deliveries, NEW s \in {"terminal", "acked"},
         NEW out \in Outcomes \cup {""}, SetState(d, s, out)
  PROVE  /\ gens' \in [Deliveries -> Gen \cup {None}]
         /\ gens[d] # None
         /\ \A e \in Deliveries : e # d => gens'[e] = None \/ gens'[e] = gens[e]
         /\ gens'[d] = None \/ (gens'[d].state # "active" /\ gens'[d].outcome = out)
<1> DEFINE g == WithState(gens, d, s, out)
<1>1. gens \in [Deliveries -> Gen \cup {None}] /\ gens[d] # None
  BY DEF TypeOK, DbTypeOK, SetState
<1>2. gens[d] \in Gen
  BY <1>1
<1>3. /\ g \in [Deliveries -> Gen \cup {None}]
      /\ \A e \in Deliveries : e # d => g[e] = gens[e]
      /\ g[d].state # "active" /\ g[d].outcome = out
  BY <1>1, <1>2 DEF WithState, Gen
<1>4. gens' \in MaybePruned(g, rows)
  BY DEF SetState
<1>5. /\ gens' \in [Deliveries -> Gen \cup {None}]
      /\ \A e \in Deliveries : gens'[e] = None \/ gens'[e] = g[e]
  <2> HIDE DEF g
  <2> QED
    BY ZenonT(60), <1>3, <1>4, PrunedValues
<1> QED
  BY <1>1, <1>3, <1>5
-----------------------------------------------------------------------------
(* The bounds of the model are natural numbers.                             *)
LEMMA Bounds ==
  /\ MaxDeliveries \in Nat
  /\ IdleCb \in CbRecord /\ IdleWk \in WkRecord
<1>1. MaxDeliveries \in Nat
  BY BridgeAssumption
<1>2. 0 \in 0 .. MaxDeliveries
  BY <1>1
<1> QED
  BY <1>1, <1>2 DEF IdleCb, IdleWk, CbRecord, WkRecord, CbPcs, WkPcs, Ops

(* Delivery ids that were drawn are delivery ids.                           *)
LEMMA KnownDeliveries ==
  ASSUME IInv PROVE Known \subseteq Deliveries
<1>1. minted \in 0 .. MaxDeliveries
  BY DEF IInv, TypeOK, DbTypeOK
<1> QED
  BY <1>1, Bounds DEF Known, Deliveries

(* A delivery that was drawn has the packet it was drawn for.               *)
LEMMA KnownPackets ==
  ASSUME IInv, NEW d \in Known
  PROVE  d \in Deliveries /\ packet[d].mid \in Mids /\ packet[d].payload \in Payloads
<1>1. d \in Deliveries
  BY KnownDeliveries
<1>2. packet[d] \in Packet
  BY <1>1 DEF IInv, TypeOK, DbTypeOK, SafeInv, PacketsKnown
<1> QED
  BY <1>1, <1>2 DEF Packet

-----------------------------------------------------------------------------
(* What a step that draws no new delivery id may do to each group of the    *)
(* state; every action but OnMessage is one of these.                       *)
GensKept ==
  /\ gens' \in [Deliveries -> Gen \cup {None}]
  /\ \A d \in Deliveries : \/ gens'[d] = None
                           \/ /\ gens[d] # None
                              /\ gens'[d].state = gens[d].state
                              /\ gens'[d].outcome = gens[d].outcome
                           \/ /\ d \in Known /\ gens'[d].state # "active"
                              /\ Stands(d, gens'[d].outcome)
SameWork(k) ==
  /\ rows[k] # None
  /\ rows'[k].completed = rows[k].completed /\ rows'[k].outcome = rows[k].outcome
RowsKept ==
  /\ rows' \in [Keys -> Row \cup {None}]
  /\ \A k \in Keys : \/ rows'[k] = None
                     \/ SameWork(k) \/ RowSafe(k)'
DbKept == epoch' \in Epochs /\ UNCHANGED <<packet, minted>> /\ GensKept /\ RowsKept
NetKept ==
  /\ BrokerTypeOK' /\ pubacked' \subseteq Deliveries
  /\ \A d \in pubacked' : d \in pubacked \/ (d \in Known /\ StoredDelivery(d))
StoreKept == BackendTypeOK' /\ accepted \subseteq accepted' /\ quarantined \subseteq quarantined'
FaultsKept == faults' \in [FaultKinds -> Nat]

(* A delivery that was drawn keeps its packet, and what is stored stays.    *)
LEMMA KeptDelivery ==
  ASSUME DbKept, StoreKept, NEW d
  PROVE  /\ Known' = Known
         /\ StoredDelivery(d) => StoredDelivery(d)'
         /\ \A out : Stands(d, out) => Stands(d, out)'
         /\ WellFormed(d)' = WellFormed(d)
BY DEF DbKept, StoreKept, Known, StoredDelivery, WellFormed, Stored, Stands, StoreOf

(* A delivery whose outcome stands is stored by the backend.                *)
LEMMA StandsStored ==
  ASSUME NEW d, NEW out, Stands(d, out) PROVE StoredDelivery(d)
BY DEF Stands, StoreOf, StoredDelivery, Stored

(* A step that keeps every group of variables safe keeps the invariant.     *)
LEMMA KeptStep ==
  ASSUME IInv, DbKept, NetKept, StoreKept, FaultsKept, MemoryTypeOK',
         \A b \in Bridges : CbSafe(b)' /\ WkSafe(b)'
  PROVE  IInv'
<1>1. TypeOK'
  BY DEF IInv, TypeOK, DbTypeOK, DbKept, GensKept, RowsKept, NetKept, StoreKept, FaultsKept
<1>2. PacketsKnown'
  BY DEF IInv, SafeInv, PacketsKnown, DbKept, Known
<1>3. GensSafe'
  <2> SUFFICES ASSUME NEW d \in Deliveries, gens'[d] # None
               PROVE  /\ d \in Known
                      /\ IF gens'[d].state = "active" THEN gens'[d].outcome = ""
                         ELSE Stands(d, gens[d].outcome)'
    BY KeptDelivery DEF GensSafe
  <2>1. CASE /\ gens[d] # None
             /\ gens'[d].state = gens[d].state /\ gens'[d].outcome = gens[d].outcome
    BY <2>1 DEF IInv, SafeInv, GensSafe, Stands, StoreOf, StoreKept, DbKept
  <2>2. CASE d \in Known /\ gens'[d].state # "active" /\ Stands(d, gens'[d].outcome)
    BY <2>2 DEF Stands, StoreOf, StoreKept, DbKept
  <2> QED
    BY <2>1, <2>2 DEF DbKept, GensKept
<1>4. ASSUME NEW k \in Keys PROVE RowSafe(k)'
  <2>1. CASE rows'[k] = None
    BY <2>1 DEF RowSafe
  <2>2. CASE SameWork(k)
    BY <2>2, KeptDelivery DEF SameWork, RowSafe, IInv, SafeInv
  <2> QED
    BY <2>1, <2>2 DEF DbKept, RowsKept
<1>5. AcksSafe'
  <2> SUFFICES ASSUME NEW d \in pubacked' PROVE d \in Known /\ StoredDelivery(d)'
    BY KeptDelivery DEF AcksSafe, AckAfterStore, StoredDelivery
  <2> QED
    BY KeptDelivery DEF NetKept, IInv, SafeInv, AcksSafe, AckAfterStore, StoredDelivery
<1> QED
  BY <1>1, <1>2, <1>3, <1>4, <1>5 DEF IInv, SafeInv

(* A callback record that a step leaves alone stays safe.                   *)
LEMMA KeptCb ==
  ASSUME IInv, DbKept, StoreKept, NEW b \in Bridges, cb'[b] = cb[b]
  PROVE  CbSafe(b)'
BY KeptDelivery DEF IInv, SafeInv, CbSafe

(* A worker record that a step leaves alone stays safe.                     *)
LEMMA KeptWk ==
  ASSUME IInv, DbKept, StoreKept, NEW b \in Bridges, wk'[b] = wk[b]
  PROVE  WkSafe(b)'
BY KeptDelivery DEF IInv, SafeInv, WkSafe

(* A step of one callback thread disturbs no other thread.                  *)
LEMMA CallbackKept ==
  ASSUME IInv, DbKept, NetKept, StoreKept, FaultsKept, NEW b \in Bridges,
         UNCHANGED <<phase, sessEpoch, wk>>, targets' \in [Bridges -> SUBSET Keys],
         cb' \in [Bridges -> CbRecord], \A c \in Bridges \ {b} : cb'[c] = cb[c],
         CbSafe(b)'
  PROVE  IInv'
<1>1. MemoryTypeOK'
  BY DEF IInv, TypeOK, MemoryTypeOK
<1>2. \A c \in Bridges : CbSafe(c)' /\ WkSafe(c)'
  BY KeptCb, KeptWk
<1> QED
  BY <1>1, <1>2, KeptStep

(* A step of one worker thread disturbs no other thread.                    *)
LEMMA WorkerKept ==
  ASSUME IInv, DbKept, NetKept, StoreKept, FaultsKept, NEW b \in Bridges,
         UNCHANGED <<phase, sessEpoch, cb>>, targets' \in [Bridges -> SUBSET Keys],
         wk' \in [Bridges -> WkRecord], \A c \in Bridges \ {b} : wk'[c] = wk[c],
         WkSafe(b)'
  PROVE  IInv'
<1>1. MemoryTypeOK'
  BY DEF IInv, TypeOK, MemoryTypeOK
<1>2. \A c \in Bridges : CbSafe(c)' /\ WkSafe(c)'
  BY KeptCb, KeptWk
<1> QED
  BY <1>1, <1>2, KeptStep

(* A step that leaves the database alone keeps it safe.                     *)
LEMMA SameDb == ASSUME IInv, UNCHANGED db PROVE DbKept
BY DEF IInv, TypeOK, DbTypeOK, db, DbKept, GensKept, RowsKept, SameWork

(* A step that leaves the generations alone keeps what they record.         *)
LEMMA SameGens ==
  ASSUME IInv, UNCHANGED <<epoch, packet, gens, minted>>, RowsKept
  PROVE  DbKept
BY DEF IInv, TypeOK, DbTypeOK, DbKept, GensKept

(* A step that sends and receives nothing keeps the network well typed.     *)
LEMMA SameNet == ASSUME IInv, UNCHANGED <<broker, pubacked>> PROVE NetKept
BY DEF IInv, TypeOK, BrokerTypeOK, broker, NetKept

(* A step that does not reach the backend keeps what is stored.             *)
LEMMA SameBackend == ASSUME IInv, UNCHANGED backend PROVE StoreKept
BY DEF IInv, TypeOK, BackendTypeOK, backend, StoreKept

(* A fault is counted, or the counters stay.                                *)
LEMMA FaultsCounted ==
  ASSUME IInv, NoFault \/ \E k \in FaultKinds : Fault(k)
  PROVE  FaultsKept
BY DEF IInv, TypeOK, NoFault, Fault, FaultsKept

(* Recording an outcome that stands keeps the database safe.                *)
LEMMA SetStateKept ==
  ASSUME IInv, NEW d \in Known, NEW s \in {"terminal", "acked"},
         NEW out, Stands(d, out), SetState(d, s, out)
  PROVE  DbKept
<1>1. d \in Deliveries
  BY KnownDeliveries
<1>2. out \in Outcomes \cup {""}
  BY DEF Stands
<1>3. GensKept
  BY ZenonT(60), <1>1, <1>2, SetStateValues DEF IInv, GensKept
<1> QED
  BY <1>3 DEF SetState, DbKept, RowsKept, SameWork, IInv, TypeOK, DbTypeOK

(* A PUBACK for a delivery that is stored keeps AckAfterStore.              *)
LEMMA SendAckKept ==
  ASSUME IInv, NEW b, NEW d \in Known, StoredDelivery(d), SendAck(b, d)
  PROVE  NetKept
<1>1. d \in Deliveries /\ packet[d].mid \in Mids
  BY KnownPackets
<1>2. ackQ' \in Seq(Mids)
  BY <1>1 DEF SendAck, IInv, TypeOK, BrokerTypeOK
<1> QED
  BY <1>1, <1>2 DEF SendAck, NetKept, IInv, TypeOK, BrokerTypeOK

(* The ingest endpoint only adds, and a success is stored.                  *)
LEMMA ForwardKept ==
  ASSUME IInv, NEW p \in Payloads, NEW result, Forward(p, result)
  PROVE  /\ StoreKept /\ FaultsKept
         /\ result # "retry" => result \in Outcomes /\ p \in StoreOf(result)'
<1>1. FaultsKept
  BY FaultsCounted DEF Forward, FaultKinds
<1>2. StoreKept /\ (result # "retry" => result \in Outcomes /\ p \in StoreOf(result)')
  BY DEF Forward, StoreKept, StoreOf, Outcomes, BackendTypeOK, IInv, TypeOK
<1> QED
  BY <1>1, <1>2

(* The quarantine endpoint only adds to what is kept there.                 *)
LEMMA PostQuarantineKept ==
  ASSUME IInv, NEW p \in Payloads, NEW result, PostQuarantine(p, result)
  PROVE  /\ StoreKept /\ FaultsKept
         /\ result # "retry" => result \in Outcomes /\ p \in StoreOf(result)'
<1>1. FaultsKept
  BY FaultsCounted DEF PostQuarantine, FaultKinds
<1>2. StoreKept /\ (result # "retry" => result \in Outcomes /\ p \in StoreOf(result)')
  BY DEF PostQuarantine, StoreKept, StoreOf, Outcomes, BackendTypeOK, IInv, TypeOK
<1> QED
  BY <1>1, <1>2
-----------------------------------------------------------------------------
(* A callback in hand: what the callback knows of its delivery.             *)
LEMMA CbInHand ==
  ASSUME IInv, NEW b \in Bridges
  PROVE  /\ cb \in [Bridges -> CbRecord] /\ cb[b] \in CbRecord
         /\ targets \in [Bridges -> SUBSET Keys]
         /\ cb[b].pc # "idle" => /\ cb[b].d \in Known /\ CbKey(b) \in Keys
                                 /\ CbPayload(b) \in Payloads
<1>1. cb \in [Bridges -> CbRecord] /\ cb[b] \in CbRecord /\ targets \in [Bridges -> SUBSET Keys]
  BY DEF IInv, TypeOK, MemoryTypeOK
<1>2. cb[b].op \in Ops
  BY <1>1 DEF CbRecord
<1>3. cb[b].pc # "idle" => cb[b].d \in Known
  BY DEF IInv, SafeInv, CbSafe
<1> QED
  BY <1>1, <1>2, <1>3, KnownPackets DEF CbKey, CbPayload, Keys

(* Where the callback stands decides what it must know of its delivery.     *)
LEMMA CbIdle ==
  ASSUME IInv, NEW b \in Bridges, CbDone(b)
  PROVE  /\ cb' \in [Bridges -> CbRecord] /\ \A c \in Bridges \ {b} : cb'[c] = cb[c]
         /\ CbSafe(b)'
BY CbInHand, Bounds DEF CbDone, CbSafe, IdleCb

(* A callback that goes on with an outcome that stands is safe.             *)
LEMMA CbMoved ==
  ASSUME IInv, DbKept, StoreKept, NEW b \in Bridges, cb[b].pc # "idle",
         Stands(cb[b].d, cb[b].out),
         NEW pc \in CbPcs \ {"resume", "defer", "enqueue", "terminal", "ack"},
         CbGoto(b, pc)
  PROVE  /\ cb' \in [Bridges -> CbRecord] /\ \A c \in Bridges \ {b} : cb'[c] = cb[c]
         /\ CbSafe(b)'
<1>1. cb' \in [Bridges -> CbRecord] /\ \A c \in Bridges \ {b} : cb'[c] = cb[c]
  BY ZenonT(60), CbInHand DEF CbGoto, CbRecord
<1>2. cb'[b].d = cb[b].d /\ cb'[b].pc = pc /\ cb'[b].out = cb[b].out
  BY CbInHand DEF CbGoto, CbRecord
<1> QED
  BY <1>1, <1>2, CbInHand, KeptDelivery DEF CbSafe

(* Marking or clearing the PUBACK intent keeps every row safe.              *)
LEMMA MarkAttemptedKept ==
  ASSUME IInv, NEW b \in Bridges, NEW a \in BOOLEAN, MarkAttempted(b, a)
  PROVE  DbKept
<1>1. rows \in [Keys -> Row \cup {None}]
  BY DEF IInv, TypeOK, DbTypeOK
<1>2. ASSUME NEW k \in Keys
      PROVE  /\ rows'[k] \in Row \cup {None}
             /\ rows'[k] = None \/ SameWork(k)
  BY <1>1, <1>2 DEF MarkAttempted, WithAttempt, Row, SameWork
<1>3. rows' = [k \in Keys |-> rows'[k]]
  BY DEF MarkAttempted, WithAttempt
<1> QED
  BY <1>2, <1>3, SameGens DEF MarkAttempted, RowsKept

(* Deleting rows keeps the others safe.                                     *)
LEMMA RowsRemoved ==
  ASSUME IInv, NEW S, rows' = WithoutRows(rows, S)
  PROVE  RowsKept
BY DEF WithoutRows, RowsKept, SameWork, IInv, TypeOK, DbTypeOK

(* Garbage collection keeps the database safe.                              *)
LEMMA PrunedKept ==
  ASSUME IInv, gens' \in MaybePruned(gens, rows')
  PROVE  GensKept
<1>1. gens \in [Deliveries -> Gen \cup {None}]
  BY DEF IInv, TypeOK, DbTypeOK
<1> QED
  BY <1>1, PrunedValues DEF GensKept

(* What SetState of a callback that holds a stored delivery keeps; an error *)
(* leaves the database alone.                                               *)
LEMMA CbRecorded ==
  ASSUME IInv, NEW b \in Bridges, cb[b].pc # "idle", Stands(cb[b].d, cb[b].out),
         NEW s \in {"terminal", "acked"},
         SetState(cb[b].d, s, cb[b].out) \/ UNCHANGED db
  PROVE  DbKept
<1>1. cb[b].d \in Known
  BY CbInHand
<1> QED
  BY <1>1, SetStateKept, SameDb

(* A row as enqueue inserts it has the type of a row.                       *)
LEMMA NewRow ==
  ASSUME NEW completed \in BOOLEAN, NEW out \in Outcomes \cup {""}, NEW awaiting \in BOOLEAN,
         NEW row,
         row = [qos |-> 1, completed |-> completed, outcome |-> out, acknowledged |-> FALSE,
                attempted |-> FALSE, awaiting |-> awaiting, claim |-> ""]
  PROVE  row \in Row /\ row.completed = completed
BY DEF Row

(* enqueue keeps the database safe: a new row starts from what the callback *)
(* knows, and a merged row keeps the outcome it was completed with.         *)
LEMMA EnqueueKept ==
  ASSUME IInv, NEW b \in Bridges, NEW d \in Known, cb[b].d = d, NEW op \in Ops,
         NEW completed \in BOOLEAN, NEW awaiting \in BOOLEAN,
         completed => Stands(d, OpOutcome(op)),
         ~completed /\ op = "ingest" => WellFormed(d), UNCHANGED backend,
         Enqueue(b, op, completed, awaiting)
  PROVE  DbKept /\ FaultsKept /\ targets' \in [Bridges -> SUBSET Keys]
<1> DEFINE key == <<op, d>>
<1>1. d \in Known /\ d \in Deliveries /\ key \in Keys
  BY CbInHand, KnownPackets DEF Keys
<1>2. targets' \in [Bridges -> SUBSET Keys]
  BY <1>1, CbInHand DEF Enqueue, WithTarget
<1>3. FaultsKept
  BY FaultsCounted DEF Enqueue, FaultKinds
<1>4. CASE UNCHANGED db
  BY <1>2, <1>3, <1>4, SameDb
<1>5. ASSUME completed => gens[d] # None,
             rows' = Enqueued(b, op, completed, awaiting),
             gens' \in IF completed
                       THEN MaybePruned(WithState(gens, d, "terminal", OpOutcome(op)), rows)
                       ELSE {gens},
             UNCHANGED <<epoch, packet, minted>>
      PROVE  DbKept
  <2>1. OpOutcome(op) \in Outcomes
    BY DEF OpOutcome, Outcomes
  <2>2. GensKept
    <3>1. gens \in [Deliveries -> Gen \cup {None}]
      BY DEF IInv, TypeOK, DbTypeOK
    <3> DEFINE g == WithState(gens, d, "terminal", OpOutcome(op))
    <3>2. completed => /\ g \in [Deliveries -> Gen \cup {None}]
                       /\ \A e \in Deliveries : e # d => g[e] = gens[e]
                       /\ g[d].state # "active" /\ g[d].outcome = OpOutcome(op)
      <4> SUFFICES ASSUME completed
                   PROVE  /\ g \in [Deliveries -> Gen \cup {None}]
                          /\ \A e \in Deliveries : e # d => g[e] = gens[e]
                          /\ g[d].state # "active" /\ g[d].outcome = OpOutcome(op)
        OBVIOUS
      <4>1. gens[d] \in Gen /\ OpOutcome(op) \in Outcomes \cup {""}
        BY <1>1, <1>5, <2>1, <3>1
      <4> QED
        BY <1>1, <3>1, <4>1 DEF WithState, Gen
    <3>3. completed => gens' \in MaybePruned(g, rows)
      BY <1>5
    <3> HIDE DEF g
    <3>4. completed => /\ gens' \in [Deliveries -> Gen \cup {None}]
                       /\ \A e \in Deliveries : gens'[e] = None \/ gens'[e] = g[e]
      BY <3>2, <3>3, PrunedValues
    <3> QED
      BY <1>1, <1>5, <3>1, <3>2, <3>4 DEF GensKept
  <2>3. rows \in [Keys -> Row \cup {None}]
    BY DEF IInv, TypeOK, DbTypeOK
  <2>4. \A k \in Keys \ {key} : rows'[k] = rows[k]
    BY <1>5, <2>3 DEF Enqueued
  <2> DEFINE out == IF completed THEN OpOutcome(op) ELSE ""
             new == [qos |-> 1, completed |-> completed, outcome |-> out,
                     acknowledged |-> FALSE, attempted |-> FALSE, awaiting |-> awaiting,
                     claim |-> ""]
             merged == [rows[key] EXCEPT
                          !.qos = 1,
                          !.completed = @ \/ completed,
                          !.outcome = MergedOutcome(rows[key], out),
                          !.awaiting = @ \/ awaiting]
  <2>5. rows'[key] \in Row /\ (RowSafe(key)')
    <3>0. /\ IF rows[key] # None /\ cb[b].dup THEN rows'[key] = merged ELSE rows'[key] = new
          /\ out \in Outcomes \cup {""}
      BY <1>1, <1>5, <2>1, <2>3 DEF Enqueued
    <3>1. key[1] = op /\ key[2] = d /\ d \in Known'
      BY <1>1, <1>5 DEF Known
    <3>2. /\ completed => Stands(d, OpOutcome(op))'
          /\ ~completed /\ op = "ingest" => WellFormed(d)'
          /\ rows[key] # None /\ rows[key].completed => Stands(d, rows[key].outcome)
          /\ rows[key] # None /\ ~rows[key].completed => rows[key].outcome = ""
          /\ \A o : Stands(d, o) => Stands(d, o)'
      <4>1. /\ rows[key] # None /\ rows[key].completed => Stands(d, rows[key].outcome)
            /\ rows[key] # None /\ ~rows[key].completed => rows[key].outcome = ""
        BY <1>1, <3>1 DEF IInv, SafeInv, RowSafe
      <4> QED
        BY <1>1, <1>5, <4>1 DEF Stands, WellFormed, StoreOf, backend
    <3>3. CASE rows[key] # None /\ cb[b].dup
      <4>1. rows[key] \in Row
        BY <1>1, <2>3, <3>3
      <4>2. rows'[key] = merged
        BY <3>0, <3>3
      <4>3. MergedOutcome(rows[key], out) \in Outcomes \cup {""}
        BY <3>0, <4>1 DEF MergedOutcome, Row
      <4>4. /\ rows'[key] \in Row
            /\ rows'[key].completed = (rows[key].completed \/ completed)
            /\ rows'[key].outcome = MergedOutcome(rows[key], out)
        BY ZenonT(60), <4>1, <4>2, <4>3 DEF Row
      <4>5. CASE rows[key].completed
        BY <3>1, <3>2, <3>3, <4>4, <4>5 DEF RowSafe, MergedOutcome
      <4>6. CASE ~rows[key].completed /\ completed
        BY <3>1, <3>2, <3>3, <4>4, <4>6 DEF RowSafe, MergedOutcome
      <4>7. CASE ~rows[key].completed /\ ~completed
        BY <3>1, <3>2, <3>3, <4>4, <4>7 DEF RowSafe, MergedOutcome
      <4> QED
        BY <4>5, <4>6, <4>7
    <3>4. CASE ~(rows[key] # None /\ cb[b].dup)
      <4>1. rows'[key] = new
        BY <3>0, <3>4
      <4>2. rows'[key] \in Row /\ rows'[key].completed = completed
        BY ZenonT(60), <3>0, <4>1, NewRow
      <4>3. rows'[key].outcome = out
        <5> HIDE DEF out, merged, key
        <5>1. PICK row : row = rows'[key]
          OBVIOUS
        <5>2. row = [qos |-> 1, completed |-> completed, outcome |-> out, acknowledged |-> FALSE,
                attempted |-> FALSE, awaiting |-> awaiting, claim |-> ""]
          BY <4>1, <5>1
        <5>3. row.outcome = out
          BY <5>2
        <5> QED
          BY <5>1, <5>3
      <4>4. CASE completed
        BY <3>1, <3>2, <4>2, <4>3, <4>4 DEF RowSafe
      <4>5. CASE ~completed
        BY <3>1, <3>2, <4>2, <4>3, <4>5 DEF RowSafe
      <4> QED
        BY <4>4, <4>5
    <3> QED
      BY <3>3, <3>4
  <2>7. rows' \in [Keys -> Row \cup {None}]
    BY <1>1, <1>5, <2>3, <2>5 DEF Enqueued
  <2>8. RowsKept
    <3> SUFFICES ASSUME NEW k \in Keys
                 PROVE  rows'[k] = None \/ SameWork(k) \/ RowSafe(k)'
      BY <2>7 DEF RowsKept
    <3>1. CASE k = key
      BY <2>5, <3>1 DEF RowSafe, Known, Stands, StoreOf, WellFormed
    <3>2. CASE k # key
      BY <2>4, <3>2 DEF SameWork
    <3> QED
      BY <3>1, <3>2
  <2> QED
    BY <1>5, <2>2, <2>8 DEF DbKept, IInv, TypeOK, DbTypeOK
<1> QED
  BY <1>2, <1>3, <1>4, <1>5 DEF Enqueue

(* Every step of the callback thread after on_message keeps the invariant.  *)
LEMMA CallbackInductive ==
  ASSUME IInv, NEW b \in Bridges, CallbackStep(b), ~OnMessage(b)
  PROVE  IInv'
<1>1. /\ cb \in [Bridges -> CbRecord] /\ cb[b] \in CbRecord
      /\ targets \in [Bridges -> SUBSET Keys] /\ CbSafe(b)
  BY CbInHand DEF IInv, SafeInv
<1>2. CASE DeferUnapproved(b)
  <2>1. PICK d \in Known : cb[b].d = d
    BY <1>1, <1>2 DEF DeferUnapproved, CbAt, CbSafe
  <2>2. PICK completed \in BOOLEAN : completed = (cb[b].st # "active")
    OBVIOUS
  <2>3. PICK op \in Ops : /\ op = IF completed THEN OutcomeOp(cb[b].out) ELSE DecodeOp(CbPayload(b))
                          /\ Enqueue(b, op, completed, TRUE)
    BY <1>2, <2>2 DEF DeferUnapproved, Delivered, OutcomeOp, DecodeOp, Ops
  <2>4. /\ completed => Stands(d, OpOutcome(op))
        /\ ~completed /\ op = "ingest" => WellFormed(d)
    BY <1>1, <1>2, <2>1, <2>2, <2>3
       DEF DeferUnapproved, CbAt, CbSafe, DecodeOp, CbPayload, WellFormed, Stands, Outcomes,
           OutcomeOp, OpOutcome
  <2>5. /\ UNCHANGED <<broker, backend, phase, sessEpoch, wk, pubacked>> /\ CbDone(b)
    BY <1>2 DEF DeferUnapproved
  <2>6. DbKept /\ FaultsKept /\ targets' \in [Bridges -> SUBSET Keys]
    BY <2>1, <2>3, <2>4, <2>5, EnqueueKept
  <2> QED
    BY <2>5, <2>6, CbIdle, SameNet, SameBackend, CallbackKept
<1>3. CASE LiveEnqueue(b)
  <2>1. PICK d \in Known : cb[b].d = d
    BY <1>1, <1>3 DEF LiveEnqueue, CbAt, CbSafe
  <2>2. PICK completed \in BOOLEAN : completed = (cb[b].out # "")
    OBVIOUS
  <2>3. PICK op \in Ops : op = cb[b].op /\ Enqueue(b, op, completed, FALSE)
    BY <1>1, <1>3, <2>2 DEF LiveEnqueue, Delivered, CbAt, CbRecord
  <2>4. /\ completed => Stands(d, OpOutcome(op))
        /\ ~completed /\ op = "ingest" => WellFormed(d)
    BY <1>1, <1>3, <2>1, <2>2, <2>3
       DEF LiveEnqueue, CbAt, CbSafe, Stands, Outcomes, OutcomeOp, OpOutcome
  <2>5. /\ UNCHANGED <<broker, backend, phase, sessEpoch, wk, pubacked>> /\ CbDone(b)
    BY <1>3 DEF LiveEnqueue
  <2>6. DbKept /\ FaultsKept /\ targets' \in [Bridges -> SUBSET Keys]
    BY <2>1, <2>3, <2>4, <2>5, EnqueueKept
  <2> QED
    BY <2>5, <2>6, CbIdle, SameNet, SameBackend, CallbackKept
<1>4. CASE ResumeTerminal(b)
  <2>1. /\ UNCHANGED <<db, broker, backend, phase, sessEpoch, targets, wk, pubacked, faults>>
        /\ CbGoto(b, "rintent") /\ cb[b].pc # "idle" /\ Stands(cb[b].d, cb[b].out)
    BY <1>1, <1>4 DEF ResumeTerminal, CbGoto, CbAt, CbSafe
  <2>2. DbKept /\ StoreKept /\ NetKept /\ FaultsKept
    BY <2>1, SameDb, SameBackend, SameNet, FaultsCounted DEF NoFault
  <2> QED
    BY <1>1, <2>1, <2>2, CbMoved, CallbackKept DEF CbPcs
<1>5. CASE ResumeRow(b)
  <2>1. PICK d \in Known : cb[b].d = d
    BY <1>1, <1>5 DEF ResumeRow, CbAt, CbSafe
  <2>2. /\ UNCHANGED <<broker, backend, phase, sessEpoch, wk, pubacked>>
        /\ cb[b].pc = "resume"
    BY <1>5 DEF ResumeRow, CbAt
  <2>3. StoreKept /\ NetKept
    BY <2>2, SameBackend, SameNet
  <2>4. CASE NoFault /\ CbGoto(b, "forward") /\ UNCHANGED <<db, targets>>
    <3>1. DbKept /\ FaultsKept
      BY <2>4, SameDb, FaultsCounted
    <3>2. /\ cb' \in [Bridges -> CbRecord] /\ \A c \in Bridges \ {b} : cb'[c] = cb[c]
          /\ cb'[b].pc = "forward" /\ cb'[b].d = d
      BY <1>1, <2>1, <2>4 DEF CbGoto, CbRecord, CbPcs
    <3>3. CbSafe(b)'
      BY <2>1, <3>1, <3>2, <2>3, KeptDelivery DEF CbSafe
    <3> QED
      BY <1>1, <2>2, <2>3, <2>4, <3>1, <3>2, <3>3, CallbackKept
  <2>5. CASE CbFault(b)
    <3>1. DbKept /\ FaultsKept
      BY <2>5, SameDb, FaultsCounted DEF CbFault, FaultKinds
    <3> QED
      BY <1>1, <2>2, <2>3, <2>5, <3>1, CbIdle, CallbackKept DEF CbFault
  <2>6. ASSUME NEW op \in Ops, NEW key, key = <<op, d>>, rows[key] # None,
               rows' = [rows EXCEPT ![key].qos = 1], targets' = WithTarget(b, key),
               \/ /\ rows[key].completed
                  /\ cb' = [cb EXCEPT ![b].pc = "cterm", ![b].op = op,
                                      ![b].out = rows[key].outcome,
                                      ![b].st = IF rows[key].acknowledged
                                                THEN "acked" ELSE "terminal"]
               \/ CbDone(b),
               NoFault, UNCHANGED <<epoch, packet, gens, minted>>
        PROVE  IInv'
    <3>1. key \in Keys /\ rows \in [Keys -> Row \cup {None}] /\ rows[key] \in Row
      BY <2>1, <2>6, KnownDeliveries DEF Keys, IInv, TypeOK, DbTypeOK
    <3>2. RowsKept
      BY <2>6, <3>1 DEF RowsKept, SameWork, Row
    <3>3. DbKept /\ FaultsKept
      BY <2>6, <3>2, SameGens, FaultsCounted
    <3>4. targets' \in [Bridges -> SUBSET Keys]
      BY <1>1, <2>6, <3>1 DEF WithTarget
    <3>5. CASE CbDone(b)
      BY <2>2, <2>3, <3>3, <3>4, <3>5, CbIdle, CallbackKept
    <3>6. CASE /\ rows[key].completed
               /\ cb' = [cb EXCEPT ![b].pc = "cterm", ![b].op = op,
                                   ![b].out = rows[key].outcome,
                                   ![b].st = IF rows[key].acknowledged
                                             THEN "acked" ELSE "terminal"]
      <4>1. Stands(d, rows[key].outcome)
        BY <2>6, <3>1, <3>6 DEF IInv, SafeInv, RowSafe
      <4>2. rows[key].outcome \in Outcomes \cup {""}
        BY <3>1 DEF Row
      <4>3. /\ cb' \in [Bridges -> CbRecord] /\ \A c \in Bridges \ {b} : cb'[c] = cb[c]
            /\ cb'[b].pc = "cterm" /\ cb'[b].d = d /\ cb'[b].out = rows[key].outcome
        BY <1>1, <2>1, <2>6, <3>6, <4>2 DEF CbRecord, CbPcs
      <4>4. CbSafe(b)'
        BY <2>3, <3>3, <4>1, <4>3, KeptDelivery DEF CbSafe
      <4> QED
        BY <2>2, <2>3, <3>3, <3>4, <4>3, <4>4, CallbackKept
    <3> QED
      BY <2>6, <3>5, <3>6
  <2> QED
    BY <1>5, <2>1, <2>4, <2>5, <2>6 DEF ResumeRow, CbDone
<1>6. CASE ResumeIntent(b)
  <2>1. /\ UNCHANGED <<broker, backend, phase, sessEpoch, wk, pubacked>>
        /\ cb[b].pc # "idle" /\ Stands(cb[b].d, cb[b].out)
    BY <1>1, <1>6 DEF ResumeIntent, CbSafe
  <2>2. StoreKept /\ NetKept
    BY <2>1, SameBackend, SameNet
  <2>3. CASE CbFault(b)
    <3>1. DbKept /\ FaultsKept
      BY <2>3, SameDb, FaultsCounted DEF CbFault, FaultKinds
    <3> QED
      BY <1>1, <2>1, <2>2, <2>3, <3>1, CbIdle, CallbackKept DEF CbFault
  <2>4. ASSUME NEW pc \in {"rack", "cack"}, MarkAttempted(b, TRUE), NoFault, CbGoto(b, pc),
               UNCHANGED targets
        PROVE  IInv'
    <3>1. DbKept /\ FaultsKept
      BY <2>4, MarkAttemptedKept, FaultsCounted
    <3> QED
      BY <1>1, <2>1, <2>2, <2>4, <3>1, CbMoved, CallbackKept DEF CbPcs
  <2> QED
    BY <1>6, <2>3, <2>4 DEF ResumeIntent
<1>7. CASE ResumeAcked(b)
  <2>1. /\ UNCHANGED <<broker, backend, phase, sessEpoch, targets, wk, pubacked>>
        /\ cb[b].pc # "idle" /\ Stands(cb[b].d, cb[b].out)
    BY <1>1, <1>7 DEF ResumeAcked, CbAt, CbSafe
  <2>2. StoreKept /\ NetKept
    BY <2>1, SameBackend, SameNet
  <2>3. DbKept /\ FaultsKept
    BY <1>7, <2>1, CbRecorded, FaultsCounted DEF ResumeAcked, FaultKinds
  <2>4. \/ CbDone(b)
        \/ \E pc \in CbPcs \ {"resume", "defer", "enqueue", "terminal", "ack"} : CbGoto(b, pc)
    BY <1>7 DEF ResumeAcked, CbPcs
  <2> QED
    BY <1>1, <2>1, <2>2, <2>3, <2>4, CbIdle, CbMoved, CallbackKept
<1>8. CASE CompleteTerminal(b)
  <2>1. /\ UNCHANGED <<broker, backend, phase, sessEpoch, targets, wk, pubacked>>
        /\ cb[b].pc # "idle" /\ Stands(cb[b].d, cb[b].out)
    BY <1>1, <1>8 DEF CompleteTerminal, CbAt, CbSafe
  <2>2. StoreKept /\ NetKept
    BY <2>1, SameBackend, SameNet
  <2>3. DbKept /\ FaultsKept
    BY <1>8, <2>1, CbRecorded, FaultsCounted DEF CompleteTerminal, FaultKinds
  <2>4. \/ CbDone(b)
        \/ \E pc \in CbPcs \ {"resume", "defer", "enqueue", "terminal", "ack"} : CbGoto(b, pc)
    BY <1>8 DEF CompleteTerminal, CbPcs
  <2> QED
    BY <1>1, <2>1, <2>2, <2>3, <2>4, CbIdle, CbMoved, CallbackKept
<1>9. CASE LiveTerminal(b)
  <2>1. PICK d \in Known : cb[b].d = d /\ Stands(d, cb[b].out)
    BY <1>1, <1>9 DEF LiveTerminal, CbAt, CbSafe
  <2>2. /\ UNCHANGED <<broker, backend, phase, sessEpoch, targets, wk, pubacked>>
        /\ cb[b].pc = "terminal"
    BY <1>9 DEF LiveTerminal, CbAt
  <2>3. StoreKept /\ NetKept
    BY <2>2, SameBackend, SameNet
  <2>4. DbKept /\ FaultsKept
    BY <1>9, <2>1, <2>2, CbRecorded, FaultsCounted DEF LiveTerminal, FaultKinds
  <2>5. CASE CbDone(b)
    BY <1>1, <2>2, <2>3, <2>4, <2>5, CbIdle, CallbackKept
  <2>6. CASE CbGoto(b, "ack")
    <3>1. /\ cb' \in [Bridges -> CbRecord] /\ \A c \in Bridges \ {b} : cb'[c] = cb[c]
          /\ cb'[b].d = d /\ cb'[b].pc = "ack" /\ cb'[b].out = cb[b].out
          /\ cb'[b].op = cb[b].op
      BY <1>1, <2>1, <2>6 DEF CbGoto, CbRecord, CbPcs
    <3>2. CbSafe(b)'
      BY <1>1, <2>1, <2>2, <2>3, <2>4, <3>1
         DEF CbSafe, Stands, StoreOf, Outcomes, DbKept, StoreKept, Known
    <3> QED
      BY <1>1, <2>2, <2>3, <2>4, <3>1, <3>2, CallbackKept
  <2> QED
    BY <1>9, <2>5, <2>6 DEF LiveTerminal
<1>10. CASE LiveAcked(b)
  <2>1. /\ UNCHANGED <<broker, backend, phase, sessEpoch, targets, wk, pubacked>>
        /\ cb[b].pc # "idle" /\ Stands(cb[b].d, cb[b].out)
    BY <1>1, <1>10 DEF LiveAcked, CbAt, CbSafe
  <2>2. StoreKept /\ NetKept
    BY <2>1, SameBackend, SameNet
  <2>3. DbKept /\ FaultsKept
    BY <1>10, <2>1, CbRecorded, FaultsCounted DEF LiveAcked, FaultKinds
  <2>4. \/ CbDone(b)
        \/ \E pc \in CbPcs \ {"resume", "defer", "enqueue", "terminal", "ack"} : CbGoto(b, pc)
    BY <1>10 DEF LiveAcked, CbPcs
  <2> QED
    BY <1>1, <2>1, <2>2, <2>3, <2>4, CbIdle, CbMoved, CallbackKept
<1>11. CASE ResumeAck(b)
  <2>1. PICK d \in Known : cb[b].d = d /\ Stands(d, cb[b].out)
    BY <1>1, <1>11 DEF ResumeAck, CbAt, CbSafe
  <2>2. /\ UNCHANGED <<db, backend, phase, sessEpoch, targets, wk>>
        /\ cb[b].pc # "idle" /\ Stands(cb[b].d, cb[b].out)
    BY <1>11, <2>1 DEF ResumeAck, CbAt
  <2>3. DbKept /\ StoreKept /\ FaultsKept
    BY <1>11, <2>2, SameDb, SameBackend, FaultsCounted DEF ResumeAck, FaultKinds
  <2>4. NetKept
    BY <1>11, <2>1, SendAckKept, SameNet, StandsStored DEF ResumeAck, NoAck
  <2>5. \E pc \in CbPcs \ {"resume", "defer", "enqueue", "terminal", "ack"} : CbGoto(b, pc)
    BY <1>11 DEF ResumeAck, CbPcs
  <2> QED
    BY <1>1, <2>1, <2>2, <2>3, <2>4, <2>5, CbMoved, CallbackKept
<1>12. CASE CompleteAck(b)
  <2>1. PICK d \in Known : cb[b].d = d /\ Stands(d, cb[b].out)
    BY <1>1, <1>12 DEF CompleteAck, CbAt, CbSafe
  <2>2. /\ UNCHANGED <<db, backend, phase, sessEpoch, targets, wk>>
        /\ cb[b].pc # "idle" /\ Stands(cb[b].d, cb[b].out)
    BY <1>12, <2>1 DEF CompleteAck, CbAt
  <2>3. DbKept /\ StoreKept /\ FaultsKept
    BY <1>12, <2>2, SameDb, SameBackend, FaultsCounted DEF CompleteAck, FaultKinds
  <2>4. NetKept
    BY <1>12, <2>1, SendAckKept, SameNet, StandsStored DEF CompleteAck, NoAck
  <2>5. \E pc \in CbPcs \ {"resume", "defer", "enqueue", "terminal", "ack"} : CbGoto(b, pc)
    BY <1>12 DEF CompleteAck, CbPcs
  <2> QED
    BY <1>1, <2>1, <2>2, <2>3, <2>4, <2>5, CbMoved, CallbackKept
<1>13. CASE LiveAck(b)
  <2>1. PICK d \in Known : cb[b].d = d /\ Stands(d, cb[b].out)
    BY <1>1, <1>13 DEF LiveAck, CbAt, CbSafe
  <2>2. UNCHANGED <<db, backend, phase, sessEpoch, targets, wk>> /\ cb[b].pc = "ack"
    BY <1>13 DEF LiveAck, CbAt
  <2>3. DbKept /\ StoreKept /\ FaultsKept
    BY <1>13, <2>2, SameDb, SameBackend, FaultsCounted DEF LiveAck, FaultKinds
  <2>4. NetKept
    BY <1>13, <2>1, SendAckKept, SameNet, StandsStored DEF LiveAck, NoAck
  <2>5. PICK pc \in {"acked", "enqueue"} : CbGoto(b, pc)
    BY <1>13 DEF LiveAck
  <2>6. /\ cb' \in [Bridges -> CbRecord] /\ \A c \in Bridges \ {b} : cb'[c] = cb[c]
        /\ cb'[b].d = d /\ cb'[b].pc = pc /\ cb'[b].out = cb[b].out /\ cb'[b].op = cb[b].op
    BY <1>1, <2>1, <2>5 DEF CbGoto, CbRecord, CbPcs
  <2>7. CbSafe(b)'
    BY <1>1, <2>1, <2>2, <2>3, <2>5, <2>6
       DEF CbSafe, Stands, StoreOf, Outcomes, OutcomeOp, DbKept, StoreKept, Known
  <2> QED
    BY <1>1, <2>2, <2>3, <2>4, <2>6, <2>7, CallbackKept
<1>14. CASE ResumeUnack(b)
  <2>1. PICK d \in Known : cb[b].d = d /\ Stands(d, cb[b].out)
    BY <1>1, <1>14 DEF ResumeUnack, CbAt, CbSafe
  <2>2. UNCHANGED <<broker, backend, phase, sessEpoch, targets, wk, pubacked>>
    BY <1>14 DEF ResumeUnack
  <2>3. StoreKept /\ NetKept
    BY <2>2, SameBackend, SameNet
  <2>4. DbKept /\ FaultsKept
    BY <1>14, SameDb, MarkAttemptedKept, FaultsCounted DEF ResumeUnack, FaultKinds
  <2>5. /\ cb' \in [Bridges -> CbRecord] /\ \A c \in Bridges \ {b} : cb'[c] = cb[c]
        /\ cb'[b].d = d /\ cb'[b].pc = "enqueue" /\ cb'[b].out = cb[b].out
        /\ cb'[b].op = OutcomeOp(cb[b].out)
    BY <1>1, <1>14, <2>1 DEF ResumeUnack, CbRecord, CbPcs, OutcomeOp, Ops
  <2>6. CbSafe(b)'
    BY <2>1, <2>3, <2>4, <2>5
       DEF CbSafe, Stands, StoreOf, Outcomes, OutcomeOp, DbKept, StoreKept, Known
  <2> QED
    BY <1>1, <2>2, <2>3, <2>4, <2>5, <2>6, CallbackKept
<1>15. CASE ResumeDelete(b)
  <2>1. /\ UNCHANGED <<broker, backend, phase, sessEpoch, targets, wk, pubacked>>
        /\ CbDone(b)
    BY <1>15 DEF ResumeDelete
  <2>2. StoreKept /\ NetKept /\ FaultsKept
    BY <1>15, <2>1, SameBackend, SameNet, FaultsCounted DEF ResumeDelete, FaultKinds
  <2>3. DbKept
    <3>1. CASE UNCHANGED db
      BY <3>1, SameDb
    <3>2. CASE /\ rows' = WithoutRows(rows, Ops \X {cb[b].d})
               /\ gens' \in MaybePruned(gens, rows') /\ UNCHANGED <<epoch, packet, minted>>
      BY <3>2, RowsRemoved, PrunedKept DEF DbKept, IInv, TypeOK, DbTypeOK
    <3> QED
      BY <1>15, <3>1, <3>2 DEF ResumeDelete
  <2> QED
    BY <1>1, <2>1, <2>2, <2>3, CbIdle, CallbackKept
<1>16. CASE CompleteUnack(b)
  <2>1. /\ UNCHANGED <<broker, backend, phase, sessEpoch, targets, wk, pubacked>>
        /\ CbDone(b) /\ CbKey(b) \in Keys
    BY <1>16, CbInHand DEF CompleteUnack, CbFault, CbAt
  <2>2. StoreKept /\ NetKept /\ FaultsKept
    BY <1>16, <2>1, SameBackend, SameNet, FaultsCounted DEF CompleteUnack, CbFault, FaultKinds
  <2>3. DbKept
    <3>1. CASE UNCHANGED db
      BY <3>1, SameDb
    <3> DEFINE r == WithAttempt(rows, cb[b].d, FALSE)
    <3>2. ASSUME rows' = [r EXCEPT ![CbKey(b)] =
                            IF @ = None THEN None ELSE [@ EXCEPT !.claim = ""]],
                 UNCHANGED <<epoch, packet, gens, minted>>
          PROVE  DbKept
      <4>1. rows \in [Keys -> Row \cup {None}]
        BY DEF IInv, TypeOK, DbTypeOK
      <4>2. ASSUME NEW k \in Keys
            PROVE  /\ r[k] \in Row \cup {None}
                   /\ \/ r[k] = None
                      \/ /\ rows[k] # None
                         /\ r[k].completed = rows[k].completed /\ r[k].outcome = rows[k].outcome
        BY <4>1 DEF WithAttempt, Row
      <4>3. r \in [Keys -> Row \cup {None}]
        BY <4>2 DEF WithAttempt
      <4> HIDE DEF r
      <4>4. RowsKept
        BY ZenonT(60), <2>1, <3>2, <4>2, <4>3 DEF RowsKept, SameWork, Row
      <4> QED
        BY <3>2, <4>4, SameGens
    <3> QED
      BY <1>16, <3>1, <3>2 DEF CompleteUnack, CbFault
  <2> QED
    BY <1>1, <2>1, <2>2, <2>3, CbIdle, CallbackKept
<1>17. CASE CompleteMark(b)
  <2>1. /\ UNCHANGED <<broker, backend, phase, sessEpoch, targets, wk, pubacked>>
        /\ cb[b].pc # "idle" /\ Stands(cb[b].d, cb[b].out) /\ CbKey(b) \in Keys
    BY <1>1, <1>17, CbInHand DEF CompleteMark, CbAt, CbSafe
  <2>2. StoreKept /\ NetKept /\ FaultsKept
    BY <1>17, <2>1, SameBackend, SameNet, FaultsCounted DEF CompleteMark, FaultKinds
  <2>3. DbKept
    <3>1. CASE UNCHANGED db
      BY <3>1, SameDb
    <3>2. ASSUME rows' = [rows EXCEPT ![CbKey(b)] =
                            IF @ = None THEN None ELSE [@ EXCEPT !.acknowledged = TRUE]],
                 UNCHANGED <<epoch, packet, gens, minted>>
          PROVE  DbKept
      <4>1. RowsKept
        BY ZenonT(60), <2>1, <3>2 DEF RowsKept, SameWork, Row, IInv, TypeOK, DbTypeOK
      <4> QED
        BY <3>2, <4>1, SameGens
    <3> QED
      BY <1>17, <3>1, <3>2 DEF CompleteMark
  <2>4. CbDone(b) \/ CbGoto(b, "cdelete")
    BY <1>17 DEF CompleteMark
  <2> QED
    BY <1>1, <2>1, <2>2, <2>3, <2>4, CbIdle, CbMoved, CallbackKept DEF CbPcs
<1>18. CASE CompleteDelete(b)
  <2>1. /\ UNCHANGED <<broker, backend, phase, sessEpoch, wk, pubacked>>
        /\ cb[b].pc # "idle" /\ Stands(cb[b].d, cb[b].out) /\ CbGoto(b, "cacked")
    BY <1>1, <1>18 DEF CompleteDelete, CbAt, CbSafe
  <2>2. StoreKept /\ NetKept /\ FaultsKept
    BY <1>18, <2>1, SameBackend, SameNet, FaultsCounted DEF CompleteDelete, FaultKinds
  <2>3. targets' \in [Bridges -> SUBSET Keys]
    BY <1>1, <1>18 DEF CompleteDelete
  <2>4. DbKept
    BY <1>18, SameDb, RowsRemoved, SameGens DEF CompleteDelete
  <2> QED
    BY <1>1, <2>1, <2>2, <2>3, <2>4, CbMoved, CallbackKept DEF CbPcs
<1>19. CASE LiveForward(b)
  <2>1. PICK d \in Known : cb[b].d = d /\ packet[d].payload \in Payloads
    BY <1>1, <1>19, KnownPackets DEF LiveForward, CbAt, CbSafe
  <2>2. UNCHANGED <<db, broker, phase, sessEpoch, targets, wk, pubacked>>
    BY <1>19 DEF LiveForward
  <2>3. DbKept /\ NetKept
    BY <2>2, SameDb, SameNet
  <2>4. CASE CbGoto(b, "quarantine") /\ NoFault /\ UNCHANGED backend
    <3>1. StoreKept /\ FaultsKept
      BY <2>4, SameBackend, FaultsCounted
    <3>2. /\ cb' \in [Bridges -> CbRecord] /\ \A c \in Bridges \ {b} : cb'[c] = cb[c]
          /\ cb'[b].d = d /\ cb'[b].pc = "quarantine"
      BY <1>1, <2>1, <2>4 DEF CbGoto, CbRecord, CbPcs
    <3>3. CbSafe(b)'
      BY <2>1, <2>3, <3>1, <3>2, KeptDelivery DEF CbSafe
    <3> QED
      BY <1>1, <2>2, <2>3, <3>1, <3>2, <3>3, CallbackKept
  <2>5. ASSUME CbPayload(b) \notin Malformed, NEW result \in Outcomes \cup {"retry"},
               Forward(CbPayload(b), result),
               cb' = IF result = "retry"
                     THEN [cb EXCEPT ![b].pc = "enqueue", ![b].op = "ingest", ![b].out = ""]
                     ELSE [cb EXCEPT ![b].pc = "terminal", ![b].op = OutcomeOp(result),
                                     ![b].out = result]
        PROVE  IInv'
    <3>1. PICK p \in Payloads : p = packet[d].payload /\ p \notin Malformed /\ Forward(p, result)
      BY <2>1, <2>5 DEF CbPayload
    <3>2. /\ StoreKept /\ FaultsKept
          /\ result # "retry" => result \in Outcomes /\ p \in StoreOf(result)'
      BY <3>1, ForwardKept
    <3>3. /\ cb' \in [Bridges -> CbRecord] /\ \A c \in Bridges \ {b} : cb'[c] = cb[c]
          /\ cb'[b].d = d
          /\ IF result = "retry" THEN cb'[b].pc = "enqueue" /\ cb'[b].out = ""
             ELSE cb'[b].pc = "terminal" /\ cb'[b].out = result /\ cb'[b].op = OutcomeOp(result)
      BY ZenonT(60), <1>1, <2>1, <2>5 DEF CbRecord, CbPcs, OutcomeOp, Ops, Outcomes
    <3>4. result # "retry" => Stands(d, result)'
      BY <2>3, <3>1, <3>2 DEF Stands, DbKept, StoreOf
    <3>5. WellFormed(d)'
      BY <2>3, <3>1, <3>2, KeptDelivery DEF WellFormed
    <3>6. CbSafe(b)'
      BY <2>1, <2>3, <3>2, <3>3, <3>4, <3>5 DEF CbSafe, Stands, StoreOf, WellFormed, DbKept, Known
    <3> QED
      BY <1>1, <2>2, <2>3, <3>2, <3>3, <3>6, CallbackKept
  <2> QED
    BY <1>19, <2>4, <2>5 DEF LiveForward
<1>20. CASE LiveQuarantine(b)
  <2>1. PICK d \in Known : cb[b].d = d /\ packet[d].payload \in Payloads
    BY <1>1, <1>20, KnownPackets DEF LiveQuarantine, CbAt, CbSafe
  <2>2. UNCHANGED <<db, broker, phase, sessEpoch, targets, wk, pubacked>>
    BY <1>20 DEF LiveQuarantine
  <2>3. DbKept /\ NetKept
    BY <2>2, SameDb, SameNet
  <2>4. PICK result \in {"quarantined", "retry"} :
               /\ PostQuarantine(CbPayload(b), result)
               /\ cb' = [cb EXCEPT ![b].pc = IF result = "retry" THEN "enqueue" ELSE "terminal",
                                   ![b].op = "quarantine",
                                   ![b].out = IF result = "retry" THEN "" ELSE result]
    BY <1>20 DEF LiveQuarantine
  <2>5. PICK p \in Payloads : p = packet[d].payload /\ PostQuarantine(p, result)
    BY <2>1, <2>4 DEF CbPayload
  <2>6. /\ StoreKept /\ FaultsKept
        /\ result # "retry" => result \in Outcomes /\ p \in StoreOf(result)'
    BY <2>5, PostQuarantineKept
  <2>7. /\ cb' \in [Bridges -> CbRecord] /\ \A c \in Bridges \ {b} : cb'[c] = cb[c]
        /\ cb'[b].d = d /\ cb'[b].op = "quarantine"
        /\ IF result = "retry" THEN cb'[b].pc = "enqueue" /\ cb'[b].out = ""
           ELSE cb'[b].pc = "terminal" /\ cb'[b].out = "quarantined"
    BY ZenonT(60), <1>1, <2>1, <2>4 DEF CbRecord, CbPcs, Ops, Outcomes
  <2>8. result # "retry" => Stands(d, "quarantined")'
    BY <2>3, <2>5, <2>6 DEF Stands, StoreOf, DbKept
  <2>9. CbSafe(b)'
    BY <2>1, <2>3, <2>6, <2>7, <2>8 DEF CbSafe, Stands, StoreOf, OutcomeOp, DbKept, Known
  <2> QED
    BY <1>1, <2>2, <2>3, <2>6, <2>7, <2>9, CallbackKept
<1> QED
  BY <1>2, <1>3, <1>4, <1>5, <1>6, <1>7, <1>8, <1>9, <1>10, <1>11, <1>12, <1>13, <1>14, <1>15,
     <1>16, <1>17, <1>18, <1>19, <1>20 DEF CallbackStep

-----------------------------------------------------------------------------
(* A row in hand: what the worker knows of the row it has claimed.          *)
LEMMA WkInHand ==
  ASSUME IInv, NEW b \in Bridges
  PROVE  /\ wk \in [Bridges -> WkRecord] /\ wk[b] \in WkRecord /\ WkSafe(b)
         /\ targets \in [Bridges -> SUBSET Keys]
         /\ rows \in [Keys -> Row \cup {None}] /\ gens \in [Deliveries -> Gen \cup {None}]
         /\ wk[b].pc \notin {"idle", "claim"} =>
              /\ wk[b].d \in Known /\ WkKey(b) \in Keys
              /\ WkPayload(b) \in Payloads
<1>1. /\ wk \in [Bridges -> WkRecord] /\ wk[b] \in WkRecord /\ WkSafe(b)
      /\ targets \in [Bridges -> SUBSET Keys]
      /\ rows \in [Keys -> Row \cup {None}] /\ gens \in [Deliveries -> Gen \cup {None}]
  BY DEF IInv, TypeOK, MemoryTypeOK, DbTypeOK, SafeInv
<1>2. wk[b].op \in Ops
  BY <1>1 DEF WkRecord
<1>3. wk[b].pc \notin {"idle", "claim"} => wk[b].d \in Known
  BY <1>1 DEF WkSafe
<1> QED
  BY <1>1, <1>2, <1>3, KnownPackets DEF WkKey, WkPayload, Keys

(* A worker that returns to its loop is safe.                               *)
LEMMA WkIdle ==
  ASSUME IInv, NEW b \in Bridges,
         wk' = [wk EXCEPT ![b] = IdleWk] \/ (\E pc \in {"idle", "claim"} : WkGoto(b, pc))
  PROVE  /\ wk' \in [Bridges -> WkRecord] /\ \A c \in Bridges \ {b} : wk'[c] = wk[c]
         /\ WkSafe(b)'
<1>1. wk \in [Bridges -> WkRecord] /\ wk[b] \in WkRecord
  BY WkInHand
<1>2. CASE wk' = [wk EXCEPT ![b] = IdleWk]
  BY <1>1, <1>2, Bounds DEF WkSafe, IdleWk
<1>3. ASSUME NEW pc \in {"idle", "claim"}, WkGoto(b, pc)
      PROVE  /\ wk' \in [Bridges -> WkRecord] /\ \A c \in Bridges \ {b} : wk'[c] = wk[c]
             /\ wk'[b].pc = pc
  BY <1>1, <1>3 DEF WkGoto, WkRecord, WkPcs
<1> QED
  BY <1>2, <1>3 DEF WkSafe

(* A worker that gives its row back need not know anything of the delivery; *)
(* to go further it must hold a stored outcome.                             *)
LEMMA WkMoved ==
  ASSUME IInv, DbKept, StoreKept, NEW b \in Bridges, wk[b].pc \notin {"idle", "claim"},
         NEW pc \in WkPcs \ {"idle", "claim", "look", "post"}, WkGoto(b, pc),
         pc \in {"release", "resched"} \/ Stands(wk[b].d, wk[b].out)
  PROVE  /\ wk' \in [Bridges -> WkRecord] /\ \A c \in Bridges \ {b} : wk'[c] = wk[c]
         /\ WkSafe(b)'
<1>1. wk \in [Bridges -> WkRecord] /\ wk[b] \in WkRecord /\ wk[b].d \in Known
  BY WkInHand
<1>2. /\ wk' \in [Bridges -> WkRecord] /\ \A c \in Bridges \ {b} : wk'[c] = wk[c]
      /\ wk'[b].d = wk[b].d /\ wk'[b].pc = pc /\ wk'[b].out = wk[b].out
  BY <1>1 DEF WkGoto, WkRecord
<1> QED
  BY <1>1, <1>2, KeptDelivery DEF WkSafe

(* A worker step that writes only rows that stay safe.                      *)
LEMMA WkRecorded ==
  ASSUME IInv, NEW b \in Bridges, wk[b].pc \notin {"idle", "claim"},
         Stands(wk[b].d, wk[b].out), NEW s \in {"terminal", "acked"},
         SetState(wk[b].d, s, wk[b].out) \/ UNCHANGED db
  PROVE  DbKept
<1>1. wk[b].d \in Known
  BY WkInHand
<1> QED
  BY <1>1, SetStateKept, SameDb

(* Giving up a claim keeps every row safe.                                  *)
LEMMA UnclaimedKept ==
  ASSUME IInv, NEW b \in Bridges, wk[b].pc \notin {"idle", "claim"},
         rows' = Unclaimed(b) \/ UNCHANGED rows
  PROVE  RowsKept
<1>1. rows \in [Keys -> Row \cup {None}] /\ WkKey(b) \in Keys
  BY WkInHand
<1>2. CASE UNCHANGED rows
  BY <1>1, <1>2 DEF RowsKept, SameWork
<1>3. CASE Owns(b) /\ rows' = [rows EXCEPT ![WkKey(b)].claim = ""]
  BY <1>1, <1>3 DEF RowsKept, SameWork, Owns, Row
<1> QED
  BY <1>2, <1>3 DEF Unclaimed

(* Every step of the worker thread keeps the invariant.                     *)
LEMMA WorkerInductive ==
  ASSUME IInv, NEW b \in Bridges, WorkerStep(b)
  PROVE  IInv'
<1>1. /\ wk \in [Bridges -> WkRecord] /\ wk[b] \in WkRecord /\ WkSafe(b)
      /\ targets \in [Bridges -> SUBSET Keys]
      /\ rows \in [Keys -> Row \cup {None}] /\ gens \in [Deliveries -> Gen \cup {None}]
  BY WkInHand
<1>2. CASE PollDue(b)
  <2>1. /\ UNCHANGED <<db, broker, backend, phase, sessEpoch, targets, cb, pubacked, faults>>
        /\ WkGoto(b, "claim")
    BY <1>2 DEF PollDue
  <2>2. DbKept /\ StoreKept /\ NetKept /\ FaultsKept
    BY <2>1, SameDb, SameBackend, SameNet, FaultsCounted DEF NoFault
  <2> QED
    BY <1>1, <2>1, <2>2, WkIdle, WorkerKept
<1>3. ASSUME NEW k \in Keys, ClaimRow(b, k) PROVE IInv'
  <2>1. /\ UNCHANGED <<epoch, packet, gens, minted, broker, backend, phase, sessEpoch, targets,
                       cb, pubacked>>
        /\ rows[k] \in Row /\ rows[k] # None
        /\ rows' = [rows EXCEPT ![k].claim = b]
    BY <1>1, <1>3 DEF ClaimRow
  <2>2. RowsKept
    BY <1>1, <2>1 DEF RowsKept, SameWork, Row
  <2>3. DbKept /\ StoreKept /\ NetKept /\ FaultsKept
    BY <1>3, <2>1, <2>2, SameGens, SameBackend, SameNet, FaultsCounted DEF ClaimRow, FaultKinds
  <2>4. RowSafe(k) /\ k[1] \in Ops /\ k[2] \in 0 .. MaxDeliveries
    BY Bounds DEF Keys, Deliveries, IInv, SafeInv
  <2>5. /\ wk' \in [Bridges -> WkRecord] /\ \A c \in Bridges \ {b} : wk'[c] = wk[c]
        /\ wk'[b].pc = "look" /\ wk'[b].op = k[1] /\ wk'[b].d = k[2]
        /\ wk'[b].done = rows[k].completed /\ wk'[b].out = rows[k].outcome
    BY <1>1, <1>3, <2>1, <2>4 DEF ClaimRow, IdleWk, WkRecord, WkPcs, Row
  <2>6. WkSafe(b)'
    BY <2>1, <2>3, <2>4, <2>5
       DEF RowSafe, WkSafe, Stands, StoreOf, WellFormed, Known, DbKept, StoreKept
  <2> QED
    BY <1>1, <2>1, <2>3, <2>5, <2>6, WorkerKept
<1>4. CASE ClaimNothing(b)
  <2>1. /\ UNCHANGED <<db, broker, backend, phase, sessEpoch, targets, cb, pubacked>>
        /\ WkGoto(b, "idle")
    BY <1>4 DEF ClaimNothing
  <2>2. DbKept /\ StoreKept /\ NetKept /\ FaultsKept
    BY <1>4, <2>1, SameDb, SameBackend, SameNet, FaultsCounted DEF ClaimNothing, FaultKinds
  <2> QED
    BY <1>1, <2>1, <2>2, WkIdle, WorkerKept
<1>5. CASE LookUp(b)
  <2>1. PICK d \in Known : wk[b].d = d /\ d \in Deliveries
    BY <1>5, WkInHand, KnownDeliveries DEF LookUp, WkAt
  <2>2. /\ UNCHANGED <<db, broker, backend, phase, sessEpoch, targets, cb, pubacked>>
        /\ wk[b].pc = "look"
    BY <1>5 DEF LookUp, WkAt
  <2>3. DbKept /\ StoreKept /\ NetKept /\ FaultsKept
    BY <1>5, <2>2, SameDb, SameBackend, SameNet, FaultsCounted DEF LookUp, FaultKinds
  <2>4. CASE WkGoto(b, "release")
    BY <1>1, <2>2, <2>3, <2>4, WkMoved, WorkerKept DEF WkPcs
  <2>5. CASE Settled(gens[d]) /\ wk' = [wk EXCEPT ![b].pc = "terminal", ![b].out = gens[d].outcome]
    <3>1. Stands(d, gens[d].outcome)
      BY <1>1, <2>1, <2>5 DEF Settled, IInv, SafeInv, GensSafe
    <3>2. /\ wk' \in [Bridges -> WkRecord] /\ \A c \in Bridges \ {b} : wk'[c] = wk[c]
          /\ wk'[b].pc = "terminal" /\ wk'[b].d = d /\ wk'[b].out = gens[d].outcome
      BY <1>1, <2>1, <2>5, <3>1 DEF WkRecord, WkPcs, Stands
    <3>3. WkSafe(b)'
      BY <2>1, <2>3, <3>1, <3>2 DEF WkSafe, Stands, StoreOf, Known, DbKept, StoreKept
    <3> QED
      BY <1>1, <2>2, <2>3, <3>2, <3>3, WorkerKept
  <2>6. CASE wk' = [wk EXCEPT ![b].pc = IF wk[b].done THEN "terminal" ELSE "post"]
    <3>1. /\ wk' \in [Bridges -> WkRecord] /\ \A c \in Bridges \ {b} : wk'[c] = wk[c]
          /\ wk'[b].pc = (IF wk[b].done THEN "terminal" ELSE "post") /\ wk'[b].d = d
          /\ wk'[b].out = wk[b].out /\ wk'[b].op = wk[b].op
      BY <1>1, <2>1, <2>6 DEF WkRecord, WkPcs
    <3>2. WkSafe(b)'
      BY <1>1, <2>1, <2>2, <2>3, <3>1
         DEF WkSafe, Stands, StoreOf, WellFormed, Known, DbKept, StoreKept
    <3> QED
      BY <1>1, <2>2, <2>3, <3>1, <3>2, WorkerKept
  <2> QED
    BY <1>5, <2>1, <2>4, <2>5, <2>6 DEF LookUp
<1>6. CASE RetryPost(b)
  <2>1. PICK d \in Known : wk[b].d = d /\ packet[d].payload \in Payloads
    BY <1>6, WkInHand, KnownPackets DEF RetryPost, WkAt
  <2>2. UNCHANGED <<db, broker, phase, sessEpoch, targets, cb, pubacked>> /\ wk[b].pc = "post"
    BY <1>6 DEF RetryPost, WkAt
  <2>3. DbKept /\ NetKept
    BY <2>2, SameDb, SameNet
  <2>4. PICK result \in Outcomes \cup {"retry"} :
          /\ \/ PostQuarantine(WkPayload(b), result)
             \/ Forward(WkPayload(b), result)
          /\ wk' = IF result = "retry" THEN [wk EXCEPT ![b].pc = "resched"]
                   ELSE [wk EXCEPT ![b].pc = "terminal", ![b].out = result]
    <3>1. wk[b].op = "ingest" => WellFormed(wk[b].d)
      BY <1>1, <2>2 DEF WkSafe
    <3>2. wk[b].op \in {"ingest", "quarantine"}
      BY <1>1 DEF WkRecord, Ops
    <3> QED
      BY <1>6, <3>1, <3>2 DEF RetryPost, WkPayload, WellFormed
  <2>5. PICK p \in Payloads : /\ p = packet[d].payload
                              /\ PostQuarantine(p, result) \/ Forward(p, result)
    BY <2>1, <2>4 DEF WkPayload
  <2>6. /\ StoreKept /\ FaultsKept
        /\ result # "retry" => result \in Outcomes /\ p \in StoreOf(result)'
    BY <2>5, PostQuarantineKept, ForwardKept
  <2>7. /\ wk' \in [Bridges -> WkRecord] /\ \A c \in Bridges \ {b} : wk'[c] = wk[c]
        /\ wk'[b].d = d
        /\ IF result = "retry" THEN wk'[b].pc = "resched"
           ELSE wk'[b].pc = "terminal" /\ wk'[b].out = result
    BY <1>1, <2>1, <2>4 DEF WkRecord, WkPcs
  <2>8. result # "retry" => Stands(d, result)'
    BY <2>3, <2>5, <2>6 DEF Stands, StoreOf, DbKept
  <2>9. WkSafe(b)'
    BY <2>1, <2>3, <2>7, <2>8 DEF WkSafe, Stands, StoreOf, Known, DbKept
  <2> QED
    BY <1>1, <2>2, <2>3, <2>6, <2>7, <2>9, WorkerKept
<1>7. CASE RetryTerminal(b)
  <2>1. PICK d \in Known : wk[b].d = d /\ d \in Deliveries /\ Stands(d, wk[b].out)
    BY <1>1, <1>7, WkInHand, KnownDeliveries DEF RetryTerminal, WkAt, WkSafe
  <2>2. /\ UNCHANGED <<broker, backend, phase, sessEpoch, targets, cb, pubacked>>
        /\ wk[b].pc = "terminal"
    BY <1>7 DEF RetryTerminal, WkAt
  <2>3. DbKept /\ StoreKept /\ NetKept /\ FaultsKept
    BY <1>7, <2>1, <2>2, WkRecorded, SameBackend, SameNet, FaultsCounted
       DEF RetryTerminal, FaultKinds
  <2>4. CASE WkGoto(b, "release")
    BY <1>1, <2>2, <2>3, <2>4, WkMoved, WorkerKept DEF WkPcs
  <2>5. CASE wk' = [wk EXCEPT ![b].pc = "fence", ![b].acked = gens[wk[b].d].state = "acked"]
    <3>1. /\ wk' \in [Bridges -> WkRecord] /\ \A c \in Bridges \ {b} : wk'[c] = wk[c]
          /\ wk'[b].pc = "fence" /\ wk'[b].d = d /\ wk'[b].out = wk[b].out
      BY <1>1, <2>1, <2>5 DEF WkRecord, WkPcs
    <3>2. WkSafe(b)'
      BY <2>1, <2>3, <3>1 DEF WkSafe, Stands, StoreOf, Known, DbKept, StoreKept
    <3> QED
      BY <1>1, <2>2, <2>3, <3>1, <3>2, WorkerKept
  <2> QED
    BY <1>7, <2>4, <2>5 DEF RetryTerminal
<1>8. CASE FenceRow(b)
  <2>1. PICK d \in Known, key \in Keys : /\ wk[b].d = d /\ key = WkKey(b) /\ key[2] = d
                                        /\ Stands(d, wk[b].out)
    BY <1>1, <1>8, WkInHand DEF FenceRow, WkAt, WkSafe, WkKey
  <2>2. /\ UNCHANGED <<broker, backend, phase, sessEpoch, targets, cb, pubacked>>
        /\ wk[b].pc = "fence"
    BY <1>8 DEF FenceRow, WkAt
  <2>3. StoreKept /\ NetKept /\ FaultsKept
    BY <1>8, <2>2, SameBackend, SameNet, FaultsCounted DEF FenceRow, FaultKinds
  <2>4. PICK pc \in {"release", "settle", "ack", "retire"} : WkGoto(b, pc)
    BY <1>8 DEF FenceRow
  <2>5. DbKept
    <3>1. CASE UNCHANGED db
      BY <3>1, SameDb
    <3>2. ASSUME Owns(b), UNCHANGED <<epoch, packet, gens, minted>>,
                 \/ rows' = [rows EXCEPT ![key].completed = TRUE, ![key].outcome = wk[b].out]
                 \/ rows' = [rows EXCEPT ![key].completed = TRUE, ![key].outcome = wk[b].out,
                                         ![key].claim = ""]
          PROVE  DbKept
      <4>1. rows[key] \in Row /\ rows[key].claim = b /\ wk[b].out \in Outcomes \cup {""}
        BY <1>1, <2>1, <3>2 DEF Owns, WkRecord
      <4>2. /\ rows' \in [Keys -> Row \cup {None}] /\ \A k \in Keys \ {key} : rows'[k] = rows[k]
            /\ rows'[key].completed = TRUE /\ rows'[key].outcome = wk[b].out
        <5>1. CASE rows' = [rows EXCEPT ![key].completed = TRUE, ![key].outcome = wk[b].out]
          BY <1>1, <4>1, <5>1 DEF Row
        <5>2. CASE rows' = [rows EXCEPT ![key].completed = TRUE, ![key].outcome = wk[b].out,
                                        ![key].claim = ""]
          BY <1>1, <4>1, <5>2 DEF Row
        <5> QED
          BY <3>2, <5>1, <5>2
      <4>3. RowSafe(key)'
        BY <2>1, <2>3, <3>2, <4>2 DEF RowSafe, Stands, StoreOf, Known, StoreKept
      <4>4. RowsKept
        <5> SUFFICES ASSUME NEW k \in Keys PROVE rows'[k] = None \/ SameWork(k) \/ RowSafe(k)'
          BY <4>2 DEF RowsKept
        <5>1. CASE k = key
          BY <4>3, <5>1 DEF RowSafe, Stands, StoreOf, WellFormed, Known
        <5>2. CASE k # key
          BY <4>2, <5>2 DEF SameWork
        <5> QED
          BY <5>1, <5>2
      <4> QED
        BY <3>2, <4>4, SameGens
    <3> QED
      BY <1>8, <2>1, <3>1, <3>2 DEF FenceRow
  <2> QED
    BY <1>1, <2>1, <2>2, <2>3, <2>4, <2>5, WkMoved, WorkerKept DEF WkPcs
<1>9. CASE AckIntent(b)
  <2>1. /\ UNCHANGED <<broker, backend, phase, sessEpoch, targets, cb, pubacked>>
        /\ wk[b].pc = "ack" /\ WkKey(b) \in Keys /\ Stands(wk[b].d, wk[b].out)
    BY <1>1, <1>9, WkInHand DEF AckIntent, WkAt, WkSafe
  <2>2. StoreKept /\ NetKept /\ FaultsKept
    BY <1>9, <2>1, SameBackend, SameNet, FaultsCounted DEF AckIntent, FaultKinds
  <2>3. PICK pc \in {"unacked", "stale", "send", "release"} : WkGoto(b, pc)
    BY <1>9 DEF AckIntent
  <2>4. DbKept
    <3>1. CASE UNCHANGED db
      BY <3>1, SameDb
    <3>2. CASE /\ Owns(b) /\ rows' = [rows EXCEPT ![WkKey(b)].attempted = TRUE]
               /\ UNCHANGED <<epoch, packet, gens, minted>>
      <4>1. RowsKept
        BY ZenonT(60), <1>1, <2>1, <3>2 DEF RowsKept, SameWork, Owns, Row
      <4> QED
        BY <3>2, <4>1, SameGens
    <3> QED
      BY <1>9, <3>1, <3>2 DEF AckIntent
  <2> QED
    BY <1>1, <2>1, <2>2, <2>3, <2>4, WkMoved, WorkerKept DEF WkPcs
<1>10. CASE RetryAck(b)
  <2>1. PICK d \in Known : wk[b].d = d /\ Stands(d, wk[b].out)
    BY <1>1, <1>10, WkInHand DEF RetryAck, WkAt, WkSafe
  <2>2. UNCHANGED <<db, backend, phase, sessEpoch, targets, cb>> /\ wk[b].pc = "send"
    BY <1>10 DEF RetryAck, WkAt
  <2>3. DbKept /\ StoreKept /\ FaultsKept
    BY <1>10, <2>2, SameDb, SameBackend, FaultsCounted DEF RetryAck, FaultKinds
  <2>4. NetKept
    BY <1>10, <2>1, SendAckKept, SameNet, StandsStored DEF RetryAck, NoAck
  <2>5. CASE WkGoto(b, "unsent")
    BY <1>1, <2>1, <2>2, <2>3, <2>4, <2>5, WkMoved, WorkerKept DEF WkPcs
  <2>6. CASE wk' = [wk EXCEPT ![b].pc = "mark", ![b].sent = TRUE]
    <3>1. /\ wk' \in [Bridges -> WkRecord] /\ \A c \in Bridges \ {b} : wk'[c] = wk[c]
          /\ wk'[b].pc = "mark" /\ wk'[b].d = d /\ wk'[b].out = wk[b].out
      BY <1>1, <2>1, <2>6 DEF WkRecord, WkPcs
    <3>2. WkSafe(b)'
      BY <2>1, <2>3, <3>1 DEF WkSafe, Stands, StoreOf, Known, DbKept, StoreKept
    <3> QED
      BY <1>1, <2>2, <2>3, <2>4, <3>1, <3>2, WorkerKept
  <2> QED
    BY <1>10, <2>5, <2>6 DEF RetryAck
<1>11. CASE RetryUnack(b)
  <2>1. /\ UNCHANGED <<epoch, packet, gens, minted, broker, backend, phase, sessEpoch, targets,
                       cb, pubacked>>
        /\ wk[b].pc = "unsent" /\ WkKey(b) \in Keys /\ Stands(wk[b].d, wk[b].out)
    BY <1>1, <1>11, WkInHand DEF RetryUnack, WkAt, WkSafe
  <2>2. StoreKept /\ NetKept /\ FaultsKept
    BY <1>11, <2>1, SameBackend, SameNet, FaultsCounted DEF RetryUnack, FaultKinds
  <2>3. PICK pc \in {"unacked", "release"} : WkGoto(b, pc)
    BY <1>11 DEF RetryUnack
  <2>4. RowsKept
    <3>1. CASE UNCHANGED rows
      BY <1>1, <3>1 DEF RowsKept, SameWork
    <3>2. CASE Owns(b) /\ rows' = [rows EXCEPT ![WkKey(b)].attempted = FALSE]
      BY ZenonT(60), <1>1, <2>1, <3>2 DEF RowsKept, SameWork, Owns, Row
    <3> QED
      BY <1>11, <3>1, <3>2 DEF RetryUnack
  <2>5. DbKept
    BY <2>1, <2>4, SameGens
  <2> QED
    BY <1>1, <2>1, <2>2, <2>3, <2>5, WkMoved, WorkerKept DEF WkPcs
<1>12. CASE MarkAcknowledged(b)
  <2>1. /\ UNCHANGED <<broker, backend, phase, sessEpoch, cb, pubacked>>
        /\ wk[b].pc = "mark" /\ WkKey(b) \in Keys /\ Stands(wk[b].d, wk[b].out)
        /\ WkGoto(b, "settle")
    BY <1>1, <1>12, WkInHand DEF MarkAcknowledged, WkAt, WkSafe
  <2>2. StoreKept /\ NetKept /\ FaultsKept
    BY <1>12, <2>1, SameBackend, SameNet, FaultsCounted DEF MarkAcknowledged, FaultKinds
  <2>3. targets' \in [Bridges -> SUBSET Keys]
    BY <1>1, <1>12 DEF MarkAcknowledged
  <2>4. DbKept
    <3>1. CASE UNCHANGED db
      BY <3>1, SameDb
    <3>2. ASSUME rows' = [rows EXCEPT ![WkKey(b)] =
                            IF @ = None THEN None ELSE [@ EXCEPT !.acknowledged = TRUE]],
                 UNCHANGED <<epoch, packet, gens, minted>>
          PROVE  DbKept
      <4>1. RowsKept
        BY ZenonT(60), <1>1, <2>1, <3>2 DEF RowsKept, SameWork, Row
      <4> QED
        BY <3>2, <4>1, SameGens
    <3> QED
      BY <1>12, <3>1, <3>2 DEF MarkAcknowledged
  <2> QED
    BY <1>1, <2>1, <2>2, <2>3, <2>4, WkMoved, WorkerKept DEF WkPcs
<1>13. CASE SettleAcked(b)
  <2>1. /\ UNCHANGED <<broker, backend, phase, sessEpoch, targets, cb, pubacked>>
        /\ wk[b].pc = "settle" /\ Stands(wk[b].d, wk[b].out)
    BY <1>1, <1>13 DEF SettleAcked, WkAt, WkSafe
  <2>2. DbKept /\ StoreKept /\ NetKept /\ FaultsKept
    BY <1>13, <2>1, WkRecorded, SameBackend, SameNet, FaultsCounted DEF SettleAcked, FaultKinds
  <2>3. PICK pc \in {"release", "delete"} : WkGoto(b, pc)
    BY <1>13 DEF SettleAcked
  <2> QED
    BY <1>1, <2>1, <2>2, <2>3, WkMoved, WorkerKept DEF WkPcs
<1>14. CASE DeleteRow(b)
  <2>1. /\ UNCHANGED <<broker, backend, phase, sessEpoch, cb, pubacked>>
        /\ wk[b].pc \notin {"idle", "claim"} /\ WkGoto(b, "release")
    BY <1>14 DEF DeleteRow
  <2>2. StoreKept /\ NetKept /\ FaultsKept
    BY <1>14, <2>1, SameBackend, SameNet, FaultsCounted DEF DeleteRow, FaultKinds
  <2>3. targets' \in [Bridges -> SUBSET Keys]
    BY <1>1, <1>14 DEF DeleteRow
  <2>4. DbKept
    <3>1. CASE UNCHANGED db
      BY <3>1, SameDb
    <3>2. CASE /\ rows' = IF Owns(b) THEN WithoutRows(rows, {WkKey(b)}) ELSE rows
               /\ gens' \in MaybePruned(gens, rows') /\ UNCHANGED <<epoch, packet, minted>>
      <4>1. RowsKept
        BY <1>1, <3>2, RowsRemoved DEF RowsKept, SameWork
      <4> QED
        BY <3>2, <4>1, PrunedKept DEF DbKept, IInv, TypeOK, DbTypeOK
    <3> QED
      BY <1>14, <3>1, <3>2 DEF DeleteRow
  <2> QED
    BY <1>1, <2>1, <2>2, <2>3, <2>4, WkMoved, WorkerKept DEF WkPcs
<1>15. CASE RescheduleClaimed(b)
  <2>1. /\ UNCHANGED <<epoch, packet, gens, minted, broker, backend, phase, sessEpoch, targets,
                       cb, pubacked>>
        /\ wk[b].pc \notin {"idle", "claim"} /\ WkGoto(b, "release")
    BY <1>15 DEF RescheduleClaimed
  <2>2. DbKept /\ StoreKept /\ NetKept /\ FaultsKept
    BY <1>15, <2>1, UnclaimedKept, SameGens, SameBackend, SameNet, FaultsCounted
       DEF RescheduleClaimed, FaultKinds
  <2> QED
    BY <1>1, <2>1, <2>2, WkMoved, WorkerKept DEF WkPcs
<1>16. CASE ReleaseClaim(b)
  <2>1. /\ UNCHANGED <<epoch, packet, gens, minted, broker, backend, phase, sessEpoch, targets,
                       cb, pubacked>>
        /\ wk[b].pc \notin {"idle", "claim"} /\ wk' = [wk EXCEPT ![b] = IdleWk]
    BY <1>16 DEF ReleaseClaim, WkAt
  <2>2. DbKept /\ StoreKept /\ NetKept /\ FaultsKept
    BY <1>16, <2>1, UnclaimedKept, SameGens, SameBackend, SameNet, FaultsCounted
       DEF ReleaseClaim, FaultKinds
  <2> QED
    BY <1>1, <2>1, <2>2, WkIdle, WorkerKept
<1> QED
  BY <1>2, <1>3, <1>4, <1>5, <1>6, <1>7, <1>8, <1>9, <1>10, <1>11, <1>12, <1>13, <1>14, <1>15,
     <1>16 DEF WorkerStep

-----------------------------------------------------------------------------
(* The packet that on_message takes from the wire has its type.             *)
LEMMA NextMessage ==
  ASSUME IInv, wire # <<>>
  PROVE  /\ Head(wire) \in Publication /\ Tail(wire) \in Seq(Publication)
         /\ PayloadOf[Head(wire).msg] \in Payloads
<1>1. Head(wire) \in Publication /\ Tail(wire) \in Seq(Publication)
  BY DEF IInv, TypeOK, BrokerTypeOK
<1> QED
  BY <1>1, BridgeAssumption DEF Publication

(* Taking a packet from the wire leaves a well-typed network.               *)
LEMMA WireConsumed ==
  ASSUME IInv, wire # <<>>, wire' = Tail(wire),
         UNCHANGED <<session, inflight, ackQ, conn, published, released, pubacked>>
  PROVE  NetKept
BY NextMessage DEF IInv, TypeOK, BrokerTypeOK, NetKept

(* A new delivery id changes nothing for the deliveries that exist.         *)
LEMMA MintInductive ==
  ASSUME IInv, NEW b \in Bridges, NEW n, n = minted + 1, n \in Deliveries,
         NEW p \in Publication, PayloadOf[p.msg] \in Payloads, MintDelivery(b, p, n),
         NetKept, UNCHANGED <<backend, phase, sessEpoch, wk, faults>>,
         cb' \in [Bridges -> CbRecord], \A c \in Bridges \ {b} : cb'[c] = cb[c],
         cb'[b].d = n, cb'[b].pc \in {"defer", "resume", "forward"}, cb'[b].st = "active"
  PROVE  IInv'
<1> DEFINE old     == Superseded(b, p)
           retired == [e \in Deliveries |->
                         IF e \in old THEN [gens[e] EXCEPT !.active = FALSE]
                         ELSE IF e = n
                              THEN [active |-> TRUE, state |-> "active", outcome |-> ""]
                              ELSE gens[e]]
<1>1. /\ minted \in 0 .. MaxDeliveries /\ epoch \in Epochs
      /\ packet \in [Deliveries -> Packet \cup {None}]
      /\ gens \in [Deliveries -> Gen \cup {None}] /\ rows \in [Keys -> Row \cup {None}]
      /\ sessEpoch[b] \in Epochs /\ targets \in [Bridges -> SUBSET Keys]
  BY DEF IInv, TypeOK, DbTypeOK, MemoryTypeOK
<1>2. /\ minted' = n /\ epoch' = epoch
      /\ packet' = [packet EXCEPT ![n] =
                      [mid |-> p.mid, payload |-> PayloadOf[p.msg], epoch |-> sessEpoch[b]]]
      /\ rows' = [k \in Keys |-> IF k[2] \in old /\ rows[k] # None
                                 THEN [rows[k] EXCEPT !.qos = 0] ELSE rows[k]]
      /\ gens' \in MaybePruned(retired, rows')
      /\ targets' = [targets EXCEPT ![b] = @ \ (Ops \X old)]
  BY DEF MintDelivery
<1>3. minted' \in 0 .. MaxDeliveries /\ Known' = Known \cup {n} /\ n \notin Known
  <2>1. n \in 0 .. MaxDeliveries /\ minted \in Nat
    BY <1>1, Bounds DEF Deliveries
  <2>2. 1 .. n = (1 .. minted) \cup {n} /\ n \notin 1 .. minted
    BY <2>1
  <2> QED
    BY <1>2, <2>1, <2>2 DEF Known
<1>4. packet' \in [Deliveries -> Packet \cup {None}] /\ packet'[n] \in Packet
  BY <1>1, <1>2 DEF Packet, Publication
<1>5. \A e \in Known : packet'[e] = packet[e]
  BY <1>1, <1>2, <1>3, KnownDeliveries
<1>6. /\ rows' \in [Keys -> Row \cup {None}]
      /\ \A k \in Keys : rows'[k] = None \/ SameWork(k)
  <2> HIDE DEF old
  <2>1. ASSUME NEW k \in Keys
        PROVE  /\ rows'[k] \in Row \cup {None}
               /\ rows'[k] = None \/ SameWork(k)
    <3>1. CASE k[2] \in old /\ rows[k] # None
      <4>1. rows[k] \in Row /\ rows'[k] = [rows[k] EXCEPT !.qos = 0]
        BY <1>1, <1>2, <3>1
      <4> QED
        BY <3>1, <4>1 DEF Row, SameWork
    <3>2. CASE ~(k[2] \in old /\ rows[k] # None)
      BY <1>1, <1>2, <3>2 DEF SameWork
    <3> QED
      BY <3>1, <3>2
  <2> QED
    BY <1>2, <2>1
<1>7. /\ retired \in [Deliveries -> Gen \cup {None}]
      /\ \A e \in Deliveries : retired[e] # None =>
           \/ /\ gens[e] # None /\ retired[e].state = gens[e].state
              /\ retired[e].outcome = gens[e].outcome
           \/ e = n /\ retired[e].state = "active" /\ retired[e].outcome = ""
  <2>1. \A e \in old : e \in Deliveries /\ gens[e] \in Gen /\ gens[e] # None
    BY <1>1 DEF Superseded
  <2> HIDE DEF old
  <2>2. ASSUME NEW e \in Deliveries
        PROVE  /\ retired[e] \in Gen \cup {None}
               /\ retired[e] # None =>
                    \/ /\ gens[e] # None /\ retired[e].state = gens[e].state
                       /\ retired[e].outcome = gens[e].outcome
                    \/ e = n /\ retired[e].state = "active" /\ retired[e].outcome = ""
    <3>1. CASE e \in old
      BY <2>1, <3>1 DEF Gen
    <3>2. CASE e \notin old /\ e = n
      BY <3>2 DEF Gen
    <3>3. CASE e \notin old /\ e # n
      BY <1>1, <3>3
    <3> QED
      BY <3>1, <3>2, <3>3
  <2> QED
    BY <2>2
<1>8. /\ gens' \in [Deliveries -> Gen \cup {None}]
      /\ \A e \in Deliveries : gens'[e] = None \/ gens'[e] = retired[e]
  <2>1. gens' \in MaybePruned(retired, rows') /\ retired \in [Deliveries -> Gen \cup {None}]
    BY <1>2, <1>7
  <2> HIDE DEF retired, old
  <2> QED
    BY <2>1, PrunedValues
<1>9. TypeOK'
  <2>1. DbTypeOK'
    BY <1>1, <1>2, <1>3, <1>4, <1>6, <1>8 DEF DbTypeOK
  <2>2. targets' \in [Bridges -> SUBSET Keys]
    BY <1>1, <1>2
  <2>3. BackendTypeOK' /\ MemoryTypeOK' /\ faults' \in [FaultKinds -> Nat]
    BY <2>2 DEF IInv, TypeOK, BackendTypeOK, MemoryTypeOK, backend
  <2> QED
    BY <2>1, <2>3 DEF TypeOK, NetKept
<1>10. PacketsKnown'
  BY <1>3, <1>4, <1>5, BridgeAssumption DEF IInv, SafeInv, PacketsKnown
<1>11. accepted' = accepted /\ quarantined' = quarantined
  BY DEF backend
<1>12. GensSafe'
  <2> HIDE DEF retired
  <2> SUFFICES ASSUME NEW e \in Deliveries, gens'[e] # None
               PROVE  /\ e \in Known'
                      /\ IF gens'[e].state = "active" THEN gens'[e].outcome = ""
                         ELSE Stands(e, gens[e].outcome)'
    BY DEF GensSafe
  <2>1. gens'[e] = retired[e]
    BY <1>8
  <2>2. CASE e = n /\ retired[e].state = "active" /\ retired[e].outcome = ""
    BY <1>3, <2>1, <2>2
  <2>3. CASE /\ gens[e] # None /\ retired[e].state = gens[e].state
             /\ retired[e].outcome = gens[e].outcome
    BY <1>3, <1>5, <1>11, <2>1, <2>3 DEF IInv, SafeInv, GensSafe, Stands, StoreOf
  <2> QED
    BY <1>7, <2>1, <2>2, <2>3
<1>13. \A k \in Keys : RowSafe(k)'
  BY ZenonT(60), <1>3, <1>5, <1>6, <1>11
     DEF IInv, SafeInv, RowSafe, SameWork, Stands, StoreOf, WellFormed
<1>14. AcksSafe'
  BY <1>3, <1>5, <1>11
     DEF NetKept, IInv, SafeInv, AcksSafe, AckAfterStore, StoredDelivery, Stored
<1>15. ASSUME NEW c \in Bridges PROVE CbSafe(c)'
  <2>1. CASE c = b
    BY <1>3, <2>1 DEF CbSafe
  <2>2. CASE c # b
    <3>1. cb'[c] = cb[c] /\ CbSafe(c)
      BY <2>2 DEF IInv, SafeInv
    <3>2. \A e \in Known : /\ e \in Known' /\ WellFormed(e)' = WellFormed(e)
                           /\ \A out : Stands(e, out) => Stands(e, out)'
      BY <1>3, <1>5, <1>11 DEF Stands, StoreOf, WellFormed
    <3> QED
      BY <3>1, <3>2 DEF CbSafe
  <2> QED
    BY <2>1, <2>2
<1>16. ASSUME NEW c \in Bridges PROVE WkSafe(c)'
  BY <1>3, <1>5, <1>11 DEF IInv, SafeInv, WkSafe, Stands, StoreOf, WellFormed
<1> QED
  BY <1>9, <1>10, <1>12, <1>13, <1>14, <1>15, <1>16 DEF IInv, SafeInv

(* on_message keeps the invariant: a resumed DUP carries what its generation *)
(* records, a new delivery claims nothing.                                  *)
LEMMA OnMessageInductive ==
  ASSUME IInv, NEW b \in Bridges, OnMessage(b)
  PROVE  IInv'
<1>1. PICK p \in Publication : p = Head(wire) /\ PayloadOf[p.msg] \in Payloads
  BY NextMessage DEF OnMessage
<1>2. /\ UNCHANGED <<backend, phase, sessEpoch, wk, faults>> /\ NetKept
  BY WireConsumed DEF OnMessage
<1>3. /\ cb \in [Bridges -> CbRecord] /\ cb[b] \in CbRecord
      /\ targets \in [Bridges -> SUBSET Keys]
  BY CbInHand
<1>4. ASSUME NEW d \in Same(b, p), UNCHANGED <<db, targets>>,
             cb' = [cb EXCEPT ![b] =
                      [pc |-> NextPc(b, TRUE), d |-> d, dup |-> TRUE,
                       st |-> gens[d].state, out |-> gens[d].outcome,
                       op |-> OutcomeOp(gens[d].outcome)]]
      PROVE  IInv'
  <2>1. d \in Deliveries /\ gens[d] # None
    BY DEF Same, Superseded
  <2>2. /\ gens[d] \in Gen /\ d \in Known /\ d \in 0 .. MaxDeliveries
        /\ gens[d].state # "active" => Stands(d, gens[d].outcome)
    <3>1. gens \in [Deliveries -> Gen \cup {None}] /\ GensSafe
      BY DEF IInv, TypeOK, DbTypeOK, SafeInv
    <3>2. d \in 0 .. MaxDeliveries
      BY <2>1, Bounds DEF Deliveries
    <3> QED
      BY <2>1, <3>1, <3>2 DEF GensSafe
  <2>3. DbKept /\ StoreKept /\ FaultsKept
    BY <1>2, <1>4, SameDb, SameBackend, FaultsCounted DEF NoFault
  <2>4. /\ cb' \in [Bridges -> CbRecord] /\ \A c \in Bridges \ {b} : cb'[c] = cb[c]
        /\ cb'[b].pc \in {"defer", "resume"} /\ cb'[b].d = d
        /\ cb'[b].st = gens[d].state /\ cb'[b].out = gens[d].outcome
    BY <1>3, <1>4, <2>2 DEF CbRecord, CbPcs, NextPc, OutcomeOp, Ops, Gen
  <2>5. CbSafe(b)'
    BY <2>2, <2>3, <2>4 DEF CbSafe, Stands, StoreOf, Known, DbKept, StoreKept
  <2> QED
    BY <1>2, <1>3, <1>4, <2>3, <2>4, <2>5, CallbackKept
<1>5. CASE /\ minted + 1 \in Deliveries /\ MintDelivery(b, p, minted + 1)
           /\ cb' = [cb EXCEPT ![b] =
                       [IdleCb EXCEPT !.pc = NextPc(b, p.dup), !.d = minted + 1,
                                      !.dup = p.dup]]
  <2>1. PICK n \in Deliveries : n = minted + 1 /\ MintDelivery(b, p, n)
    BY <1>5
  <2>2. n \in 0 .. MaxDeliveries /\ p.dup \in BOOLEAN
    BY Bounds DEF Deliveries, Publication
  <2>3. /\ cb' \in [Bridges -> CbRecord] /\ \A c \in Bridges \ {b} : cb'[c] = cb[c]
        /\ cb'[b].d = n /\ cb'[b].pc \in {"defer", "resume", "forward"}
        /\ cb'[b].st = "active"
    BY <1>3, <1>5, <2>1, <2>2 DEF CbRecord, CbPcs, NextPc, IdleCb, Ops
  <2> QED
    BY <1>1, <1>2, <2>1, <2>3, MintInductive
<1> QED
  BY <1>1, <1>4, <1>5 DEF OnMessage

-----------------------------------------------------------------------------
(* A session step that leaves the threads alone keeps the invariant.        *)
LEMMA SessionKept ==
  ASSUME IInv, DbKept, NetKept, StoreKept, FaultsKept, UNCHANGED <<cb, wk>>,
         phase' \in [Bridges -> {"off", "retryPresent", "retryClean", "pending", "ready"}],
         sessEpoch' \in [Bridges -> Epochs], targets' \in [Bridges -> SUBSET Keys]
  PROVE  IInv'
<1>1. MemoryTypeOK'
  BY DEF IInv, TypeOK, MemoryTypeOK
<1>2. \A b \in Bridges : CbSafe(b)' /\ WkSafe(b)'
  BY KeptCb, KeptWk
<1> QED
  BY <1>1, <1>2, KeptStep

(* Rows whose packet id is void stay safe.                                  *)
LEMMA RowsStale ==
  ASSUME IInv,
         rows' = [k \in Keys |-> IF rows[k] = None THEN None
                                 ELSE IF rows[k].completed THEN None
                                 ELSE [rows[k] EXCEPT !.qos = 0]]
  PROVE  RowsKept
<1>1. rows \in [Keys -> Row \cup {None}]
  BY DEF IInv, TypeOK, DbTypeOK
<1>2. ASSUME NEW k \in Keys
      PROVE  rows'[k] \in Row \cup {None} /\ (rows'[k] = None \/ SameWork(k))
  <2>1. CASE rows[k] = None \/ rows[k].completed
    BY <2>1
  <2>2. CASE rows[k] # None /\ ~rows[k].completed
    <3>1. rows[k] \in Row /\ rows'[k] = [rows[k] EXCEPT !.qos = 0]
      BY <1>1, <2>2
    <3> QED
      BY <2>2, <3>1 DEF Row, SameWork
  <2> QED
    BY <2>1, <2>2
<1> QED
  BY <1>2 DEF RowsKept

(* begin_session keeps the database safe.                                   *)
LEMMA BeginSessionKept ==
  ASSUME IInv, NEW b \in Bridges, NEW present, BeginSession(b, present)
  PROVE  /\ DbKept
         /\ sessEpoch' \in [Bridges -> Epochs] /\ targets' \in [Bridges -> SUBSET Keys]
<1>1. /\ gens \in [Deliveries -> Gen \cup {None}] /\ epoch \in Epochs
      /\ sessEpoch \in [Bridges -> Epochs] /\ targets \in [Bridges -> SUBSET Keys]
      /\ rows \in [Keys -> Row \cup {None}]
  BY DEF IInv, TypeOK, DbTypeOK, MemoryTypeOK
<1>2. CASE present
  <2>1. /\ gens' \in Pruned(gens, rows) /\ UNCHANGED <<epoch, packet, rows, minted>>
        /\ sessEpoch' = [sessEpoch EXCEPT ![b] = epoch]
        /\ targets' = [targets EXCEPT ![b] = {}]
    BY <1>2 DEF BeginSession
  <2>2. GensKept
    BY <2>1, PrunedKept DEF MaybePruned
  <2>3. RowsKept
    BY <1>1, <2>1 DEF RowsKept, SameWork
  <2> QED
    BY <1>1, <2>1, <2>2, <2>3 DEF DbKept
<1>3. CASE ~present
  <2> DEFINE retired == [d \in Deliveries |->
                           IF gens[d] = None THEN None ELSE [gens[d] EXCEPT !.active = FALSE]]
  <2>1. /\ gens' \in Pruned(retired, rows') /\ UNCHANGED <<packet, minted>>
        /\ rows' = [k \in Keys |-> IF rows[k] = None THEN None
                                   ELSE IF rows[k].completed THEN None
                                   ELSE [rows[k] EXCEPT !.qos = 0]]
        /\ epoch' \in Epochs /\ epoch' = epoch + 1
        /\ sessEpoch' = [sessEpoch EXCEPT ![b] = epoch + 1]
        /\ targets' = [targets EXCEPT ![b] = {}]
    BY <1>3 DEF BeginSession
  <2>2. /\ retired \in [Deliveries -> Gen \cup {None}]
        /\ \A d \in Deliveries : retired[d] # None =>
             /\ gens[d] # None /\ retired[d].state = gens[d].state
             /\ retired[d].outcome = gens[d].outcome
    BY <1>1 DEF Gen
  <2>3. gens' \in MaybePruned(retired, rows')
    BY <2>1 DEF MaybePruned
  <2>4. GensKept
    <3> HIDE DEF retired
    <3>1. /\ gens' \in [Deliveries -> Gen \cup {None}]
          /\ \A d \in Deliveries : gens'[d] = None \/ gens'[d] = retired[d]
      BY <2>2, <2>3, PrunedValues
    <3> QED
      BY <2>2, <3>1 DEF GensKept
  <2>5. RowsKept
    BY <2>1, RowsStale
  <2> QED
    BY <1>1, <2>1, <2>4, <2>5 DEF DbKept
<1> QED
  BY <1>2, <1>3

(* What the broker sends again on a reconnect is a list of publications.    *)
LEMMA ResendTyped ==
  ASSUME IInv, NEW b, NEW w \in Resend(b)
  PROVE  w \in Seq(Publication)
<1> DEFINE mids == {m \in Mids : inflight[m] # None}
<1>1. inflight \in [Mids -> Msgs \cup {None}]
  BY DEF IInv, TypeOK, BrokerTypeOK
<1>2. PICK n \in Nat : n = Cardinality(mids)
  BY BridgeAssumption, FS_Subset, FS_CardinalityType
<1>3. PICK s \in [1 .. n -> mids] :
        w = [i \in DOMAIN s |-> [mid |-> s[i], msg |-> inflight[s[i]], dup |-> TRUE]]
  BY <1>2 DEF Resend
<1>4. \A i \in 1 .. n : s[i] \in Mids /\ inflight[s[i]] \in Msgs
  BY <1>1, <1>3
<1>5. w \in [1 .. n -> Publication]
  BY <1>3, <1>4 DEF Publication
<1> QED
  BY <1>5

(* Every session callback keeps the invariant.                              *)
LEMMA SessionInductive ==
  ASSUME IInv, NEW b \in Bridges, SessionStep(b) \/ IgnoreMessage(b) \/ SubackRefused(b)
  PROVE  IInv'
<1>1. /\ phase \in [Bridges -> {"off", "retryPresent", "retryClean", "pending", "ready"}]
      /\ sessEpoch \in [Bridges -> Epochs] /\ targets \in [Bridges -> SUBSET Keys]
      /\ rows \in [Keys -> Row \cup {None}] /\ BrokerTypeOK /\ pubacked \subseteq Deliveries
  BY DEF IInv, TypeOK, DbTypeOK, MemoryTypeOK
<1>2. CASE OnConnect(b)
  <2>1. /\ UNCHANGED <<inflight, published, released, backend, cb, wk, pubacked>>
        /\ conn' = b /\ session' = TRUE /\ ackQ' = <<>>
        /\ wire' \in IF session THEN Resend(b) ELSE {<<>>}
    BY <1>2 DEF OnConnect
  <2>2. NetKept
    <3>1. wire' \in Seq(Publication)
      <4>1. CASE session
        BY <2>1, <4>1, ResendTyped
      <4>2. CASE ~session
        BY <2>1, <4>2
      <4> QED
        BY <4>1, <4>2
    <3> QED
      BY <1>1, <2>1, <3>1 DEF NetKept, BrokerTypeOK
  <2>3. StoreKept /\ FaultsKept
    BY <1>2, <2>1, SameBackend, FaultsCounted DEF OnConnect, FaultKinds
  <2>4. PICK p \in {"pending", "retryPresent", "retryClean"} : phase' = [phase EXCEPT ![b] = p]
    BY <1>2 DEF OnConnect
  <2>5. \/ \E present \in BOOLEAN : BeginSession(b, present)
        \/ UNCHANGED <<db, sessEpoch>> /\ targets' = [targets EXCEPT ![b] = {}]
    BY <1>1, <1>2 DEF OnConnect, BrokerTypeOK
  <2>6. /\ DbKept
        /\ sessEpoch' \in [Bridges -> Epochs] /\ targets' \in [Bridges -> SUBSET Keys]
    BY <1>1, <2>5, BeginSessionKept, SameDb
  <2> QED
    BY <1>1, <2>1, <2>2, <2>3, <2>4, <2>6, SessionKept
<1>3. CASE RetryActivation(b)
  <2>1. /\ UNCHANGED <<broker, backend, cb, wk, pubacked, faults>>
        /\ phase' = [phase EXCEPT ![b] = "pending"]
        /\ \E present \in BOOLEAN : BeginSession(b, present)
    BY <1>3 DEF RetryActivation
  <2>2. /\ DbKept
        /\ sessEpoch' \in [Bridges -> Epochs] /\ targets' \in [Bridges -> SUBSET Keys]
    BY <2>1, BeginSessionKept
  <2> QED
    BY <1>1, <2>1, <2>2, SameNet, SameBackend, FaultsCounted, SessionKept DEF NoFault
<1>4. CASE ResumeSession(b)
  <2>1. /\ UNCHANGED <<epoch, packet, gens, minted, broker, backend, sessEpoch, targets, cb, wk,
                       pubacked, faults>>
        /\ phase' = [phase EXCEPT ![b] = "ready"] /\ rows' = Ungated(rows)
    BY <1>4 DEF ResumeSession
  <2>2. ASSUME NEW k \in Keys
        PROVE  rows'[k] \in Row \cup {None} /\ (rows'[k] = None \/ SameWork(k))
    BY <1>1, <2>1 DEF Ungated, Row, SameWork
  <2>3. RowsKept
    BY <2>1, <2>2 DEF RowsKept, Ungated
  <2> QED
    BY <1>1, <2>1, <2>3, SameGens, SameNet, SameBackend, FaultsCounted, SessionKept DEF NoFault
<1>5. CASE OnDisconnect(b)
  <2>1. /\ UNCHANGED <<db, broker, backend, sessEpoch, cb, wk, pubacked, faults>>
        /\ phase' = [phase EXCEPT ![b] = "off"] /\ targets' = [targets EXCEPT ![b] = {}]
    BY <1>5 DEF OnDisconnect
  <2> QED
    BY <1>1, <2>1, SameDb, SameNet, SameBackend, FaultsCounted, SessionKept DEF NoFault
<1>6. CASE SubackRefused(b)
  <2>1. /\ UNCHANGED <<db, broker, backend, sessEpoch, cb, wk, pubacked>>
        /\ phase' = [phase EXCEPT ![b] = "off"] /\ targets' = [targets EXCEPT ![b] = {}]
        /\ FaultsKept
    BY <1>6, FaultsCounted DEF SubackRefused, FaultKinds
  <2> QED
    BY <1>1, <2>1, SameDb, SameNet, SameBackend, SessionKept
<1>7. CASE IgnoreMessage(b)
  <2>1. /\ UNCHANGED <<db, session, inflight, ackQ, conn, published, released, backend, phase,
                       sessEpoch, targets, cb, wk, pubacked>>
        /\ wire # <<>> /\ wire' = Tail(wire) /\ FaultsKept
    BY <1>7, FaultsCounted DEF IgnoreMessage, FaultKinds, memory
  <2> QED
    BY <1>1, <2>1, SameDb, WireConsumed, SameBackend, SessionKept
<1> QED
  BY <1>2, <1>3, <1>4, <1>5, <1>6, <1>7 DEF SessionStep

(* A crash keeps the invariant: everything the database says stays true.    *)
LEMMA CrashInductive ==
  ASSUME IInv, NEW b \in Bridges, Crash(b)
  PROVE  IInv'
<1>1. /\ phase \in [Bridges -> {"off", "retryPresent", "retryClean", "pending", "ready"}]
      /\ sessEpoch \in [Bridges -> Epochs] /\ targets \in [Bridges -> SUBSET Keys]
      /\ rows \in [Keys -> Row \cup {None}] /\ BrokerTypeOK /\ pubacked \subseteq Deliveries
      /\ cb \in [Bridges -> CbRecord] /\ wk \in [Bridges -> WkRecord] /\ epoch \in Epochs
  BY DEF IInv, TypeOK, DbTypeOK, MemoryTypeOK
<1>2. /\ phase' = [phase EXCEPT ![b] = "off"] /\ sessEpoch' = [sessEpoch EXCEPT ![b] = epoch]
      /\ targets' = [targets EXCEPT ![b] = {}]
      /\ cb' = [cb EXCEPT ![b] = IdleCb] /\ wk' = [wk EXCEPT ![b] = IdleWk]
      /\ UNCHANGED <<epoch, packet, gens, minted, session, inflight, published, released,
                     backend, pubacked>>
      /\ FaultsKept
  BY FaultsCounted DEF Crash, FaultKinds
<1>3. RowsKept
  <2>1. ASSUME NEW k \in Keys
        PROVE  rows'[k] \in Row \cup {None} /\ (rows'[k] = None \/ SameWork(k))
    <3>1. rows'[k] = IF rows[k] # None /\ rows[k].claim = b
                     THEN [rows[k] EXCEPT !.claim = "dead"] ELSE rows[k]
      BY DEF Crash
    <3> QED
      BY ZenonT(60), <1>1, <3>1 DEF Row, SameWork
  <2> QED
    BY <2>1 DEF RowsKept, Crash
<1>4. NetKept
  <2>1. \/ conn' = None /\ wire' = <<>> /\ ackQ' = <<>>
        \/ UNCHANGED <<conn, wire, ackQ>>
    BY DEF Crash
  <2>2. BrokerTypeOK'
    <3>1. CASE conn' = None /\ wire' = <<>> /\ ackQ' = <<>>
      BY <1>1, <1>2, <3>1 DEF BrokerTypeOK
    <3>2. CASE UNCHANGED <<conn, wire, ackQ>>
      BY <1>1, <1>2, <3>2 DEF BrokerTypeOK
    <3> QED
      BY <2>1, <3>1, <3>2
  <2> QED
    BY <1>1, <1>2, <2>2 DEF NetKept
<1>5. DbKept /\ StoreKept
  BY <1>2, <1>3, SameGens, SameBackend
<1>6. MemoryTypeOK'
  BY <1>1, <1>2, Bounds DEF MemoryTypeOK
<1>7. ASSUME NEW c \in Bridges PROVE CbSafe(c)' /\ WkSafe(c)'
  <2>1. CASE c = b
    BY <1>1, <1>2, <2>1 DEF CbSafe, WkSafe, IdleCb, IdleWk
  <2>2. CASE c # b
    BY <1>1, <1>2, <1>5, <2>2, KeptCb, KeptWk
  <2> QED
    BY <2>1, <2>2
<1> QED
  BY <1>2, <1>4, <1>5, <1>6, <1>7, KeptStep

(* The broker and the network keep the invariant.                           *)
LEMMA NetworkInductive ==
  ASSUME IInv, (\E m \in Msgs : Publish(m)) \/ ReceivePuback \/ DropConnection \/ LoseSession
  PROVE  IInv'
<1>1. /\ UNCHANGED <<db, backend, memory, pubacked>> /\ FaultsKept
  BY FaultsCounted DEF Publish, ReceivePuback, DropConnection, LoseSession, NoFault, FaultKinds
<1>2. BrokerTypeOK /\ pubacked \subseteq Deliveries
  BY DEF IInv, TypeOK
<1>3. BrokerTypeOK'
  <2>1. ASSUME NEW m \in Msgs, Publish(m) PROVE BrokerTypeOK'
    <3>1. PICK mid \in Mids :
            /\ inflight' = [inflight EXCEPT ![mid] = m]
            /\ wire' = Append(wire, [mid |-> mid, msg |-> m, dup |-> FALSE])
      BY <2>1, BridgeAssumption DEF Publish
    <3>2. [mid |-> mid, msg |-> m, dup |-> FALSE] \in Publication
      BY DEF Publication
    <3> QED
      BY <1>2, <2>1, <3>1, <3>2 DEF Publish, BrokerTypeOK
  <2>2. CASE ReceivePuback
    <3>1. Head(ackQ) \in Mids /\ Tail(ackQ) \in Seq(Mids)
      BY <1>2, <2>2 DEF ReceivePuback, BrokerTypeOK
    <3> QED
      BY <1>2, <2>2, <3>1 DEF ReceivePuback, BrokerTypeOK
  <2>3. CASE DropConnection
    BY <1>2, <2>3 DEF DropConnection, BrokerTypeOK
  <2>4. CASE LoseSession
    BY <1>2, <2>4 DEF LoseSession, BrokerTypeOK
  <2> QED
    BY <2>1, <2>2, <2>3, <2>4
<1>4. NetKept
  BY <1>1, <1>2, <1>3 DEF NetKept
<1>5. DbKept /\ StoreKept
  BY <1>1, SameDb, SameBackend
<1> QED
  BY <1>1, <1>4, <1>5, SessionKept DEF memory, IInv, TypeOK, MemoryTypeOK

-----------------------------------------------------------------------------
(* A new database satisfies the invariant.                                  *)
LEMMA InitIInv == Init => IInv
<1> SUFFICES ASSUME Init PROVE IInv
  OBVIOUS
<1>1. MaxDeliveries \in Nat /\ MaxEpoch \in Nat \ {0}
  BY BridgeAssumption
<1>2. TypeOK
  <2>1. DbTypeOK
    BY <1>1 DEF Init, DbTypeOK, Epochs
  <2>2. BrokerTypeOK /\ BackendTypeOK
    <3>1. wire \in Seq(Publication) /\ ackQ \in Seq(Mids)
      BY DEF Init
    <3>2. inflight \in [Mids -> Msgs \cup {None}] /\ session \in BOOLEAN /\ conn \in {None}
      BY DEF Init
    <3> QED
      BY <3>1, <3>2 DEF Init, BrokerTypeOK, BackendTypeOK
  <2>3. MemoryTypeOK
    BY <1>1, Bounds DEF Init, MemoryTypeOK, Epochs
  <2> QED
    BY <2>1, <2>2, <2>3 DEF Init, TypeOK
<1>3. SafeInv
  <2>1. Known = {}
    BY DEF Init, Known
  <2> QED
    BY <2>1 DEF Init, SafeInv, PacketsKnown, GensSafe, AcksSafe, AckAfterStore, RowSafe,
                CbSafe, WkSafe, IdleCb, IdleWk
<1> QED
  BY <1>2, <1>3 DEF IInv

(* Every step keeps the invariant.                                          *)
LEMMA NextIInv == IInv /\ [Next]_vars => IInv'
<1> SUFFICES ASSUME IInv, [Next]_vars PROVE IInv'
  OBVIOUS
<1>1. CASE UNCHANGED vars
  BY <1>1, SameDb, SameNet, SameBackend, FaultsCounted, SessionKept
     DEF vars, memory, NoFault, IInv, TypeOK, MemoryTypeOK
<1>2. CASE Environment
  BY <1>2, NetworkInductive, CrashInductive, SessionInductive DEF Environment
<1>3. ASSUME NEW b \in Bridges,
             SessionStep(b) \/ IgnoreMessage(b) \/ CallbackStep(b) \/ WorkerStep(b)
      PROVE  IInv'
  BY <1>3, SessionInductive, CallbackInductive, OnMessageInductive, WorkerInductive
<1> QED
  BY <1>1, <1>2, <1>3 DEF Next

(* Every reachable state of the bridges, for any number of processes,       *)
(* messages, deliveries, epochs and faults, satisfies the invariant.        *)
THEOREM Invariance == Spec => []IInv
BY InitIInv, NextIInv, PTL DEF Spec

(* Every variable keeps its type.                                           *)
THEOREM TypeCorrect == Spec => []TypeOK
<1>1. IInv => TypeOK
  BY DEF IInv
<1> QED
  BY <1>1, Invariance, PTL

(* No PUBACK leaves any bridge before the backend stores the bytes: neither *)
(* complete_live_message, nor resume_pending_message and _complete, nor     *)
(* _complete_claimed can acknowledge early.                                 *)
THEOREM AckedIsStored == Spec => []AckAfterStore
<1>1. IInv => AckAfterStore
  BY DEF IInv, SafeInv, AcksSafe
<1> QED
  BY <1>1, Invariance, PTL

(* What the delivery table and the retry table say of a finished delivery   *)
(* is true of the backend: _set_delivery_state, enqueue and                 *)
(* _complete_claimed record only outcomes the backend gave.                 *)
THEOREM TerminalIsStored == Spec => []TerminalStored
<1>1. ASSUME IInv PROVE TerminalStored
  <2>1. ASSUME NEW p, NEW out \in Outcomes, p \in StoreOf(out)
        PROVE  out # "" /\ OutcomeIsReal(p, out)
    BY <2>1 DEF StoreOf, OutcomeIsReal, Outcomes
  <2>2. ASSUME NEW p PROVE OutcomeIsReal(p, "")
    BY DEF OutcomeIsReal
  <2>3. ASSUME NEW d \in Deliveries, gens[d] # None
        PROVE  /\ gens[d].state # "active" => gens[d].outcome # ""
               /\ OutcomeIsReal(packet[d].payload, gens[d].outcome)
    BY <1>1, <2>1, <2>2, <2>3 DEF IInv, SafeInv, GensSafe, Stands
  <2>4. ASSUME NEW k \in Keys, rows[k] # None
        PROVE  /\ rows[k].completed => rows[k].outcome # ""
               /\ OutcomeIsReal(packet[k[2]].payload, rows[k].outcome)
    BY <1>1, <2>1, <2>2, <2>4 DEF IInv, SafeInv, RowSafe, Stands
  <2> QED
    BY <2>3, <2>4 DEF TerminalStored
<1> QED
  BY <1>1, Invariance, PTL

-----------------------------------------------------------------------------
(* The tables that the threads share.  What a step that neither draws a      *)
(* delivery id nor inserts a row may do to them: it changes no identity,     *)
(* forgets only void ones that no row refers to, and gates no row.           *)
GensHeld ==
  /\ packet' = packet
  /\ \A d \in Deliveries :
       /\ gens'[d] # None => gens[d] # None /\ gens'[d].active = gens[d].active
       /\ gens[d] # None /\ gens'[d] = None => ~gens[d].active /\ Unreferenced(d, rows')
RowsHeld ==
  \A k \in Keys : rows'[k] # None => rows[k] # None /\ (rows'[k].awaiting => rows[k].awaiting)
CallbacksHeld ==
  \A b \in Bridges :
    cb'[b].pc # "idle" => /\ cb[b].pc # "idle" /\ cb'[b].d = cb[b].d
                          /\ cb'[b].pc = "defer" => cb[b].pc = "defer"
TablesHeld == GensHeld /\ RowsHeld /\ CallbacksHeld /\ phase' = phase

(* What the tables say while one bridge uses them: a callback works on an    *)
(* identity that is live, and on one session; and it gates a row only before *)
(* its SUBACK.                                                               *)
CallbacksLive ==
  \A b \in Bridges : cb[b].pc # "idle" =>
    /\ phase[b] \notin {"retryPresent", "retryClean"}
    /\ gens[cb[b].d] # None /\ gens[cb[b].d].active
    /\ cb[b].pc = "defer" => phase[b] = "pending"
TablesInv == RowsHaveGeneration /\ ReadyIsUngated /\ CallbacksLive

(* A step that holds the tables keeps the invariant.                         *)
LEMMA HeldTables ==
  ASSUME IInv, TablesInv, TablesHeld
  PROVE  TablesInv'
<1>1. ASSUME NEW k \in Keys, rows'[k] # None PROVE gens'[k[2]] # None
  <2>1. k[2] \in Deliveries /\ k[1] \in Ops /\ k = <<k[1], k[2]>>
    BY DEF Keys
  <2>2. gens[k[2]] # None
    BY <1>1 DEF TablesInv, RowsHaveGeneration, TablesHeld, RowsHeld
  <2>3. ~Unreferenced(k[2], rows')
    BY <1>1, <2>1 DEF Unreferenced
  <2> QED
    BY <2>1, <2>2, <2>3 DEF TablesHeld, GensHeld
<1>2. ReadyIsUngated'
  BY DEF TablesInv, ReadyIsUngated, TablesHeld, RowsHeld
<1>3. CallbacksLive'
  <2> SUFFICES ASSUME NEW b \in Bridges, cb'[b].pc # "idle"
               PROVE  /\ phase'[b] \notin {"retryPresent", "retryClean"}
                      /\ gens'[cb'[b].d] # None /\ gens'[cb'[b].d].active
                      /\ cb'[b].pc = "defer" => phase'[b] = "pending"
    BY DEF CallbacksLive
  <2>1. /\ cb[b].pc # "idle" /\ cb'[b].d = cb[b].d /\ phase' = phase
        /\ cb'[b].pc = "defer" => cb[b].pc = "defer"
    BY DEF TablesHeld, CallbacksHeld
  <2>2. cb[b].d \in Deliveries
    BY <2>1, CbInHand, KnownDeliveries
  <2>3. gens[cb[b].d] # None /\ gens[cb[b].d].active
    BY <2>1 DEF TablesInv, CallbacksLive
  <2>4. gens'[cb[b].d] # None /\ gens'[cb[b].d].active
    BY <2>2, <2>3 DEF TablesHeld, GensHeld
  <2> QED
    BY <2>1, <2>4 DEF TablesInv, CallbacksLive
<1> QED
  BY <1>1, <1>2, <1>3 DEF TablesInv, RowsHaveGeneration

(* Garbage collection forgets only void identities that no row refers to.   *)
LEMMA PrunedIsUnused ==
  ASSUME NEW g \in [Deliveries -> Gen \cup {None}], NEW r,
         NEW h \in MaybePruned(g, r), NEW d \in Deliveries, h[d] # g[d]
  PROVE  h[d] = None /\ ~g[d].active /\ Unreferenced(d, r)
<1>1. h \in Pruned(g, r)
  BY DEF MaybePruned
<1>2. PICK S \in SUBSET Prunable(g, r) : h = [e \in Deliveries |-> IF e \in S THEN None ELSE g[e]]
  <2>1. PICK old \in SUBSET {e \in Prunable(g, r) : g[e].state = "acked"} :
          h = [e \in Deliveries |->
                 IF e \in {x \in Prunable(g, r) : g[x].state # "acked"} \cup old
                 THEN None ELSE g[e]]
    BY <1>1 DEF Pruned
  <2> QED
    BY <2>1
<1> QED
  BY <1>2 DEF Prunable

LEMMA SameTables ==
  ASSUME UNCHANGED db
  PROVE  GensHeld /\ RowsHeld
BY DEF db, GensHeld, RowsHeld

LEMMA PrunedHeld ==
  ASSUME IInv, packet' = packet, gens' \in MaybePruned(gens, rows')
  PROVE  GensHeld
<1>1. gens \in [Deliveries -> Gen \cup {None}]
  BY DEF IInv, TypeOK, DbTypeOK
<1> QED
  BY <1>1, PrunedIsUnused DEF GensHeld

(* _set_delivery_state changes no identity either.                           *)
LEMMA RecordedIsHeld ==
  ASSUME IInv, NEW d \in Known, gens[d] # None, NEW s \in {"terminal", "acked"},
         NEW out \in Outcomes \cup {""}, NEW r,
         NEW h \in MaybePruned(WithState(gens, d, s, out), r), NEW e \in Deliveries
  PROVE  /\ h[e] # None => gens[e] # None /\ h[e].active = gens[e].active
         /\ gens[e] # None /\ h[e] = None => ~gens[e].active /\ Unreferenced(e, r)
<1> DEFINE g == WithState(gens, d, s, out)
<1>1. gens \in [Deliveries -> Gen \cup {None}] /\ d \in Deliveries
  BY KnownDeliveries DEF IInv, TypeOK, DbTypeOK
<1>2. /\ g \in [Deliveries -> Gen \cup {None}]
      /\ g[e] = None <=> gens[e] = None
      /\ gens[e] # None => g[e].active = gens[e].active
  <2>1. gens[d] \in Gen
    BY <1>1
  <2>2. /\ g \in [Deliveries -> Gen \cup {None}]
        /\ e # d => g[e] = gens[e]
        /\ g[d] \in Gen /\ g[d].active = gens[d].active
    BY <1>1, <2>1 DEF WithState, Gen
  <2>3. None \notin Gen
    BY BridgeAssumption
  <2> HIDE DEF g
  <2> QED
    BY <1>1, <2>2, <2>3
<1> HIDE DEF g
<1>3. h[e] # g[e] => h[e] = None /\ ~g[e].active /\ Unreferenced(e, r)
  BY <1>2, PrunedIsUnused DEF g
<1> QED
  BY <1>2, <1>3

LEMMA TerminalIsHeld ==
  ASSUME IInv, NEW d \in Known, gens[d] # None, NEW out \in Outcomes \cup {""},
         NEW h, h \in MaybePruned(WithState(gens, d, "terminal", out), rows)
  PROVE  \A e \in Deliveries :
           /\ h[e] # None => gens[e] # None /\ h[e].active = gens[e].active
           /\ gens[e] # None /\ h[e] = None => ~gens[e].active
<1>1. PICK s \in {"terminal", "acked"} : s = "terminal"
  OBVIOUS
<1>2. PICK r : r = rows
  OBVIOUS
<1>3. h \in MaybePruned(WithState(gens, d, s, out), r)
  BY <1>1, <1>2
<1>4. ASSUME NEW e \in Deliveries
      PROVE  /\ h[e] # None => gens[e] # None /\ h[e].active = gens[e].active
             /\ gens[e] # None /\ h[e] = None => ~gens[e].active /\ Unreferenced(e, r)
  BY <1>3, RecordedIsHeld
<1> QED
  BY <1>4

LEMMA SetStateHeld ==
  ASSUME IInv, NEW d \in Known, NEW s \in {"terminal", "acked"},
         NEW out \in Outcomes \cup {""}, SetState(d, s, out)
  PROVE  GensHeld /\ RowsHeld
<1>1. /\ gens[d] # None /\ UNCHANGED <<packet, rows>>
      /\ gens' \in MaybePruned(WithState(gens, d, s, out), rows)
  BY DEF SetState
<1>2. ASSUME NEW e \in Deliveries
      PROVE  /\ gens'[e] # None => gens[e] # None /\ gens'[e].active = gens[e].active
             /\ gens[e] # None /\ gens'[e] = None => ~gens[e].active /\ Unreferenced(e, rows)
  BY <1>1, RecordedIsHeld
<1>3. \A e \in Deliveries : Unreferenced(e, rows) => Unreferenced(e, rows')
  BY <1>1 DEF Unreferenced
<1> QED
  BY <1>1, <1>2, <1>3 DEF GensHeld, RowsHeld

(* A callback that goes on or ends keeps its delivery.                       *)
LEMMA CallbackGoes ==
  ASSUME IInv, NEW b \in Bridges, cb[b].pc # "idle",
         \A c \in Bridges \ {b} : cb'[c] = cb[c],
         cb'[b].pc # "idle" => cb'[b].d = cb[b].d /\ cb'[b].pc # "defer"
  PROVE  CallbacksHeld
BY DEF CallbacksHeld

LEMMA CallbackSteps ==
  ASSUME IInv, NEW b \in Bridges, cb[b].pc # "idle",
         \/ CbDone(b)
         \/ \E pc \in CbPcs \ {"defer"} : CbGoto(b, pc)
  PROVE  CallbacksHeld
<1>1. cb \in [Bridges -> CbRecord]
  BY CbInHand
<1>2. CASE CbDone(b)
  BY <1>1, <1>2, CallbackGoes DEF CbDone, IdleCb
<1>3. ASSUME NEW pc \in CbPcs \ {"defer"}, CbGoto(b, pc) PROVE CallbacksHeld
  <2>1. cb[b] \in CbRecord
    BY <1>1
  <2>2. /\ \A c \in Bridges \ {b} : cb'[c] = cb[c]
        /\ cb'[b].pc = pc /\ cb'[b].d = cb[b].d
    BY <1>1, <1>3, <2>1 DEF CbGoto, CbRecord
  <2> QED
    BY <1>3, <2>2, CallbackGoes
<1> QED
  BY <1>2, <1>3

LEMMA SameRows ==
  ASSUME IInv, UNCHANGED <<packet, gens>> PROVE GensHeld
BY DEF GensHeld

LEMMA MarkAttemptedHeld ==
  ASSUME IInv, NEW b \in Bridges, NEW a \in BOOLEAN, MarkAttempted(b, a)
  PROVE  GensHeld /\ RowsHeld
<1>1. rows \in [Keys -> Row \cup {None}]
  BY DEF IInv, TypeOK, DbTypeOK
<1>2. ASSUME NEW k \in Keys, rows'[k] # None
      PROVE  rows[k] # None /\ (rows'[k].awaiting => rows[k].awaiting)
  <2>1. CASE rows[k] = None
    BY <1>2, <2>1 DEF MarkAttempted, WithAttempt
  <2>2. CASE rows[k] # None
    <3>1. rows[k] \in Row
      BY <1>1, <2>2
    <3>2. rows'[k].awaiting = rows[k].awaiting
      BY <3>1 DEF MarkAttempted, WithAttempt, Row
    <3> QED
      BY <2>2, <3>2
  <2> QED
    BY <2>1, <2>2
<1> QED
  BY <1>2, SameRows DEF MarkAttempted, RowsHeld

LEMMA RowsRemovedHeld ==
  ASSUME IInv, NEW S, rows' = WithoutRows(rows, S)
  PROVE  RowsHeld
BY DEF WithoutRows, RowsHeld

(* Every callback step that inserts no row holds the tables.                 *)
LEMMA CallbackHolds ==
  ASSUME IInv, NEW b \in Bridges, CallbackStep(b),
         ~OnMessage(b), ~DeferUnapproved(b), ~LiveEnqueue(b)
  PROVE  TablesHeld
<1>1. /\ cb \in [Bridges -> CbRecord] /\ cb[b] \in CbRecord /\ CbSafe(b)
      /\ rows \in [Keys -> Row \cup {None}]
  BY CbInHand DEF IInv, SafeInv, TypeOK, DbTypeOK
<1>2. CASE ResumeTerminal(b)
  <2>1. UNCHANGED db /\ phase' = phase /\ cb[b].pc # "idle" /\ CbGoto(b, "rintent")
    BY SMTT(60), <1>2 DEF ResumeTerminal, CbAt, CbGoto
  <2> QED
    BY <2>1, SameTables, CallbackSteps DEF TablesHeld, CbPcs
<1>3. CASE ResumeRow(b)
  <2>1. /\ phase' = phase /\ cb[b].pc # "idle" /\ cb[b].d \in Known /\ cb[b].d \in Deliveries
    BY <1>1, <1>3, KnownDeliveries DEF ResumeRow, CbAt, CbSafe
  <2>2. CASE CbGoto(b, "forward") /\ UNCHANGED db
    BY <2>1, <2>2, SameTables, CallbackSteps DEF TablesHeld, CbPcs
  <2>3. CASE CbFault(b)
    BY <2>1, <2>3, SameTables, CallbackSteps DEF TablesHeld, CbFault
  <2>4. ASSUME NEW op \in Ops, NEW key, key = <<op, cb[b].d>>, rows[key] # None,
               rows' = [rows EXCEPT ![key].qos = 1],
               \/ cb' = [cb EXCEPT ![b].pc = "cterm", ![b].op = op,
                                   ![b].out = rows[key].outcome,
                                   ![b].st = IF rows[key].acknowledged
                                             THEN "acked" ELSE "terminal"]
               \/ CbDone(b),
               UNCHANGED <<epoch, packet, gens, minted>>
        PROVE  TablesHeld
    <3>1. key \in Keys /\ rows[key] \in Row
      BY <1>1, <2>1, <2>4 DEF Keys
    <3>2. RowsHeld
      BY <1>1, <2>4, <3>1 DEF RowsHeld, Row
    <3>3. CallbacksHeld
      <4>1. CASE CbDone(b)
        BY <2>1, <4>1, CallbackSteps
      <4>2. CASE cb' = [cb EXCEPT ![b].pc = "cterm", ![b].op = op,
                                   ![b].out = rows[key].outcome,
                                   ![b].st = IF rows[key].acknowledged
                                             THEN "acked" ELSE "terminal"]
        <5>1. /\ \A c \in Bridges \ {b} : cb'[c] = cb[c]
              /\ cb'[b].d = cb[b].d /\ cb'[b].pc = "cterm"
          BY <1>1, <4>2 DEF CbRecord
        <5> QED
          BY <2>1, <5>1, CallbackGoes
      <4> QED
        BY <2>4, <4>1, <4>2
    <3> QED
      BY <2>1, <2>4, <3>2, <3>3, SameRows DEF TablesHeld
  <2> QED
    BY <1>3, <2>2, <2>3, <2>4 DEF ResumeRow, CbDone
<1>4. CASE ResumeIntent(b)
  <2>1. phase' = phase /\ cb[b].pc # "idle"
    BY <1>4 DEF ResumeIntent
  <2>2. CASE CbFault(b)
    BY <2>1, <2>2, SameTables, CallbackSteps DEF TablesHeld, CbFault
  <2>3. ASSUME NEW pc \in {"rack", "cack"}, MarkAttempted(b, TRUE), CbGoto(b, pc)
        PROVE  TablesHeld
    BY <2>1, <2>3, MarkAttemptedHeld, CallbackSteps DEF TablesHeld, CbPcs
  <2> QED
    BY <1>4, <2>2, <2>3 DEF ResumeIntent
<1>5. CASE ResumeAck(b)
  <2>1. /\ phase' = phase /\ cb[b].pc # "idle" /\ UNCHANGED db
        /\ CbGoto(b, "racked") \/ CbGoto(b, "runack")
    BY <1>5 DEF ResumeAck, CbAt
  <2> QED
    BY <2>1, SameTables, CallbackSteps DEF TablesHeld, CbPcs
<1>6. CASE ResumeUnack(b)
  <2>1. /\ phase' = phase /\ cb[b].pc # "idle"
        /\ MarkAttempted(b, FALSE) \/ UNCHANGED db
        /\ cb' = [cb EXCEPT ![b].pc = "enqueue", ![b].op = OutcomeOp(cb[b].out)]
    BY <1>6 DEF ResumeUnack, CbAt
  <2>2. GensHeld /\ RowsHeld
    BY <2>1, SameTables, MarkAttemptedHeld
  <2>3. /\ \A c \in Bridges \ {b} : cb'[c] = cb[c]
        /\ cb'[b].d = cb[b].d /\ cb'[b].pc = "enqueue"
    BY <1>1, <2>1 DEF CbRecord
  <2> QED
    BY <2>1, <2>2, <2>3, CallbackGoes DEF TablesHeld
<1>7. ASSUME NEW s \in {"terminal", "acked"}, cb[b].pc # "idle", phase' = phase,
             Stands(cb[b].d, cb[b].out),
             SetState(cb[b].d, s, cb[b].out) \/ UNCHANGED db,
             CbDone(b) \/ \E pc \in CbPcs \ {"defer"} : CbGoto(b, pc)
      PROVE  TablesHeld
  <2>1. cb[b].d \in Known /\ cb[b].out \in Outcomes \cup {""}
    BY <1>7, CbInHand DEF Stands
  <2>2. GensHeld /\ RowsHeld
    BY <1>7, <2>1, SetStateHeld, SameTables
  <2> QED
    BY <1>7, <2>2, CallbackSteps DEF TablesHeld
<1>8. CASE ResumeAcked(b)
  BY <1>1, <1>7, <1>8 DEF ResumeAcked, CbAt, CbSafe, CbPcs
<1>9. CASE CompleteTerminal(b)
  BY <1>1, <1>7, <1>9 DEF CompleteTerminal, CbAt, CbSafe, CbPcs
<1>10. CASE LiveTerminal(b)
  BY <1>1, <1>7, <1>10 DEF LiveTerminal, CbAt, CbSafe, CbPcs
<1>11. CASE LiveAcked(b)
  BY <1>1, <1>7, <1>11 DEF LiveAcked, CbSafe
<1>12. CASE ResumeDelete(b)
  <2>1. /\ phase' = phase /\ cb[b].pc # "idle" /\ CbDone(b)
        /\ \/ /\ rows' = WithoutRows(rows, Ops \X {cb[b].d})
              /\ gens' \in MaybePruned(gens, rows') /\ packet' = packet
           \/ UNCHANGED db
    BY <1>12 DEF ResumeDelete, CbAt
  <2>2. GensHeld /\ RowsHeld
    BY <2>1, SameTables, PrunedHeld, RowsRemovedHeld
  <2> QED
    BY <2>1, <2>2, CallbackSteps DEF TablesHeld
<1>13. CASE CompleteAck(b)
  <2>1. /\ phase' = phase /\ cb[b].pc # "idle" /\ UNCHANGED db
        /\ CbGoto(b, "cmark") \/ CbGoto(b, "cunack")
    BY <1>13 DEF CompleteAck, CbAt
  <2> QED
    BY <2>1, SameTables, CallbackSteps DEF TablesHeld, CbPcs
<1>14. CASE CompleteUnack(b)
  <2>1. /\ phase' = phase /\ cb[b].pc # "idle" /\ CbDone(b)
        /\ \/ /\ rows' = [WithAttempt(rows, cb[b].d, FALSE)
                            EXCEPT ![CbKey(b)] = IF @ = None THEN None ELSE [@ EXCEPT !.claim = ""]]
              /\ UNCHANGED <<packet, gens>>
           \/ UNCHANGED db
    BY <1>14 DEF CompleteUnack, CbFault, CbAt
  <2>2. CASE UNCHANGED db
    BY <2>1, <2>2, SameTables, CallbackSteps DEF TablesHeld
  <2>3. CASE /\ rows' = [WithAttempt(rows, cb[b].d, FALSE)
                            EXCEPT ![CbKey(b)] = IF @ = None THEN None ELSE [@ EXCEPT !.claim = ""]]
             /\ UNCHANGED <<packet, gens>>
    <3> DEFINE tried == WithAttempt(rows, cb[b].d, FALSE)
    <3>1. ASSUME NEW k \in Keys
          PROVE  /\ rows[k] = None => tried[k] = None
                 /\ rows[k] # None => tried[k] \in Row /\ tried[k].awaiting = rows[k].awaiting
      BY <1>1 DEF WithAttempt, Row
    <3>2. tried = [k \in Keys |-> tried[k]] /\ CbKey(b) \in Keys
      BY <2>1, CbInHand DEF WithAttempt
    <3>3. RowsHeld
      <4> HIDE DEF tried
      <4>1. rows' = [tried EXCEPT ![CbKey(b)] =
                       IF @ = None THEN None ELSE [@ EXCEPT !.claim = ""]]
        BY <2>3 DEF tried
      <4>2. ASSUME NEW k \in Keys, rows'[k] # None
            PROVE  rows[k] # None /\ (rows'[k].awaiting => rows[k].awaiting)
        <5>1. rows'[k] = IF k = CbKey(b) /\ tried[k] # None
                         THEN [tried[k] EXCEPT !.claim = ""] ELSE tried[k]
          <6>1. CASE k = CbKey(b)
            BY <3>2, <4>1, <6>1
          <6>2. CASE k # CbKey(b)
            BY <3>2, <4>1, <6>2
          <6> QED BY <6>1, <6>2
        <5>2. rows[k] # None
          BY <3>1, <4>2, <5>1
        <5>3. tried[k] \in Row /\ tried[k].awaiting = rows[k].awaiting
          BY <3>1, <5>2
        <5>4. rows'[k].awaiting = tried[k].awaiting
          BY <5>1, <5>3 DEF Row
        <5> QED
          BY <5>2, <5>3, <5>4
      <4> QED
        BY <4>2 DEF RowsHeld
    <3> QED
      BY <2>1, <2>3, <3>3, SameRows, CallbackSteps DEF TablesHeld
  <2> QED
    BY <2>1, <2>2, <2>3
<1>15. CASE CompleteMark(b)
  <2>1. /\ phase' = phase /\ cb[b].pc # "idle" /\ CbKey(b) \in Keys
        /\ CbGoto(b, "cdelete") \/ CbDone(b)
        /\ \/ /\ rows' = [rows EXCEPT ![CbKey(b)] =
                            IF @ = None THEN None ELSE [@ EXCEPT !.acknowledged = TRUE]]
              /\ UNCHANGED <<packet, gens>>
           \/ UNCHANGED db
    BY <1>15, CbInHand DEF CompleteMark, CbAt
  <2>2. GensHeld /\ RowsHeld
    <3>1. CASE UNCHANGED db
      BY <3>1, SameTables
    <3>2. CASE /\ rows' = [rows EXCEPT ![CbKey(b)] =
                             IF @ = None THEN None ELSE [@ EXCEPT !.acknowledged = TRUE]]
               /\ UNCHANGED <<packet, gens>>
      <4>1. RowsHeld
        BY ZenonT(60), <1>1, <2>1, <3>2 DEF RowsHeld, Row
      <4> QED
        BY <3>2, <4>1, SameRows
    <3> QED
      BY <2>1, <3>1, <3>2
  <2> QED
    BY <2>1, <2>2, CallbackSteps DEF TablesHeld, CbPcs
<1>16. CASE CompleteDelete(b)
  <2>1. /\ phase' = phase /\ cb[b].pc # "idle" /\ CbGoto(b, "cacked")
        /\ \/ rows' = WithoutRows(rows, {CbKey(b)}) /\ UNCHANGED <<packet, gens>>
           \/ UNCHANGED db
    BY <1>16 DEF CompleteDelete, CbAt
  <2>2. GensHeld /\ RowsHeld
    BY <2>1, SameTables, SameRows, RowsRemovedHeld
  <2> QED
    BY <2>1, <2>2, CallbackSteps DEF TablesHeld, CbPcs
<1>17. CASE LiveAck(b)
  <2>1. /\ phase' = phase /\ cb[b].pc # "idle" /\ UNCHANGED db
        /\ CbGoto(b, "acked") \/ CbGoto(b, "enqueue")
    BY <1>17 DEF LiveAck, CbAt
  <2> QED
    BY <2>1, SameTables, CallbackSteps DEF TablesHeld, CbPcs
<1>18. CASE LiveForward(b) \/ LiveQuarantine(b)
  <2>1. phase' = phase /\ cb[b].pc # "idle" /\ UNCHANGED db
    BY <1>18 DEF LiveForward, LiveQuarantine, CbAt
  <2>2. /\ \A c \in Bridges \ {b} : cb'[c] = cb[c]
        /\ cb'[b].d = cb[b].d /\ cb'[b].pc # "defer"
    <3> DEFINE Ends(pc, op, out) == cb' = [cb EXCEPT ![b].pc = pc, ![b].op = op, ![b].out = out]
    <3>1. \/ CbGoto(b, "quarantine")
          \/ \E pc \in {"enqueue", "terminal"} : \E op, out : Ends(pc, op, out)
      <4>1. CASE LiveForward(b)
        <5>1. CASE CbPayload(b) \in Malformed
          BY <4>1, <5>1 DEF LiveForward
        <5>2. CASE CbPayload(b) \notin Malformed
          <6>1. PICK result \in Outcomes \cup {"retry"} :
                  cb' = IF result = "retry"
                        THEN [cb EXCEPT ![b].pc = "enqueue", ![b].op = "ingest", ![b].out = ""]
                        ELSE [cb EXCEPT ![b].pc = "terminal", ![b].op = OutcomeOp(result),
                                        ![b].out = result]
            BY <4>1, <5>2 DEF LiveForward
          <6>2. Ends("enqueue", "ingest", "") \/ Ends("terminal", OutcomeOp(result), result)
            BY <6>1
          <6> QED BY <6>2
        <5> QED BY <5>1, <5>2
      <4>2. CASE LiveQuarantine(b)
        <5>1. PICK result \in {"quarantined", "retry"} :
                cb' = [cb EXCEPT ![b].pc = IF result = "retry" THEN "enqueue" ELSE "terminal",
                                 ![b].op = "quarantine",
                                 ![b].out = IF result = "retry" THEN "" ELSE result]
          BY <4>2 DEF LiveQuarantine
        <5>2. Ends(IF result = "retry" THEN "enqueue" ELSE "terminal", "quarantine",
                   IF result = "retry" THEN "" ELSE result)
          BY <5>1
        <5>3. (IF result = "retry" THEN "enqueue" ELSE "terminal") \in {"enqueue", "terminal"}
          OBVIOUS
        <5> HIDE DEF Ends
        <5> QED BY <5>2, <5>3
      <4> QED BY <1>18, <4>1, <4>2
    <3>2. CASE CbGoto(b, "quarantine")
      BY <1>1, <3>2 DEF CbGoto, CbRecord
    <3>3. ASSUME NEW pc \in {"enqueue", "terminal"}, NEW op, NEW out, Ends(pc, op, out)
          PROVE  /\ \A c \in Bridges \ {b} : cb'[c] = cb[c]
                 /\ cb'[b].d = cb[b].d /\ cb'[b].pc # "defer"
      BY <1>1, <3>3 DEF CbRecord
    <3> QED BY <3>1, <3>2, <3>3
  <2> QED
    BY <2>1, <2>2, SameTables, CallbackGoes DEF TablesHeld
<1> QED
  BY <1>2, <1>3, <1>4, <1>5, <1>6, <1>8, <1>9, <1>10, <1>11, <1>12, <1>13, <1>14, <1>15, <1>16,
     <1>17, <1>18 DEF CallbackStep

(* Every worker step holds the tables.                                       *)
LEMMA WorkerHolds ==
  ASSUME IInv, NEW b \in Bridges, WorkerStep(b)
  PROVE  TablesHeld
<1>1. /\ wk \in [Bridges -> WkRecord] /\ WkSafe(b)
      /\ rows \in [Keys -> Row \cup {None}]
  BY SMTT(60), WkInHand
<1>2. phase' = phase /\ cb' = cb
  BY ZenonT(60)
  DEF WorkerStep, PollDue, ClaimRow, ClaimNothing, LookUp, RetryPost, RetryTerminal, FenceRow,
         AckIntent, RetryAck, RetryUnack, MarkAcknowledged, SettleAcked, DeleteRow,
         RescheduleClaimed, ReleaseClaim
<1>3. CallbacksHeld
  BY <1>2 DEF CallbacksHeld
<1>4. ASSUME NEW k \in Keys, NEW row \in Row, UNCHANGED <<packet, gens>>, rows[k] # None,
             rows' = [rows EXCEPT ![k] = row], row.awaiting = rows[k].awaiting
      PROVE  TablesHeld
  BY <1>1, <1>2, <1>3, <1>4, SameRows DEF RowsHeld, TablesHeld
<1>5. CASE UNCHANGED db
  BY <1>2, <1>3, <1>5, SameTables DEF TablesHeld
<1>6. CASE PollDue(b) \/ ClaimNothing(b) \/ LookUp(b) \/ RetryPost(b) \/ RetryAck(b)
  BY <1>5, <1>6 DEF PollDue, ClaimNothing, LookUp, RetryPost, RetryAck
<1>7. ASSUME NEW k \in Keys, ClaimRow(b, k) PROVE TablesHeld
  <2>1. rows[k] # None /\ rows[k] \in Row /\ UNCHANGED <<packet, gens>>
        /\ rows' = [rows EXCEPT ![k] = [rows[k] EXCEPT !.claim = b]]
    BY <1>1, <1>7 DEF ClaimRow
  <2>2. [rows[k] EXCEPT !.claim = b] \in Row
        /\ [rows[k] EXCEPT !.claim = b].awaiting = rows[k].awaiting
    BY <2>1 DEF Row
  <2> QED
    BY <1>4, <2>1, <2>2
<1>8. CASE RetryTerminal(b)
  <2>1. /\ wk[b].d \in Known /\ wk[b].out \in Outcomes
        /\ SetState(wk[b].d, "terminal", wk[b].out) \/ UNCHANGED db
    BY <1>1, <1>8 DEF RetryTerminal, WkAt, WkSafe, Stands
  <2> QED
    BY <1>2, <1>3, <1>5, <2>1, SetStateHeld DEF TablesHeld
<1>9. CASE SettleAcked(b)
  <2>1. /\ wk[b].d \in Known /\ wk[b].out \in Outcomes
        /\ SetState(wk[b].d, "acked", wk[b].out) \/ UNCHANGED db
    BY <1>1, <1>9 DEF SettleAcked, WkAt, WkSafe, Stands
  <2> QED
    BY <1>2, <1>3, <1>5, <2>1, SetStateHeld DEF TablesHeld
<1>10. wk[b].pc \notin {"idle", "claim"} => WkKey(b) \in Keys
  BY WkInHand
<1>11. CASE FenceRow(b)
  <2>1. WkKey(b) \in Keys
    BY <1>10, <1>11 DEF FenceRow, WkAt
  <2> DEFINE key == WkKey(b)
             done == [rows EXCEPT ![key].completed = TRUE, ![key].outcome = wk[b].out]
  <2>2. CASE Owns(b) /\ UNCHANGED <<packet, gens>>
             /\ (rows' = done \/ rows' = [done EXCEPT ![key].claim = ""])
    <3>1. rows[key] # None /\ rows[key] \in Row
      BY <1>1, <2>1, <2>2 DEF Owns
    <3>2. wk[b].out \in Outcomes
      BY <1>1, <1>11 DEF FenceRow, WkAt, WkSafe, Stands
    <3> DEFINE row1 == [rows[key] EXCEPT !.completed = TRUE, !.outcome = wk[b].out]
               row2 == [row1 EXCEPT !.claim = ""]
    <3>3. row1 \in Row /\ row2 \in Row
          /\ row1.awaiting = rows[key].awaiting /\ row2.awaiting = rows[key].awaiting
      BY <3>1, <3>2 DEF Row
    <3>4. rows' = [rows EXCEPT ![key] = row1] \/ rows' = [rows EXCEPT ![key] = row2]
      BY <1>1, <2>1, <2>2
    <3> HIDE DEF row1, row2, key
    <3> QED
      BY <1>4, <2>1, <2>2, <3>1, <3>3, <3>4 DEF key
  <2> QED
    BY <1>5, <1>11, <2>2 DEF FenceRow
<1>12. CASE AckIntent(b)
  <2>1. WkKey(b) \in Keys
    BY <1>10, <1>12 DEF AckIntent, WkAt
  <2>2. CASE Owns(b) /\ UNCHANGED <<packet, gens>>
             /\ rows' = [rows EXCEPT ![WkKey(b)].attempted = TRUE]
    <3>1. rows[WkKey(b)] # None /\ rows[WkKey(b)] \in Row
      BY <1>1, <2>1, <2>2 DEF Owns
    <3>2. /\ [rows[WkKey(b)] EXCEPT !.attempted = TRUE] \in Row
          /\ [rows[WkKey(b)] EXCEPT !.attempted = TRUE].awaiting = rows[WkKey(b)].awaiting
      BY <3>1 DEF Row
    <3> QED
      BY <1>4, <2>1, <2>2, <3>1, <3>2
  <2> QED
    BY <1>5, <1>12, <2>2 DEF AckIntent
<1>13. CASE RetryUnack(b)
  <2>1. WkKey(b) \in Keys /\ UNCHANGED <<epoch, packet, gens, minted>>
    BY <1>10, <1>13 DEF RetryUnack, WkAt
  <2>2. CASE Owns(b) /\ rows' = [rows EXCEPT ![WkKey(b)].attempted = FALSE]
    <3>1. rows[WkKey(b)] # None /\ rows[WkKey(b)] \in Row
      BY <1>1, <2>1, <2>2 DEF Owns
    <3>2. /\ [rows[WkKey(b)] EXCEPT !.attempted = FALSE] \in Row
          /\ [rows[WkKey(b)] EXCEPT !.attempted = FALSE].awaiting = rows[WkKey(b)].awaiting
      BY <3>1 DEF Row
    <3> QED
      BY <1>4, <2>1, <2>2, <3>1, <3>2
  <2>3. CASE rows' = rows
    BY <1>5, <2>1, <2>3 DEF db
  <2> QED
    BY <1>13, <2>2, <2>3 DEF RetryUnack
<1>14. CASE MarkAcknowledged(b)
  <2>1. WkKey(b) \in Keys
    BY <1>10, <1>14 DEF MarkAcknowledged, WkAt
  <2>2. CASE /\ UNCHANGED <<epoch, packet, gens, minted>>
             /\ rows' = [rows EXCEPT ![WkKey(b)] =
                           IF @ = None THEN None ELSE [@ EXCEPT !.acknowledged = TRUE]]
    <3>1. CASE rows[WkKey(b)] = None
      <4>1. rows' = rows
        BY <1>1, <2>1, <2>2, <3>1
      <4> QED
        BY <1>5, <2>2, <4>1 DEF db
    <3>2. CASE rows[WkKey(b)] # None
      <4>1. rows[WkKey(b)] \in Row
        BY <1>1, <2>1, <3>2
      <4>2. /\ [rows[WkKey(b)] EXCEPT !.acknowledged = TRUE] \in Row
            /\ [rows[WkKey(b)] EXCEPT !.acknowledged = TRUE].awaiting = rows[WkKey(b)].awaiting
        BY <4>1 DEF Row
      <4> QED
        BY <1>4, <2>1, <2>2, <3>2, <4>2
    <3> QED
      BY <3>1, <3>2
  <2> QED
    BY <1>5, <1>14, <2>2 DEF MarkAcknowledged
<1>15. CASE DeleteRow(b)
  <2>1. CASE UNCHANGED db
    BY <1>5, <2>1
  <2>2. CASE /\ rows' = IF Owns(b) THEN WithoutRows(rows, {WkKey(b)}) ELSE rows
             /\ gens' \in MaybePruned(gens, rows') /\ packet' = packet
    <3>1. RowsHeld
      <4>1. CASE Owns(b)
        BY <2>2, <4>1, RowsRemovedHeld
      <4>2. CASE ~Owns(b)
        BY <2>2, <4>2 DEF RowsHeld
      <4> QED
        BY <4>1, <4>2
    <3> QED
      BY <1>2, <1>3, <2>2, <3>1, PrunedHeld DEF TablesHeld
  <2> QED
    BY <1>15, <2>1, <2>2 DEF DeleteRow
<1>16. CASE RescheduleClaimed(b) \/ ReleaseClaim(b)
  <2>1. /\ WkKey(b) \in Keys /\ UNCHANGED <<epoch, packet, gens, minted>>
        /\ rows' = Unclaimed(b) \/ rows' = rows
    BY <1>10, <1>16 DEF RescheduleClaimed, ReleaseClaim, WkAt
  <2>2. CASE Owns(b) /\ rows' = [rows EXCEPT ![WkKey(b)].claim = ""]
    <3>1. rows[WkKey(b)] # None /\ rows[WkKey(b)] \in Row
      BY <1>1, <2>1, <2>2 DEF Owns
    <3>2. /\ [rows[WkKey(b)] EXCEPT !.claim = ""] \in Row
          /\ [rows[WkKey(b)] EXCEPT !.claim = ""].awaiting = rows[WkKey(b)].awaiting
      BY <3>1 DEF Row
    <3> QED
      BY <1>4, <2>1, <2>2, <3>1, <3>2
  <2>3. CASE rows' = rows
    BY <1>5, <2>1, <2>3 DEF db
  <2> QED
    BY <2>1, <2>2, <2>3 DEF Unclaimed
<1> QED
  BY <1>6, <1>7, <1>8, <1>9, <1>11, <1>12, <1>13, <1>14, <1>15, <1>16 DEF WorkerStep

-----------------------------------------------------------------------------
(* All bridges but one have stopped, or never ran.                           *)
Alone(b) == \A c \in Bridges \ {b} : phase[c] = "off" /\ cb[c].pc = "idle"

(* enqueue inserts a row for a live identity, gated only before the SUBACK.  *)
LEMMA EnqueueTables ==
  ASSUME IInv, TablesInv, NEW b \in Bridges, Alone(b), NEW op \in Ops,
         NEW completed \in BOOLEAN, NEW awaiting \in BOOLEAN,
         cb[b].pc # "idle", awaiting => cb[b].pc = "defer",
         Enqueue(b, op, completed, awaiting), CbDone(b), phase' = phase
  PROVE  TablesInv'
<1> DEFINE d == cb[b].d
           key == <<op, d>>
<1>1. /\ d \in Known /\ d \in Deliveries /\ key \in Keys
      /\ gens[d] # None /\ gens[d].active
      /\ rows \in [Keys -> Row \cup {None}]
      /\ cb \in [Bridges -> CbRecord]
  BY CbInHand, KnownDeliveries DEF Keys, TablesInv, CallbacksLive, IInv, TypeOK, DbTypeOK
<1>2. cb' = [cb EXCEPT ![b] = IdleCb]
  BY DEF CbDone
<1>3. CallbacksLive'
  BY <1>1, <1>2 DEF CallbacksLive, Alone, IdleCb
<1>4. CASE UNCHANGED db
  BY <1>3, <1>4 DEF db, TablesInv, RowsHaveGeneration, ReadyIsUngated
<1>5. CASE /\ rows' = Enqueued(b, op, completed, awaiting)
           /\ gens' \in IF completed
                        THEN MaybePruned(WithState(gens, d, "terminal", OpOutcome(op)), rows)
                        ELSE {gens}
  <2>1. ASSUME NEW e \in Deliveries, gens[e] # None, e = d \/ ~Unreferenced(e, rows)
        PROVE  gens'[e] # None
    <3>1. CASE completed
      <4>1. OpOutcome(op) \in Outcomes \cup {""}
        BY DEF OpOutcome, Outcomes
      <4>2. gens' \in MaybePruned(WithState(gens, d, "terminal", OpOutcome(op)), rows)
        BY <1>5, <3>1
      <4>3. gens'[e] = None => ~gens[e].active /\ Unreferenced(e, rows)
        <5> HIDE DEF d
        <5> QED
          BY ZenonT(60), <1>1, <2>1, <4>1, <4>2, RecordedIsHeld
      <4> QED
        BY <1>1, <2>1, <4>3
    <3> QED
      BY <1>5, <2>1, <3>1
  <2>2. \A k \in Keys \ {key} : rows'[k] = rows[k]
    BY <1>1, <1>5 DEF Enqueued
  <2>3. rows'[key].awaiting => awaiting \/ (rows[key] # None /\ rows[key].awaiting)
    <3>1. CASE rows[key] # None /\ cb[b].dup
      <4>1. rows[key] \in Row
        BY <1>1, <3>1
      <4>2. rows'[key].awaiting = (rows[key].awaiting \/ awaiting)
        BY <1>1, <1>5, <3>1, <4>1 DEF Enqueued, Row
      <4> QED
        BY <3>1, <4>2
    <3>2. CASE ~(rows[key] # None /\ cb[b].dup)
      BY <1>1, <1>5, <3>2 DEF Enqueued
    <3> QED
      BY <3>1, <3>2
  <2>4. RowsHaveGeneration'
    <3> SUFFICES ASSUME NEW k \in Keys, rows'[k] # None PROVE gens'[k[2]] # None
      BY DEF RowsHaveGeneration
    <3>1. k[2] \in Deliveries /\ k[1] \in Ops /\ k = <<k[1], k[2]>>
      BY DEF Keys
    <3>2. CASE k = key
      BY <1>1, <2>1, <3>2
    <3>3. CASE k # key
      <4>1. rows[k] # None
        BY <2>2, <3>3
      <4>2. gens[k[2]] # None
        BY <4>1 DEF TablesInv, RowsHaveGeneration
      <4> QED
        BY <2>1, <3>1, <4>1, <4>2 DEF Unreferenced
    <3> QED
      BY <3>2, <3>3
  <2>5. ReadyIsUngated'
    <3> SUFFICES ASSUME NEW c \in Bridges, phase[c] = "ready", NEW k \in Keys, rows'[k] # None
                 PROVE  ~rows'[k].awaiting
      BY DEF ReadyIsUngated
    <3>1. c = b
      BY DEF Alone
    <3>2. ~awaiting
      BY <3>1 DEF TablesInv, CallbacksLive
    <3>3. \A j \in Keys : rows[j] # None => ~rows[j].awaiting
      BY DEF TablesInv, ReadyIsUngated
    <3> QED
      BY <1>1, <2>2, <2>3, <3>2, <3>3
  <2> QED
    BY <1>3, <2>4, <2>5 DEF TablesInv
<1> QED
  BY <1>4, <1>5 DEF Enqueue

(* begin_session, when no callback runs, leaves every row its generation.    *)
LEMMA BeginSessionTables ==
  ASSUME IInv, TablesInv, NEW b \in Bridges, Alone(b), cb[b].pc = "idle", cb' = cb,
         NEW present, BeginSession(b, present),
         \A c \in Bridges : phase'[c] # "ready"
  PROVE  TablesInv'
<1>1. CallbacksLive' /\ ReadyIsUngated'
  BY DEF CallbacksLive, ReadyIsUngated, Alone
<1>2. PICK g \in [Deliveries -> Gen \cup {None}] :
        /\ gens' \in MaybePruned(g, rows')
        /\ \A d \in Deliveries : gens[d] # None => g[d] # None
  <2>1. gens \in [Deliveries -> Gen \cup {None}] /\ None \notin Gen
    BY BridgeAssumption DEF IInv, TypeOK, DbTypeOK
  <2>2. CASE present
    BY <2>1, <2>2 DEF BeginSession, MaybePruned
  <2>3. CASE ~present
    <3> DEFINE retired == [d \in Deliveries |->
                             IF gens[d] = None THEN None ELSE [gens[d] EXCEPT !.active = FALSE]]
    <3>1. \A d \in Deliveries : gens[d] # None => gens[d] \in Gen /\ retired[d] \in Gen
      BY <2>1 DEF Gen
    <3>2. retired \in [Deliveries -> Gen \cup {None}]
      BY <3>1
    <3>3. gens' \in MaybePruned(retired, rows')
      BY <2>3 DEF BeginSession, MaybePruned
    <3> HIDE DEF retired
    <3> QED
      BY <2>1, <3>1, <3>2, <3>3
  <2> QED
    BY <2>2, <2>3
<1>3. ASSUME NEW k \in Keys, rows'[k] # None PROVE rows[k] # None
  <2>1. \/ rows' = rows
        \/ rows' = [j \in Keys |-> IF rows[j] = None THEN None
                                   ELSE IF rows[j].completed THEN None
                                   ELSE [rows[j] EXCEPT !.qos = 0]]
    BY DEF BeginSession
  <2> QED
    BY <1>3, <2>1
<1>4. RowsHaveGeneration'
  <2> SUFFICES ASSUME NEW k \in Keys, rows'[k] # None PROVE gens'[k[2]] # None
    BY DEF RowsHaveGeneration
  <2>1. k[2] \in Deliveries /\ k[1] \in Ops /\ k = <<k[1], k[2]>>
    BY DEF Keys
  <2>2. g[k[2]] # None
    BY <1>2, <1>3, <2>1 DEF TablesInv, RowsHaveGeneration
  <2>3. ~Unreferenced(k[2], rows')
    BY <2>1 DEF Unreferenced
  <2> QED
    BY <1>2, <2>1, <2>2, <2>3, PrunedIsUnused
<1> QED
  BY <1>1, <1>4 DEF TablesInv

(* Sessions begin, resume and end between callbacks, and a row that waits    *)
(* for the SUBACK is released by it.                                         *)
LEMMA SessionTables ==
  ASSUME IInv, TablesInv, NEW one \in Bridges, Alone(one), Alone(one)', NEW b \in Bridges,
         SessionStep(b) \/ IgnoreMessage(b) \/ SubackRefused(b)
  PROVE  TablesInv'
<1>1. phase \in [Bridges -> {"off", "retryPresent", "retryClean", "pending", "ready"}]
  BY DEF IInv, TypeOK, MemoryTypeOK
<1>2. ASSUME NEW p \in {"pending", "retryPresent", "retryClean"},
             phase' = [phase EXCEPT ![b] = p]
      PROVE  b = one /\ \A c \in Bridges : phase'[c] # "ready"
  BY <1>1, <1>2 DEF Alone
<1>3. CASE OnConnect(b)
  <2>1. cb[b].pc = "idle" /\ cb' = cb
    BY <1>3 DEF OnConnect, CallbackFree
  <2>2. PICK p \in {"pending", "retryPresent", "retryClean"} : phase' = [phase EXCEPT ![b] = p]
    BY <1>3 DEF OnConnect
  <2>3. CASE BeginSession(b, session)
    BY <1>2, <2>1, <2>2, <2>3, BeginSessionTables
  <2>4. CASE UNCHANGED db
    BY <1>2, <2>1, <2>2, <2>4
       DEF db, TablesInv, RowsHaveGeneration, ReadyIsUngated, CallbacksLive, Alone
  <2> QED
    BY <1>3, <2>3, <2>4 DEF OnConnect
<1>4. CASE RetryActivation(b)
  <2>1. /\ cb' = cb /\ phase' = [phase EXCEPT ![b] = "pending"]
        /\ BeginSession(b, phase[b] = "retryPresent")
        /\ phase[b] \in {"retryPresent", "retryClean"}
    BY <1>4 DEF RetryActivation
  <2>2. cb[b].pc = "idle"
    BY <2>1 DEF TablesInv, CallbacksLive
  <2> QED
    BY <1>2, <2>1, <2>2, BeginSessionTables
<1>5. CASE ResumeSession(b)
  <2>1. /\ cb' = cb /\ phase' = [phase EXCEPT ![b] = "ready"] /\ cb[b].pc # "defer"
        /\ rows' = Ungated(rows) /\ UNCHANGED gens
    BY <1>5 DEF ResumeSession, BufferLockFree
  <2>2. ASSUME NEW k \in Keys, rows'[k] # None PROVE rows[k] # None /\ ~rows'[k].awaiting
    <3>1. rows[k] # None /\ rows[k] \in Row
      BY <2>1, <2>2 DEF Ungated, IInv, TypeOK, DbTypeOK
    <3> QED
      BY <2>1, <3>1 DEF Ungated, Row
  <2>3. CallbacksLive'
    BY <1>1, <2>1 DEF TablesInv, CallbacksLive
  <2> QED
    BY <2>1, <2>2, <2>3 DEF TablesInv, RowsHaveGeneration, ReadyIsUngated
<1>6. CASE OnDisconnect(b) \/ SubackRefused(b)
  <2>1. /\ cb' = cb /\ phase' = [phase EXCEPT ![b] = "off"] /\ cb[b].pc # "defer"
        /\ UNCHANGED db
    BY <1>6 DEF OnDisconnect, SubackRefused, CallbackFree, BufferLockFree
  <2>2. CallbacksLive'
    BY <1>1, <2>1 DEF db, TablesInv, CallbacksLive
  <2> QED
    BY <1>1, <2>1, <2>2 DEF db, TablesInv, RowsHaveGeneration, ReadyIsUngated
<1>7. CASE IgnoreMessage(b)
  BY <1>7 DEF IgnoreMessage, db, memory, TablesInv, RowsHaveGeneration, ReadyIsUngated,
              CallbacksLive
<1> QED
  BY <1>3, <1>4, <1>5, <1>6, <1>7 DEF SessionStep

(* A crash loses what is in memory and leaves the tables as they are.        *)
LEMMA CrashTables ==
  ASSUME IInv, TablesInv, NEW b \in Bridges, Crash(b)
  PROVE  TablesInv'
<1>1. /\ phase \in [Bridges -> {"off", "retryPresent", "retryClean", "pending", "ready"}]
      /\ cb \in [Bridges -> CbRecord] /\ rows \in [Keys -> Row \cup {None}]
  BY DEF IInv, TypeOK, DbTypeOK, MemoryTypeOK
<1>2. /\ phase' = [phase EXCEPT ![b] = "off"] /\ cb' = [cb EXCEPT ![b] = IdleCb]
      /\ UNCHANGED gens
  BY DEF Crash
<1>3. ASSUME NEW k \in Keys, rows'[k] # None
      PROVE  rows[k] # None /\ rows'[k].awaiting = rows[k].awaiting
  <2>1. rows'[k] = IF rows[k] # None /\ rows[k].claim = b
                   THEN [rows[k] EXCEPT !.claim = "dead"] ELSE rows[k]
    BY DEF Crash
  <2>2. rows[k] # None /\ rows[k] \in Row
    BY <1>1, <1>3, <2>1
  <2> QED
    BY <2>1, <2>2 DEF Row
<1>4. CallbacksLive'
  BY <1>1, <1>2 DEF TablesInv, CallbacksLive, IdleCb
<1> QED
  BY <1>1, <1>2, <1>3, <1>4 DEF TablesInv, RowsHaveGeneration, ReadyIsUngated

-----------------------------------------------------------------------------
(* prepare_delivery draws a live identity that nobody held, retires the one  *)
(* that held its packet id, and forgets only void ones without a row.        *)
LEMMA MintTables ==
  ASSUME IInv, NEW b \in Bridges, NEW p \in Publication, NEW n \in Deliveries,
         n = minted + 1, MintDelivery(b, p, n)
  PROVE  /\ gens[n] = None /\ gens'[n] # None /\ gens'[n].active
         /\ packet'[n].mid = p.mid /\ packet'[n].epoch = sessEpoch[b]
         /\ \A d \in Deliveries \ {n} :
              /\ packet'[d] = packet[d]
              /\ gens'[d] # None /\ gens'[d].active =>
                   gens[d] # None /\ gens[d].active /\ d \notin Superseded(b, p)
         /\ \A d \in Deliveries : gens[d] # None /\ gens'[d] = None => Unreferenced(d, rows')
         /\ \A k \in Keys : rows'[k] # None =>
              rows[k] # None /\ rows'[k].awaiting = rows[k].awaiting
<1> DEFINE old == Superseded(b, p)
           fresh == [active |-> TRUE, state |-> "active", outcome |-> ""]
           g == [e \in Deliveries |->
                   IF e \in old THEN [gens[e] EXCEPT !.active = FALSE]
                   ELSE IF e = n THEN fresh ELSE gens[e]]
<1>1. /\ gens \in [Deliveries -> Gen \cup {None}] /\ rows \in [Keys -> Row \cup {None}]
      /\ packet \in [Deliveries -> Packet \cup {None}] /\ minted \in 0 .. MaxDeliveries
      /\ None \notin Gen
  BY BridgeAssumption DEF IInv, TypeOK, DbTypeOK
<1>2. gens[n] = None
  <2>1. n \notin Known
    BY <1>1, Bounds DEF Known
  <2> QED
    BY <2>1 DEF IInv, SafeInv, GensSafe
<1>3. /\ packet' = [packet EXCEPT ![n] =
                      [mid |-> p.mid, payload |-> PayloadOf[p.msg], epoch |-> sessEpoch[b]]]
      /\ rows' = [k \in Keys |-> IF k[2] \in old /\ rows[k] # None
                                 THEN [rows[k] EXCEPT !.qos = 0] ELSE rows[k]]
      /\ gens' \in MaybePruned(g, rows')
  BY DEF MintDelivery
<1>4. ASSUME NEW e \in old
      PROVE  /\ e \in Deliveries /\ e # n /\ gens[e] # None
             /\ g[e] \in Gen /\ ~g[e].active
  <2>1. e \in Deliveries /\ gens[e] # None
    BY DEF Superseded
  <2>2. gens[e] \in Gen
    BY <1>1, <2>1
  <2>3. g[e] = [gens[e] EXCEPT !.active = FALSE]
    BY <2>1
  <2> HIDE DEF g
  <2> QED
    BY <1>2, <2>1, <2>2, <2>3 DEF Gen
<1>5. /\ g[n] = fresh /\ fresh \in Gen
      /\ \A e \in Deliveries \ {n} : e \notin old => g[e] = gens[e]
  BY <1>4 DEF Gen
<1>6. g = [e \in Deliveries |-> g[e]]
  OBVIOUS
<1> HIDE DEF g
<1>7. g \in [Deliveries -> Gen \cup {None}]
  <2>1. ASSUME NEW e \in Deliveries PROVE g[e] \in Gen \cup {None}
    <3>1. CASE e \in old
      BY <1>4, <3>1
    <3>2. CASE e = n
      BY <1>5, <3>2
    <3>3. CASE e \notin old /\ e # n
      BY <1>1, <1>5, <3>3
    <3> QED
      BY <3>1, <3>2, <3>3
  <2> QED
    BY <1>6, <2>1
<1>8. ASSUME NEW d \in Deliveries, gens'[d] # g[d]
      PROVE  gens'[d] = None /\ ~g[d].active /\ Unreferenced(d, rows')
  BY <1>3, <1>7, <1>8, PrunedIsUnused
<1>9. gens'[n] = g[n] /\ g[n].active
  <2>1. fresh.active
    BY Zenon
  <2> HIDE DEF fresh
  <2>2. g[n].active
    BY <1>5, <2>1
  <2> QED
    BY <1>8, <2>2
<1>10. ASSUME NEW d \in Deliveries \ {n}
       PROVE  /\ gens'[d] # None /\ gens'[d].active =>
                   gens[d] # None /\ gens[d].active /\ d \notin old
              /\ gens[d] # None /\ gens'[d] = None => Unreferenced(d, rows')
  <2>1. CASE d \in old
    BY <1>1, <1>4, <1>8, <2>1
  <2>2. CASE d \notin old
    BY <1>5, <1>8, <2>2
  <2> QED
    BY <2>1, <2>2
<1>11. ASSUME NEW k \in Keys, rows'[k] # None
       PROVE  rows[k] # None /\ rows'[k].awaiting = rows[k].awaiting
  <2>1. rows'[k] = IF k[2] \in old /\ rows[k] # None
                   THEN [rows[k] EXCEPT !.qos = 0] ELSE rows[k]
    BY <1>3
  <2>2. rows[k] # None /\ rows[k] \in Row
    BY <1>1, <1>11, <2>1
  <2> QED
    BY <2>1, <2>2 DEF Row
<1>12. /\ packet'[n].mid = p.mid /\ packet'[n].epoch = sessEpoch[b]
       /\ \A d \in Deliveries \ {n} : packet'[d] = packet[d]
  BY <1>1, <1>3
<1>13. gens'[n] # None
  BY <1>1, <1>7, <1>9, <1>5
<1> HIDE DEF fresh
<1> QED
  BY <1>2, <1>9, <1>10, <1>11, <1>12, <1>13

(* on_message of the only bridge starts on a live identity, new or resumed.  *)
LEMMA MessageTables ==
  ASSUME IInv, TablesInv, NEW b \in Bridges, Alone(b), OnMessage(b)
  PROVE  TablesInv'
<1>1. PICK p \in Publication : p = Head(wire) /\ PayloadOf[p.msg] \in Payloads
  BY NextMessage DEF OnMessage
<1>2. /\ phase' = phase /\ phase[b] \in {"pending", "ready"}
      /\ cb \in [Bridges -> CbRecord]
  BY CbInHand DEF OnMessage
<1>3. ASSUME cb' = [cb EXCEPT ![b] = cb'[b]],
             gens'[cb'[b].d] # None, gens'[cb'[b].d].active,
             cb'[b].pc = "defer" => phase[b] = "pending"
      PROVE  CallbacksLive'
  <2> SUFFICES ASSUME NEW c \in Bridges, cb'[c].pc # "idle"
               PROVE  /\ phase[c] \notin {"retryPresent", "retryClean"}
                      /\ gens'[cb'[c].d] # None /\ gens'[cb'[c].d].active
                      /\ cb'[c].pc = "defer" => phase[c] = "pending"
    BY <1>2 DEF CallbacksLive
  <2>1. c = b
    <3>1. c # b => cb'[c] = cb[c] /\ cb[c].pc = "idle"
      BY <1>2, <1>3 DEF Alone
    <3> QED
      BY <3>1
  <2> QED
    BY <1>2, <1>3, <2>1
<1>4. ASSUME NEW d \in Same(b, p), UNCHANGED db,
             cb' = [cb EXCEPT ![b] =
                      [pc |-> NextPc(b, TRUE), d |-> d, dup |-> TRUE,
                       st |-> gens[d].state, out |-> gens[d].outcome,
                       op |-> OutcomeOp(gens[d].outcome)]]
      PROVE  TablesInv'
  <2>1. gens[d] # None /\ gens[d].active
    BY DEF Same, Superseded
  <2>2. /\ cb'[b].d = d /\ cb'[b].pc = NextPc(b, TRUE)
        /\ cb' = [cb EXCEPT ![b] = cb'[b]]
    BY <1>2, <1>4
  <2>3. CallbacksLive'
    BY <1>3, <1>4, <2>1, <2>2 DEF NextPc, db
  <2> QED
    BY <1>2, <1>4, <2>3 DEF db, TablesInv, RowsHaveGeneration, ReadyIsUngated
<1>5. CASE /\ minted + 1 \in Deliveries /\ MintDelivery(b, p, minted + 1)
           /\ cb' = [cb EXCEPT ![b] =
                       [IdleCb EXCEPT !.pc = NextPc(b, p.dup), !.d = minted + 1,
                                      !.dup = p.dup]]
  <2>1. PICK n \in Deliveries : n = minted + 1 /\ MintDelivery(b, p, n)
    BY <1>5
  <2>2. /\ gens'[n] # None /\ gens'[n].active
        /\ \A d \in Deliveries : gens[d] # None /\ gens'[d] = None => Unreferenced(d, rows')
        /\ \A k \in Keys : rows'[k] # None =>
             rows[k] # None /\ rows'[k].awaiting = rows[k].awaiting
    BY <2>1, MintTables
  <2>3. /\ cb'[b].d = n /\ cb'[b].pc = NextPc(b, p.dup)
        /\ cb' = [cb EXCEPT ![b] = cb'[b]]
    BY <1>2, <1>5, <2>1 DEF IdleCb
  <2>4. CallbacksLive'
    BY <1>3, <2>2, <2>3 DEF NextPc
  <2>5. RowsHaveGeneration'
    <3> SUFFICES ASSUME NEW k \in Keys, rows'[k] # None PROVE gens'[k[2]] # None
      BY DEF RowsHaveGeneration
    <3>1. k[2] \in Deliveries /\ k[1] \in Ops /\ k = <<k[1], k[2]>>
      BY DEF Keys
    <3>2. gens[k[2]] # None
      BY <2>2 DEF TablesInv, RowsHaveGeneration
    <3>3. ~Unreferenced(k[2], rows')
      BY <3>1 DEF Unreferenced
    <3> QED
      BY <2>2, <3>1, <3>2, <3>3
  <2>6. ReadyIsUngated'
    BY <1>2, <2>2 DEF TablesInv, ReadyIsUngated
  <2> QED
    BY <2>4, <2>5, <2>6 DEF TablesInv
<1> QED
  BY <1>1, <1>4, <1>5 DEF OnMessage

(* Every step of the only bridge that runs keeps the tables in agreement.    *)
LEMMA NextTables ==
  ASSUME IInv, TablesInv, NEW one \in Bridges, Alone(one), Alone(one)', [Next]_vars
  PROVE  TablesInv'
<1>1. CASE UNCHANGED <<db, phase, cb>>
  BY <1>1 DEF db, TablesInv, RowsHaveGeneration, ReadyIsUngated, CallbacksLive
<1>2. CASE Environment
  <2>1. CASE \E b \in Bridges : Crash(b) \/ SubackRefused(b)
    BY <2>1, CrashTables, SessionTables
  <2>2. CASE (\E m \in Msgs : Publish(m)) \/ ReceivePuback \/ DropConnection \/ LoseSession
    <3>1. UNCHANGED <<db, phase, cb>>
      BY <2>2 DEF Publish, ReceivePuback, DropConnection, LoseSession, memory
    <3> QED
      BY <1>1, <3>1
  <2> QED
    BY <1>2, <2>1, <2>2 DEF Environment
<1>3. ASSUME NEW b \in Bridges, SessionStep(b) \/ IgnoreMessage(b)
      PROVE  TablesInv'
  BY <1>3, SessionTables
<1>4. ASSUME NEW b \in Bridges, CallbackStep(b) PROVE TablesInv'
  <2>1. CASE ~OnMessage(b) /\ ~DeferUnapproved(b) /\ ~LiveEnqueue(b)
    BY <1>4, <2>1, CallbackHolds, HeldTables
  <2>2. CASE OnMessage(b)
    <3>1. b = one
      BY <2>2 DEF OnMessage, Alone
    <3> QED
      BY <2>2, <3>1, MessageTables
  <2>3. CASE DeferUnapproved(b)
    <3>1. cb[b].pc = "defer" /\ b = one
      BY <2>3 DEF DeferUnapproved, CbAt, Alone
    <3>2. PICK op \in Ops, completed \in BOOLEAN : Enqueue(b, op, completed, TRUE)
      BY <2>3 DEF DeferUnapproved, OutcomeOp, DecodeOp, Ops, Delivered
    <3>3. CbDone(b) /\ phase' = phase
      BY <2>3 DEF DeferUnapproved
    <3> QED
      BY <3>1, <3>2, <3>3, EnqueueTables
  <2>4. CASE LiveEnqueue(b)
    <3>1. cb[b].pc = "enqueue" /\ b = one
      BY <2>4 DEF LiveEnqueue, CbAt, Alone
    <3>2. cb[b].op \in Ops /\ Delivered(b) \in BOOLEAN
      BY CbInHand DEF CbRecord, Delivered
    <3>3. Enqueue(b, cb[b].op, Delivered(b), FALSE) /\ CbDone(b) /\ phase' = phase
      BY <2>4 DEF LiveEnqueue
    <3> QED
      BY <3>1, <3>2, <3>3, EnqueueTables
  <2> QED
    BY <2>1, <2>2, <2>3, <2>4
<1>5. ASSUME NEW b \in Bridges, WorkerStep(b) PROVE TablesInv'
  BY <1>5, WorkerHolds, HeldTables
<1> QED
  BY <1>1, <1>2, <1>3, <1>4, <1>5 DEF Next, vars, memory

-----------------------------------------------------------------------------
(* A step that brings no identity to life keeps their packet ids apart.      *)
ActiveHeld ==
  \A d \in Deliveries : gens'[d] # None /\ gens'[d].active =>
    gens[d] # None /\ gens[d].active /\ packet'[d] = packet[d]

LEMMA ActiveApart ==
  ASSUME OneIdentity, ActiveHeld
  PROVE  OneIdentity'
BY DEF OneIdentity, ActiveHeld

LEMMA HeldIsActive == GensHeld => ActiveHeld
BY DEF GensHeld, ActiveHeld

LEMMA EnqueueActive ==
  ASSUME IInv, NEW b \in Bridges, cb[b].pc # "idle", NEW op \in Ops,
         NEW completed \in BOOLEAN, NEW awaiting, Enqueue(b, op, completed, awaiting)
  PROVE  ActiveHeld
<1>1. cb[b].d \in Known /\ OpOutcome(op) \in Outcomes \cup {""}
  BY CbInHand DEF OpOutcome, Outcomes
<1>2. CASE UNCHANGED <<packet, gens>>
  BY <1>2 DEF ActiveHeld
<1>3. CASE /\ gens[cb[b].d] # None /\ packet' = packet
           /\ gens' \in MaybePruned(WithState(gens, cb[b].d, "terminal", OpOutcome(op)), rows)
  <2> DEFINE d == cb[b].d
             out == OpOutcome(op)
  <2>1. d \in Known /\ out \in Outcomes \cup {""}
    BY <1>1
  <2>2. /\ gens[d] # None /\ packet' = packet
        /\ gens' \in MaybePruned(WithState(gens, d, "terminal", out), rows)
    BY <1>3
  <2> HIDE DEF d, out
  <2>3. ASSUME NEW e \in Deliveries, gens'[e] # None
        PROVE  gens[e] # None /\ gens'[e].active = gens[e].active
    BY ZenonT(60), <2>1, <2>2, <2>3, RecordedIsHeld
  <2> QED
    BY <2>2, <2>3 DEF ActiveHeld
<1> QED
  BY <1>2, <1>3 DEF Enqueue, db

(* A clean session voids every identity; a resumed one keeps them.           *)
LEMMA BeginSessionActive ==
  ASSUME IInv, NEW b, NEW present, BeginSession(b, present)
  PROVE  ActiveHeld
<1>1. gens \in [Deliveries -> Gen \cup {None}] /\ None \notin Gen /\ packet' = packet
  BY BridgeAssumption DEF IInv, TypeOK, DbTypeOK, BeginSession
<1>2. CASE present
  <2>1. gens' \in MaybePruned(gens, rows)
    BY <1>2 DEF BeginSession, MaybePruned
  <2> QED
    BY <1>1, <2>1, PrunedIsUnused DEF ActiveHeld
<1>3. CASE ~present
  <2> DEFINE retired == [d \in Deliveries |->
                           IF gens[d] = None THEN None ELSE [gens[d] EXCEPT !.active = FALSE]]
  <2>1. \A d \in Deliveries : gens[d] # None =>
          retired[d] \in Gen /\ ~retired[d].active
    BY <1>1 DEF Gen
  <2>2. retired \in [Deliveries -> Gen \cup {None}]
    BY <2>1
  <2>3. \A d \in Deliveries : gens[d] = None => retired[d] = None
    OBVIOUS
  <2>4. gens' \in MaybePruned(retired, rows')
    BY <1>3 DEF BeginSession, MaybePruned
  <2> HIDE DEF retired
  <2>5. ASSUME NEW d \in Deliveries, gens'[d] # None PROVE ~gens'[d].active
    BY <2>1, <2>2, <2>3, <2>4, <2>5, PrunedIsUnused
  <2> QED
    BY <2>5 DEF ActiveHeld
<1> QED
  BY <1>2, <1>3

(* A message gets a live identity of its own: what held its packet id in     *)
(* this session is void.                                                     *)
LEMMA MessageApart ==
  ASSUME IInv, OneIdentity, NEW b \in Bridges, OnMessage(b)
  PROVE  OneIdentity'
<1>1. PICK p \in Publication : p = Head(wire) /\ PayloadOf[p.msg] \in Payloads
  BY NextMessage DEF OnMessage
<1>2. CASE UNCHANGED db
  BY <1>2 DEF db, OneIdentity
<1>3. CASE minted + 1 \in Deliveries /\ MintDelivery(b, p, minted + 1)
  <2>1. PICK n \in Deliveries : n = minted + 1 /\ MintDelivery(b, p, n)
    BY <1>3
  <2>2. /\ packet'[n].mid = p.mid /\ packet'[n].epoch = sessEpoch[b]
        /\ \A d \in Deliveries \ {n} :
             /\ packet'[d] = packet[d]
             /\ gens'[d] # None /\ gens'[d].active =>
                  gens[d] # None /\ gens[d].active /\ d \notin Superseded(b, p)
    BY <2>1, MintTables
  <2>3. ASSUME NEW d \in Deliveries \ {n}, gens'[d] # None, gens'[d].active
        PROVE  ~(packet'[d].mid = p.mid /\ packet'[d].epoch = sessEpoch[b])
    BY <2>2, <2>3 DEF Superseded
  <2> QED
    BY <2>2, <2>3 DEF OneIdentity
<1> QED
  BY <1>1, <1>2, <1>3 DEF OnMessage

(* Every step of any number of bridges keeps identities apart.               *)
LEMMA NextApart ==
  ASSUME IInv, OneIdentity, [Next]_vars
  PROVE  OneIdentity'
<1>1. CASE UNCHANGED <<packet, gens>>
  BY <1>1 DEF OneIdentity
<1>2. CASE Environment
  <2>1. UNCHANGED <<packet, gens>>
    BY <1>2 DEF Environment, Publish, ReceivePuback, DropConnection, LoseSession, Crash,
                SubackRefused, db
  <2> QED
    BY <1>1, <2>1
<1>3. ASSUME NEW b \in Bridges, SessionStep(b) \/ IgnoreMessage(b)
      PROVE  OneIdentity'
  <2>1. CASE \E present : BeginSession(b, present)
    BY <2>1, BeginSessionActive, ActiveApart
  <2>2. CASE UNCHANGED <<packet, gens>>
    BY <1>1, <2>2
  <2>3. \/ \E present : BeginSession(b, present)
        \/ UNCHANGED <<packet, gens>>
    BY <1>3 DEF SessionStep, OnConnect, RetryActivation, ResumeSession, OnDisconnect,
                IgnoreMessage, db
  <2> QED
    BY <2>1, <2>2, <2>3
<1>4. ASSUME NEW b \in Bridges, CallbackStep(b) PROVE OneIdentity'
  <2>1. CASE ~OnMessage(b) /\ ~DeferUnapproved(b) /\ ~LiveEnqueue(b)
    BY <1>4, <2>1, CallbackHolds, HeldIsActive, ActiveApart DEF TablesHeld
  <2>2. CASE OnMessage(b)
    BY <2>2, MessageApart
  <2>3. CASE DeferUnapproved(b)
    <3>1. cb[b].pc # "idle"
      BY <2>3 DEF DeferUnapproved, CbAt
    <3>2. PICK op \in Ops, completed \in BOOLEAN : Enqueue(b, op, completed, TRUE)
      BY <2>3 DEF DeferUnapproved, OutcomeOp, DecodeOp, Ops, Delivered
    <3> QED
      BY <3>1, <3>2, EnqueueActive, ActiveApart
  <2>4. CASE LiveEnqueue(b)
    <3>1. cb[b].pc # "idle" /\ cb[b].op \in Ops /\ Delivered(b) \in BOOLEAN
      BY <2>4, CbInHand DEF LiveEnqueue, CbAt, CbRecord, Delivered
    <3>2. Enqueue(b, cb[b].op, Delivered(b), FALSE)
      BY <2>4 DEF LiveEnqueue
    <3> QED
      BY <3>1, <3>2, EnqueueActive, ActiveApart
  <2> QED
    BY <2>1, <2>2, <2>3, <2>4
<1>5. ASSUME NEW b \in Bridges, WorkerStep(b) PROVE OneIdentity'
  BY <1>5, WorkerHolds, HeldIsActive, ActiveApart DEF TablesHeld
<1> QED
  BY <1>1, <1>2, <1>3, <1>4, <1>5 DEF Next, vars, db

(* At most one live identity holds a packet id of a session epoch, however   *)
(* many bridges share the database: prepare_delivery retires the one that    *)
(* held it in the transaction that inserts the new one.                      *)
THEOREM IdentitiesApart == Spec => []OneIdentity
<1>1. Init => OneIdentity
  BY DEF Init, OneIdentity
<1>2. IInv /\ OneIdentity /\ [Next]_vars => OneIdentity'
  BY NextApart
<1> QED
  BY <1>1, <1>2, Invariance, PTL DEF Spec

(* While one bridge runs, however it stops, starts and fails, a row that     *)
(* waits for completion has its generation, which garbage collection leaves  *)
(* alone, and no row stays gated once its session is ready; and identities   *)
(* are apart in every scenario.                                              *)
TablesIInv ==
  IInv /\ OneIdentity /\ (scenario.bridges = {b1} => Alone(b1) /\ TablesInv)

THEOREM TablesInvariance == ScenarioSpec => []TablesIInv
<1>1. ScenarioInit => TablesIInv
  <2> SUFFICES ASSUME Init PROVE TablesIInv
    BY DEF ScenarioInit
  <2>1. OneIdentity /\ TablesInv /\ Alone(b1)
    BY DEF Init, OneIdentity, TablesInv, RowsHaveGeneration, ReadyIsUngated, CallbacksLive,
           Alone, IdleCb
  <2> QED
    BY <2>1, InitIInv DEF TablesIInv
<1>2. TablesIInv /\ [ScenarioNext]_<<vars, scenario>> => TablesIInv'
  <2> SUFFICES ASSUME TablesIInv, [ScenarioNext]_<<vars, scenario>> PROVE TablesIInv'
    OBVIOUS
  <2>1. [Next]_vars /\ scenario' = scenario
    BY DEF ScenarioNext
  <2>2. ASSUME scenario.bridges = {b1} PROVE Alone(b1)' /\ TablesInv'
    <3>1. Alone(b1) /\ TablesInv /\ IInv
      BY <2>2 DEF TablesIInv
    <3>2. Alone(b1)'
      <4>1. CASE Within
        <5>1. \A c \in Bridges \ {b1} : phase'[c] = "off" /\ cb'[c] = IdleCb
          BY <2>2, <4>1 DEF Within
        <5>2. IdleCb.pc = "idle"
          BY DEF IdleCb
        <5> QED
          BY <5>1, <5>2 DEF Alone
      <4>2. CASE UNCHANGED <<vars, scenario>>
        BY <3>1, <4>2 DEF vars, memory, Alone
      <4> QED
        BY <4>1, <4>2 DEF ScenarioNext
    <3> QED
      BY <2>1, <3>1, <3>2, ScenarioAssumption, NextTables
  <2>3. IInv' /\ OneIdentity'
    BY <2>1, NextIInv, NextApart DEF TablesIInv
  <2> QED
    BY <2>1, <2>2, <2>3 DEF TablesIInv
<1> QED
  BY <1>1, <1>2, PTL DEF ScenarioSpec

(* The tables that the threads of the bridge share agree in every scenario.  *)
THEOREM SharedTablesAgree == ScenarioSpec => []TablesAgree
<1>1. TablesIInv => TablesAgree
  BY DEF TablesIInv, TablesInv, TablesAgree
<1> QED
  BY <1>1, TablesInvariance, PTL

-----------------------------------------------------------------------------
(* What the ledger needs of the one bridge that runs: its threads agree on    *)
(* the outcome of a delivery.  It is settled in one of two places: by the     *)
(* callback, while the delivery has no row, or by the worker, which has one;  *)
(* every other record repeats what is on disk.                                *)
Live(d) == gens[d] # None /\ gens[d].active
Unsettled(d) == gens[d] # None /\ gens[d].state = "active"
SettledAs(d, out) == gens[d] # None /\ gens[d].state # "active" /\ gens[d].outcome = out
WkOn(b, d) == wk[b].d = d /\ wk[b].pc \in {"look", "post", "terminal"}
WkSettles == {"send", "unsent", "mark", "settle", "delete", "retire", "stale"}

(* A row is completed, or knows of a PUBACK, only for what is settled; and a  *)
(* row of a live delivery owes its PUBACK.                                    *)
RowAgrees(d, row) ==
  /\ row.completed => SettledAs(d, row.outcome)
  /\ row.attempted \/ row.acknowledged => ~Unsettled(d)
  /\ Live(d) => row.qos = 1
RowsAgree == \A k \in Keys : rows[k] # None => RowAgrees(k[2], rows[k])

(* What the callback knows is on disk; what it delivers itself nobody else    *)
(* has in hand; and a DUP of a delivery that was open finds it open, or finds *)
(* its row, which the worker cannot finish meanwhile.                         *)
CbKnows(b) ==
  \/ cb[b].pc \in {"defer", "resume"} /\ cb[b].st # "active"
  \/ cb[b].pc = "enqueue" /\ cb[b].out # ""
  \/ cb[b].pc \notin {"idle", "defer", "resume", "forward", "quarantine", "terminal", "enqueue"}
CbDelivers(b) == cb[b].pc \in {"forward", "quarantine", "terminal"}
CbResumes(b) == cb[b].pc = "resume" /\ cb[b].st = "active"
Delivers(b) ==
  Unsettled(cb[b].d) /\ Unreferenced(cb[b].d, rows) /\ ~WkOn(b, cb[b].d)
Resumes(b) ==
  /\ gens[cb[b].d].state # "acked"
  /\ Unsettled(cb[b].d) \/ ~Unreferenced(cb[b].d, rows)
  /\ \A op \in Ops : rows[<<op, cb[b].d>>] # None =>
       ~rows[<<op, cb[b].d>>].attempted /\ ~rows[<<op, cb[b].d>>].acknowledged
  /\ wk[b].d = cb[b].d => wk[b].pc \notin WkSettles /\ (wk[b].pc = "fence" => ~wk[b].acked)
CbAgrees(b) ==
  /\ CbKnows(b) => SettledAs(cb[b].d, cb[b].out)
  /\ CbDelivers(b) => Delivers(b)
  /\ CbResumes(b) => Resumes(b)

(* What the worker knows is on disk, unless the identity is gone; it posts    *)
(* only what is open, and has the row of what it works on.                    *)
WkKnows(b) ==
  \/ wk[b].pc = "look" /\ wk[b].done
  \/ wk[b].pc \notin {"idle", "claim", "look", "post", "terminal", "resched", "release"}
WkAgrees(b) ==
  /\ WkKnows(b) => gens[wk[b].d] = None \/ SettledAs(wk[b].d, wk[b].out)
  /\ wk[b].pc = "post" => gens[wk[b].d] = None \/ Unsettled(wk[b].d)
  /\ wk[b].pc = "terminal" => \/ gens[wk[b].d] = None \/ Unsettled(wk[b].d)
                              \/ SettledAs(wk[b].d, wk[b].out)
  /\ WkOn(b, wk[b].d) /\ Live(wk[b].d) /\ Unsettled(wk[b].d) => rows[WkKey(b)] # None
  /\ wk[b].pc = "send" => Live(wk[b].d)

ThreadsAgree(b) == RowsAgree /\ CbAgrees(b) /\ WkAgrees(b)

(* What a step may do to the generations: what is settled stays as it is, and *)
(* what is void stays void.                                                   *)
Onward ==
  \A d \in Deliveries : gens'[d] # None =>
    /\ gens[d] # None
    /\ gens[d].state # "active" => gens'[d].state # "active" /\ gens'[d].outcome = gens[d].outcome
    /\ gens'[d].active => gens[d].active
Opens(d) == Unsettled(d) => gens'[d] = None \/ Unsettled(d)'

LEMMA OnwardFacts ==
  ASSUME Onward, NEW d \in Deliveries
  PROVE  /\ \A out : SettledAs(d, out) => gens'[d] = None \/ SettledAs(d, out)'
         /\ Unsettled(d)' => Unsettled(d)
         /\ Live(d)' => Live(d)
         /\ gens[d] = None => gens'[d] = None
BY DEF Onward, SettledAs, Unsettled, Live

(* Rows that fit the generations before a step fit them after it.             *)
LEMMA RowsStay ==
  ASSUME Onward, RowsHaveGeneration',
         \A k \in Keys : rows'[k] # None => RowAgrees(k[2], rows'[k])
  PROVE  RowsAgree'
<1> SUFFICES ASSUME NEW k \in Keys, rows'[k] # None PROVE RowAgrees(k[2], rows[k])'
  BY DEF RowsAgree
<1>1. k[2] \in Deliveries
  BY DEF Keys
<1>2. RowAgrees(k[2], rows'[k]) /\ gens'[k[2]] # None
  BY DEF RowsHaveGeneration
<1> QED
  BY <1>1, <1>2, OnwardFacts DEF RowAgrees

(* What the callback knows stays on disk, because its delivery stays live.    *)
LEMMA CbStays ==
  ASSUME IInv, Onward, NEW b \in Bridges, CbAgrees(b), cb'[b] = cb[b],
         cb[b].pc # "idle" => gens'[cb[b].d] # None,
         CbDelivers(b) => /\ Opens(cb[b].d) /\ ~WkOn(b, cb[b].d)'
                          /\ \A k \in Keys : rows[k] = None => rows'[k] = None,
         CbResumes(b) => Resumes(b)'
  PROVE  CbAgrees(b)'
<1>1. cb[b].pc # "idle" => cb[b].d \in Deliveries
  BY CbInHand, KnownDeliveries
<1>2. (CbKnows(b)' <=> CbKnows(b)) /\ (CbDelivers(b)' <=> CbDelivers(b))
      /\ (CbResumes(b)' <=> CbResumes(b))
  BY DEF CbKnows, CbDelivers, CbResumes
<1>3. ASSUME CbKnows(b) PROVE SettledAs(cb[b].d, cb[b].out)'
  <2>1. cb[b].pc # "idle" /\ SettledAs(cb[b].d, cb[b].out)
    BY <1>3 DEF CbKnows, CbAgrees
  <2> QED
    BY <1>1, <2>1, OnwardFacts
<1>4. ASSUME CbDelivers(b) PROVE Delivers(b)'
  <2>1. cb[b].pc # "idle" /\ Delivers(b)
    BY <1>4 DEF CbDelivers, CbAgrees
  <2>2. Unsettled(cb[b].d)' /\ ~WkOn(b, cb[b].d)'
    BY <1>4, <2>1 DEF Opens, Delivers
  <2>3. Unreferenced(cb[b].d, rows')
    BY <1>1, <1>4, <2>1 DEF Delivers, Unreferenced, Keys
  <2> QED
    BY <2>2, <2>3 DEF Delivers, WkOn
<1> QED
  BY <1>2, <1>3, <1>4 DEF CbAgrees

(* What the worker knows stays on disk, or its identity is gone.              *)
LEMMA WkStays ==
  ASSUME IInv, Onward, NEW b \in Bridges, WkAgrees(b), wk'[b] = wk[b],
         wk[b].pc \in {"post", "terminal"} => Opens(wk[b].d),
         WkOn(b, wk[b].d) /\ Live(wk[b].d)' /\ Unsettled(wk[b].d)' /\ rows[WkKey(b)] # None
           => rows'[WkKey(b)] # None,
         wk[b].pc = "send" => Live(wk[b].d)'
  PROVE  WkAgrees(b)'
<1>1. wk[b].pc \notin {"idle", "claim"} => wk[b].d \in Deliveries
  BY KnownDeliveries DEF IInv, SafeInv, WkSafe
<1>2. /\ WkKnows(b)' <=> WkKnows(b)
      /\ WkKnows(b) => wk[b].pc \notin {"idle", "claim"}
      /\ WkKey(b)' = WkKey(b) /\ (WkOn(b, wk[b].d)' <=> WkOn(b, wk[b].d))
      /\ WkOn(b, wk[b].d) => wk[b].pc \notin {"idle", "claim"}
  BY DEF WkKnows, WkKey, WkOn
<1>3. ASSUME WkKnows(b) PROVE gens'[wk[b].d] = None \/ SettledAs(wk[b].d, wk[b].out)'
  BY <1>1, <1>2, <1>3, OnwardFacts DEF WkAgrees
<1>4. ASSUME wk[b].pc = "post" PROVE gens'[wk[b].d] = None \/ Unsettled(wk[b].d)'
  BY <1>1, <1>4, OnwardFacts DEF WkAgrees, Opens
<1>5. ASSUME wk[b].pc = "terminal"
      PROVE  \/ gens'[wk[b].d] = None \/ Unsettled(wk[b].d)'
             \/ SettledAs(wk[b].d, wk[b].out)'
  BY <1>1, <1>5, OnwardFacts DEF WkAgrees, Opens
<1>6. ASSUME WkOn(b, wk[b].d), Live(wk[b].d)', Unsettled(wk[b].d)' PROVE rows'[WkKey(b)] # None
  <2>1. Live(wk[b].d) /\ Unsettled(wk[b].d)
    BY <1>1, <1>2, <1>6, OnwardFacts
  <2> QED
    BY <1>6, <2>1 DEF WkAgrees
<1> QED
  BY <1>2, <1>3, <1>4, <1>5, <1>6 DEF WkAgrees

(* All bridges but one have stopped, or never ran, and their workers rest.    *)
Only(b) == Alone(b) /\ \A c \in Bridges \ {b} : wk[c].pc = "idle"

LEMMA SameOnward ==
  ASSUME UNCHANGED gens
  PROVE  Onward /\ \A d : Opens(d)
BY DEF Onward, Opens, Unsettled

LEMMA PrunedOnward ==
  ASSUME IInv, NEW r, gens' \in MaybePruned(gens, r)
  PROVE  /\ Onward /\ \A d \in Deliveries : Opens(d)
         /\ \A d \in Deliveries : gens'[d] = None \/ gens'[d] = gens[d]
<1>1. gens \in [Deliveries -> Gen \cup {None}]
  BY DEF IInv, TypeOK, DbTypeOK
<1>2. \A d \in Deliveries : gens'[d] = None \/ gens'[d] = gens[d]
  BY <1>1, PrunedValues
<1> QED
  BY <1>2 DEF Onward, Opens, Unsettled

(* _set_delivery_state settles one delivery, or repeats what is settled.      *)
LEMMA SettingOnward ==
  ASSUME IInv, NEW d \in Known, NEW s \in {"terminal", "acked"}, NEW out \in Outcomes \cup {""},
         NEW r, gens[d] # None, gens' \in MaybePruned(WithState(gens, d, s, out), r),
         SettledAs(d, out) \/ Unsettled(d)
  PROVE  /\ Onward
         /\ \A e \in Deliveries : e # d => Opens(e) /\ (gens'[e] = None \/ gens'[e] = gens[e])
         /\ SettledAs(d, out) => Opens(d)
         /\ gens'[d] = None \/ SettledAs(d, out)'
         /\ s = "terminal" /\ gens[d].state # "acked" =>
              gens'[d] = None \/ gens'[d].state # "acked"
<1> DEFINE g == WithState(gens, d, s, out)
<1>1. /\ gens \in [Deliveries -> Gen \cup {None}] /\ d \in Deliveries /\ gens[d] \in Gen
      /\ None \notin Gen
  BY KnownDeliveries, BridgeAssumption DEF IInv, TypeOK, DbTypeOK
<1>2. /\ g \in [Deliveries -> Gen \cup {None}]
      /\ \A e \in Deliveries : e # d => g[e] = gens[e]
      /\ g[d].state # "active" /\ g[d].outcome = out /\ g[d].active = gens[d].active
      /\ s = "terminal" /\ gens[d].state # "acked" => g[d].state # "acked"
  BY <1>1 DEF WithState, Gen
<1> HIDE DEF g
<1>3. \A e \in Deliveries : gens'[e] = None \/ gens'[e] = g[e]
  BY <1>2, PrunedValues DEF g
<1>4. \A e \in Deliveries : e # d => gens'[e] = None \/ gens'[e] = gens[e]
  BY <1>2, <1>3
<1>5. /\ gens'[d] = None \/ SettledAs(d, out)'
      /\ s = "terminal" /\ gens[d].state # "acked" => gens'[d] = None \/ gens'[d].state # "acked"
      /\ gens'[d] # None => gens'[d].active = gens[d].active
  BY <1>1, <1>2, <1>3 DEF SettledAs
<1>6. Onward
  <2> SUFFICES ASSUME NEW e \in Deliveries, gens'[e] # None
               PROVE  /\ gens[e] # None
                      /\ gens[e].state # "active" =>
                           gens'[e].state # "active" /\ gens'[e].outcome = gens[e].outcome
                      /\ gens'[e].active => gens[e].active
    BY DEF Onward
  <2>1. CASE e = d
    BY <1>5, <2>1 DEF SettledAs, Unsettled
  <2>2. CASE e # d
    BY <1>4, <2>2
  <2> QED
    BY <2>1, <2>2
<1> QED
  BY <1>1, <1>4, <1>5, <1>6 DEF Opens, Unsettled, SettledAs

LEMMA SetStateOnward ==
  ASSUME IInv, NEW d \in Known, NEW s \in {"terminal", "acked"}, NEW out \in Outcomes \cup {""},
         SetState(d, s, out), SettledAs(d, out) \/ Unsettled(d)
  PROVE  /\ Onward /\ rows' = rows
         /\ \A e \in Deliveries : e # d => Opens(e) /\ (gens'[e] = None \/ gens'[e] = gens[e])
         /\ SettledAs(d, out) => Opens(d)
         /\ gens'[d] = None \/ SettledAs(d, out)'
         /\ s = "terminal" /\ gens[d].state # "acked" =>
              gens'[d] = None \/ gens'[d].state # "acked"
<1>1. gens[d] # None /\ rows' = rows /\ gens' \in MaybePruned(WithState(gens, d, s, out), rows)
  BY DEF SetState
<1> QED
  BY <1>1, SettingOnward

(* A worker that rests, or may claim, knows nothing that could be wrong.      *)
LEMMA WkRests ==
  ASSUME NEW b, wk'[b].pc \in {"idle", "claim", "resched", "release"}
  PROVE  WkAgrees(b)'
BY DEF WkAgrees, WkKnows, WkOn

(* A worker past the record of the outcome.                                   *)
LEMMA WkGoesOn ==
  ASSUME NEW b, wk'[b].pc \notin {"look", "post", "terminal", "send"},
         gens'[wk'[b].d] = None \/ SettledAs(wk[b].d, wk[b].out)'
  PROVE  WkAgrees(b)'
BY DEF WkAgrees, WkKnows, WkOn

(* What a worker step has to show.                                            *)
LEMMA WorkerAgrees ==
  ASSUME IInv, TablesInv', NEW b \in Bridges, ThreadsAgree(b), cb' = cb, Onward,
         \A k \in Keys : rows'[k] # None => RowAgrees(k[2], rows'[k]),
         CbDelivers(b) => /\ Opens(cb[b].d) /\ ~WkOn(b, cb[b].d)'
                          /\ \A k \in Keys : rows[k] = None => rows'[k] = None,
         CbResumes(b) => Resumes(b)',
         WkAgrees(b)'
  PROVE  ThreadsAgree(b)'
<1>1. RowsAgree'
  BY RowsStay DEF TablesInv
<1>2. cb[b].pc # "idle" => gens'[cb[b].d] # None
  BY DEF TablesInv, CallbacksLive
<1>3. CbAgrees(b)'
  BY <1>2, CbStays DEF ThreadsAgree
<1> QED
  BY <1>1, <1>3 DEF ThreadsAgree

(* A worker step that leaves the tables alone.                                *)
LEMMA WorkerLooks ==
  ASSUME IInv, TablesInv', NEW b \in Bridges, ThreadsAgree(b), cb' = cb, UNCHANGED db,
         wk'[b].d = wk[b].d,
         WkOn(b, wk[b].d)' => WkOn(b, wk[b].d),
         CbResumes(b) /\ wk[b].d = cb[b].d => wk'[b].pc \notin WkSettles \cup {"fence"},
         WkAgrees(b)'
  PROVE  ThreadsAgree(b)'
<1>1. Onward /\ \A d : Opens(d)
  BY SameOnward DEF db
<1>2. \A k \in Keys : rows'[k] # None => RowAgrees(k[2], rows'[k])
  BY DEF ThreadsAgree, RowsAgree, db
<1>3. CbDelivers(b) => ~WkOn(b, cb[b].d)'
  BY DEF ThreadsAgree, CbAgrees, Delivers, WkOn
<1>4. CbResumes(b) => Resumes(b)'
  BY DEF ThreadsAgree, CbAgrees, Resumes, Unsettled, Unreferenced, db
<1> QED
  BY <1>1, <1>2, <1>3, <1>4, WorkerAgrees DEF db

(* What the worker knows of its delivery.                                     *)
LEMMA WkHas ==
  ASSUME IInv, NEW b \in Bridges, wk[b].pc \notin {"idle", "claim"}
  PROVE  /\ wk[b].d \in Known /\ wk[b].d \in Deliveries /\ WkKey(b) \in Keys
         /\ wk[b] \in WkRecord /\ wk \in [Bridges -> WkRecord]
         /\ wk[b].out \in Outcomes \cup {""}
<1>1. wk \in [Bridges -> WkRecord] /\ wk[b] \in WkRecord
  BY DEF IInv, TypeOK, MemoryTypeOK
<1> QED
  BY <1>1, KnownDeliveries DEF IInv, SafeInv, WkSafe, WkRecord, WkKey, Keys

-----------------------------------------------------------------------------
(* The worker's polls, claims, posts and PUBACKs keep the threads in agreement.*)
LEMMA WorkerLooksAgree ==
  ASSUME IInv, TablesInv', NEW b \in Bridges, ThreadsAgree(b),
         PollDue(b) \/ ClaimNothing(b) \/ LookUp(b) \/ RetryPost(b) \/ RetryAck(b)
  PROVE  ThreadsAgree(b)'
<1>1. /\ wk \in [Bridges -> WkRecord] /\ wk[b] \in WkRecord /\ WkAgrees(b)
      /\ cb' = cb /\ UNCHANGED db
  BY DEF ThreadsAgree, IInv, TypeOK, MemoryTypeOK, PollDue, ClaimNothing, LookUp, RetryPost,
         RetryAck
<1>2. ASSUME NEW pc \in {"idle", "claim", "resched", "release"}, WkGoto(b, pc)
      PROVE  ThreadsAgree(b)'
  <2>1. wk'[b].d = wk[b].d /\ wk'[b].pc = pc
    BY <1>1, <1>2 DEF WkGoto, WkRecord
  <2> QED
    BY <1>1, <2>1, WorkerLooks, WkRests DEF WkOn, WkSettles
<1>3. CASE PollDue(b) \/ ClaimNothing(b)
  BY <1>2, <1>3 DEF PollDue, ClaimNothing
<1>4. CASE LookUp(b)
  <2>1. CASE WkGoto(b, "release")
    BY <1>2, <2>1
  <2>2. CASE /\ Settled(gens[wk[b].d])
             /\ wk' = [wk EXCEPT ![b].pc = "terminal", ![b].out = gens[wk[b].d].outcome]
    <3>1. /\ wk[b].d \in Deliveries /\ gens[wk[b].d] \in Gen /\ gens[wk[b].d] # None
          /\ gens[wk[b].d].state # "active"
      BY <1>4, <2>2, WkHas DEF LookUp, WkAt, Settled, IInv, TypeOK, DbTypeOK
    <3>2. /\ wk'[b].d = wk[b].d /\ wk'[b].pc = "terminal" /\ wk'[b].op = wk[b].op
          /\ wk'[b].out = gens[wk[b].d].outcome
      BY <1>1, <2>2 DEF WkRecord
    <3>3. WkOn(b, wk[b].d) /\ wk[b].pc = "look"
      BY <1>4 DEF LookUp, WkAt, WkOn
    <3>4. WkAgrees(b)'
      BY <1>1, <3>1, <3>2, <3>3 DEF WkAgrees, WkKnows, SettledAs, Unsettled, WkKey, db
    <3> QED
      BY <1>1, <3>2, <3>3, <3>4, WorkerLooks DEF WkSettles
  <2>3. CASE /\ ~Settled(gens[wk[b].d])
             /\ wk' = [wk EXCEPT ![b].pc = IF wk[b].done THEN "terminal" ELSE "post"]
    <3>1. /\ wk'[b].d = wk[b].d /\ wk'[b].op = wk[b].op /\ wk'[b].out = wk[b].out
          /\ wk'[b].pc = IF wk[b].done THEN "terminal" ELSE "post"
      BY <1>1, <2>3 DEF WkRecord
    <3>2. WkOn(b, wk[b].d) /\ wk[b].pc = "look"
      BY <1>4 DEF LookUp, WkAt, WkOn
    <3>3. gens[wk[b].d] = None \/ Unsettled(wk[b].d)
      BY <2>3 DEF Settled, Unsettled
    <3>4. WkAgrees(b)'
      BY <1>1, <3>1, <3>2, <3>3 DEF WkAgrees, WkKnows, Unsettled, Live, WkOn, WkKey, db
    <3> QED
      BY <1>1, <3>1, <3>2, <3>4, WorkerLooks DEF WkSettles
  <2> QED
    BY <1>4, <2>1, <2>2, <2>3 DEF LookUp
<1>5. CASE RetryPost(b)
  <2>1. CASE wk' = [wk EXCEPT ![b].pc = "resched"]
    BY <1>2, <2>1 DEF WkGoto
  <2>2. ASSUME NEW out, wk' = [wk EXCEPT ![b].pc = "terminal", ![b].out = out]
        PROVE  ThreadsAgree(b)'
    <3>1. /\ wk'[b].d = wk[b].d /\ wk'[b].pc = "terminal" /\ wk'[b].op = wk[b].op
      BY <1>1, <2>2 DEF WkRecord
    <3>2. WkOn(b, wk[b].d) /\ wk[b].pc = "post"
      BY <1>5 DEF RetryPost, WkAt, WkOn
    <3>3. WkAgrees(b)'
      BY <1>1, <3>1, <3>2 DEF WkAgrees, WkKnows, Unsettled, Live, WkOn, WkKey, db
    <3> QED
      BY <1>1, <3>1, <3>2, <3>3, WorkerLooks DEF WkSettles
  <2> QED
    BY <1>5, <2>1, <2>2 DEF RetryPost
<1>6. CASE RetryAck(b)
  <2>1. wk[b].pc = "send" /\ (gens[wk[b].d] = None \/ SettledAs(wk[b].d, wk[b].out))
    BY <1>1, <1>6 DEF RetryAck, WkAt, WkAgrees, WkKnows
  <2>2. /\ wk'[b].pc \in {"mark", "unsent"}
        /\ wk'[b].d = wk[b].d /\ wk'[b].out = wk[b].out
    <3>1. CASE wk' = [wk EXCEPT ![b].pc = "mark", ![b].sent = TRUE]
      BY <1>1, <3>1 DEF WkRecord
    <3>2. CASE WkGoto(b, "unsent")
      BY <1>1, <3>2 DEF WkGoto, WkRecord
    <3> QED
      BY <1>6, <3>1, <3>2 DEF RetryAck
  <2>3. WkAgrees(b)'
    <3>1. gens'[wk'[b].d] = None \/ SettledAs(wk[b].d, wk[b].out)'
      BY <1>1, <2>1, <2>2 DEF SettledAs, db
    <3> QED
      BY <2>2, <3>1, WkGoesOn
  <2>4. ~(CbResumes(b) /\ wk[b].d = cb[b].d)
    BY <2>1 DEF ThreadsAgree, CbAgrees, Resumes, WkSettles
  <2> QED
    BY <1>1, <2>2, <2>3, <2>4, WorkerLooks DEF WkOn
<1> QED
  BY <1>3, <1>4, <1>5, <1>6

(* _claim_next_due takes a row that somebody inserted, so no callback still    *)
(* delivers its message.                                                      *)
LEMMA ClaimAgrees ==
  ASSUME IInv, TablesInv', NEW b \in Bridges, ThreadsAgree(b), NEW k \in Keys, ClaimRow(b, k)
  PROVE  ThreadsAgree(b)'
<1>1. /\ rows \in [Keys -> Row \cup {None}] /\ rows[k] \in Row /\ k = <<k[1], k[2]>>
      /\ wk \in [Bridges -> WkRecord] /\ k[1] \in Ops
  BY DEF ClaimRow, IInv, TypeOK, DbTypeOK, MemoryTypeOK, Keys
<1>2. /\ rows[k] # None /\ rows' = [rows EXCEPT ![k].claim = b] /\ cb' = cb /\ gens' = gens
      /\ wk' = [wk EXCEPT ![b] = [IdleWk EXCEPT !.pc = "look", !.op = k[1], !.d = k[2],
                                                !.done = rows[k].completed,
                                                !.out = rows[k].outcome]]
  BY DEF ClaimRow
<1>3. /\ wk'[b].pc = "look" /\ wk'[b].d = k[2] /\ wk'[b].op = k[1]
      /\ wk'[b].done = rows[k].completed /\ wk'[b].out = rows[k].outcome
  BY <1>1, <1>2 DEF IdleWk
<1>4. ASSUME NEW j \in Keys
      PROVE  /\ rows'[j] = None <=> rows[j] = None
             /\ rows[j] # None => /\ rows'[j].completed = rows[j].completed
                                  /\ rows'[j].outcome = rows[j].outcome
                                  /\ rows'[j].attempted = rows[j].attempted
                                  /\ rows'[j].acknowledged = rows[j].acknowledged
                                  /\ rows'[j].qos = rows[j].qos
  <2>1. CASE j = k
    <3>1. rows'[j] = [rows[k] EXCEPT !.claim = b] /\ rows'[j] \in Row
      BY <1>1, <1>2, <2>1 DEF Row
    <3>2. None \notin Row
      BY BridgeAssumption
    <3> QED
      BY ZenonT(60), <1>1, <1>2, <2>1, <3>1, <3>2 DEF Row
  <2>2. CASE j # k
    BY <1>1, <1>2, <2>2
  <2> QED
    BY <2>1, <2>2
<1>5. ASSUME NEW j \in Keys, rows'[j] # None PROVE RowAgrees(j[2], rows'[j])
  BY <1>4, <1>5 DEF ThreadsAgree, RowsAgree, RowAgrees
<1>6. Onward /\ \A d : Opens(d)
  BY <1>2, SameOnward
<1>7. CbDelivers(b) => ~WkOn(b, cb[b].d)'
  BY <1>1, <1>2, <1>3 DEF ThreadsAgree, CbAgrees, Delivers, Unreferenced, WkOn
<1>8. ASSUME CbResumes(b) PROVE Resumes(b)'
  <2>1. Resumes(b)
    BY <1>8 DEF ThreadsAgree, CbAgrees
  <2>2. cb[b].d \in Deliveries
    BY <1>8, CbInHand, KnownDeliveries DEF CbResumes
  <2>3. \A op \in Ops : <<op, cb[b].d>> \in Keys
    BY <2>2 DEF Keys
  <2>4. \A op \in Ops : rows'[<<op, cb[b].d>>] # None =>
          ~rows'[<<op, cb[b].d>>].attempted /\ ~rows'[<<op, cb[b].d>>].acknowledged
    BY <1>4, <2>1, <2>3 DEF Resumes
  <2>5. Unreferenced(cb[b].d, rows') => Unreferenced(cb[b].d, rows)
    BY <1>4, <2>3 DEF Unreferenced
  <2> QED
    BY <1>2, <1>3, <2>1, <2>4, <2>5 DEF Resumes, WkSettles, Unsettled
<1>9. WkAgrees(b)'
  <2>1. rows'[WkKey(b)'] # None
    BY <1>1, <1>2, <1>3, <1>4 DEF WkKey
  <2>2. rows[k].completed => SettledAs(k[2], rows[k].outcome)
    BY <1>2 DEF ThreadsAgree, RowsAgree, RowAgrees
  <2> QED
    BY <1>2, <1>3, <2>1, <2>2 DEF WkAgrees, WkKnows, SettledAs
<1> QED
  BY <1>2, <1>4, <1>5, <1>6, <1>7, <1>8, <1>9, WorkerAgrees

(* A worker step that touches its own delivery only.                          *)
LEMMA WorkerWorks ==
  ASSUME IInv, TablesInv', NEW b \in Bridges, ThreadsAgree(b), cb' = cb,
         NEW d \in Deliveries, wk[b].d = d, wk'[b].d = d,
         Onward,
         \A e \in Deliveries : e # d => Opens(e) /\ (gens'[e] = None \/ gens'[e] = gens[e]),
         \A k \in Keys : k[2] # d => rows'[k] = rows[k],
         \A k \in Keys : rows[k] = None => rows'[k] = None,
         \A k \in Keys : rows'[k] # None /\ k[2] = d => RowAgrees(d, rows'[k]),
         ~WkOn(b, d)',
         CbDelivers(b) /\ cb[b].d = d => Opens(d),
         CbResumes(b) /\ cb[b].d = d => Resumes(b)',
         WkAgrees(b)'
  PROVE  ThreadsAgree(b)'
<1>1. ASSUME NEW k \in Keys, rows'[k] # None PROVE RowAgrees(k[2], rows'[k])
  BY <1>1 DEF ThreadsAgree, RowsAgree
<1>2. cb[b].pc # "idle" => cb[b].d \in Deliveries /\ gens'[cb[b].d] # None
  BY CbInHand, KnownDeliveries DEF TablesInv, CallbacksLive
<1>3. ASSUME CbDelivers(b)
      PROVE  /\ Opens(cb[b].d) /\ ~WkOn(b, cb[b].d)'
             /\ \A k \in Keys : rows[k] = None => rows'[k] = None
  BY <1>2, <1>3 DEF CbDelivers, WkOn
<1>4. ASSUME CbResumes(b), cb[b].d # d PROVE Resumes(b)'
  <2>1. cb[b].d \in Deliveries /\ gens'[cb[b].d] = gens[cb[b].d] /\ Resumes(b)
    BY <1>2, <1>4 DEF CbResumes, ThreadsAgree, CbAgrees
  <2>2. \A op \in Ops : rows'[<<op, cb[b].d>>] = rows[<<op, cb[b].d>>]
    BY <1>4, <2>1 DEF Keys
  <2> QED
    BY <1>4, <2>1, <2>2 DEF Resumes, Unsettled, Unreferenced
<1> QED
  BY <1>1, <1>3, <1>4, WorkerAgrees

(* A worker that gives up leaves the tables alone.                            *)
LEMMA WorkerLeaves ==
  ASSUME IInv, TablesInv', NEW b \in Bridges, ThreadsAgree(b), cb' = cb, UNCHANGED db,
         NEW pc \in {"idle", "claim", "resched", "release"}, WkGoto(b, pc)
  PROVE  ThreadsAgree(b)'
<1>1. wk \in [Bridges -> WkRecord] /\ wk[b] \in WkRecord
  BY DEF IInv, TypeOK, MemoryTypeOK
<1>2. wk'[b].d = wk[b].d /\ wk'[b].pc = pc
  BY <1>1 DEF WkGoto, WkRecord
<1> QED
  BY <1>2, WorkerLooks, WkRests DEF WkOn, WkSettles

(* What is recorded before the worker takes _processing_lock.                 *)
LEMMA RetryTerminalAgrees ==
  ASSUME IInv, TablesInv, TablesInv', NEW b \in Bridges, ThreadsAgree(b), RetryTerminal(b)
  PROVE  ThreadsAgree(b)'
<1>1. /\ wk[b].pc = "terminal" /\ cb' = cb /\ WkAgrees(b)
      /\ wk[b].d \in Known /\ wk[b].d \in Deliveries /\ WkKey(b) \in Keys
      /\ wk[b] \in WkRecord /\ wk \in [Bridges -> WkRecord]
      /\ wk[b].out \in Outcomes \cup {""}
  BY WkHas DEF RetryTerminal, WkAt, ThreadsAgree
<1>2. CASE WkGoto(b, "release") /\ UNCHANGED db
  BY <1>1, <1>2, WorkerLeaves
<1>3. CASE /\ SetState(wk[b].d, "terminal", wk[b].out)
           /\ wk' = [wk EXCEPT ![b].pc = "fence", ![b].acked = gens[wk[b].d].state = "acked"]
  <2>1. PICK d \in Known : d = wk[b].d
    BY <1>1
  <2>2. /\ wk'[b].d = d /\ wk'[b].pc = "fence" /\ wk'[b].out = wk[b].out
        /\ wk'[b].acked = (gens[d].state = "acked")
    BY <1>1, <1>3, <2>1 DEF WkRecord
  <2>3. SettledAs(d, wk[b].out) \/ Unsettled(d)
    BY <1>1, <1>3, <2>1 DEF WkAgrees, SetState
  <2>4. /\ Onward /\ rows' = rows
        /\ \A e \in Deliveries : e # d => Opens(e) /\ (gens'[e] = None \/ gens'[e] = gens[e])
        /\ SettledAs(d, wk[b].out) => Opens(d)
        /\ gens'[d] = None \/ (gens'[d].state # "active" /\ gens'[d].outcome = wk[b].out)
        /\ gens[d].state # "acked" => gens'[d] = None \/ gens'[d].state # "acked"
    <3>1. PICK out \in Outcomes \cup {""} : out = wk[b].out
      BY <1>1
    <3>2. SetState(d, "terminal", out) /\ (SettledAs(d, out) \/ Unsettled(d))
      BY <1>3, <2>1, <2>3, <3>1
    <3>3. gens'[d] = None \/ SettledAs(d, out)'
      BY <3>2, SetStateOnward
    <3> QED
      BY <3>1, <3>2, <3>3, SetStateOnward DEF SettledAs
  <2>5. WkAgrees(b)'
    <3>1. gens'[wk'[b].d] = None \/ SettledAs(wk[b].d, wk[b].out)'
      BY <2>1, <2>2, <2>4 DEF SettledAs
    <3> QED
      BY <2>2, <3>1, WkGoesOn
  <2>6. ~(CbDelivers(b) /\ cb[b].d = d)
    BY <1>1, <2>1 DEF ThreadsAgree, CbAgrees, Delivers, WkOn
  <2>7. ASSUME CbResumes(b), cb[b].d = d PROVE Resumes(b)'
    <3>1. Resumes(b) /\ Live(d) /\ gens'[d] # None
      BY <1>1, <2>7 DEF CbResumes, ThreadsAgree, CbAgrees, TablesInv, CallbacksLive, Live
    <3>2. gens[d].state # "acked" /\ gens'[d].state # "acked"
      BY <2>4, <2>7, <3>1 DEF Resumes
    <3>3. ~Unreferenced(d, rows)
      <4>1. CASE Unsettled(d)
        <5>1. WkKey(b) = <<wk[b].op, d>> /\ wk[b].op \in Ops /\ rows[WkKey(b)] # None
          BY <1>1, <2>1, <3>1, <4>1 DEF WkAgrees, WkOn, WkKey, WkRecord
        <5> QED
          BY <5>1 DEF Unreferenced
      <4>2. CASE ~Unsettled(d)
        BY <2>7, <3>1, <4>2 DEF Resumes
      <4> QED
        BY <4>1, <4>2
    <3> QED
      BY <1>1, <2>2, <2>4, <2>7, <3>1, <3>2, <3>3 DEF Resumes, WkSettles, Unreferenced
  <2>8. \A k \in Keys : rows'[k] # None /\ k[2] = d => RowAgrees(d, rows'[k])
    BY <2>4 DEF ThreadsAgree, RowsAgree
  <2>9. ~WkOn(b, d)' /\ d \in Deliveries
    BY <1>1, <2>1, <2>2 DEF WkOn
  <2> QED
    BY <1>1, <2>1, <2>2, <2>4, <2>5, <2>6, <2>7, <2>8, <2>9, WorkerWorks
<1> QED
  BY <1>2, <1>3 DEF RetryTerminal

LEMMA WaitsWhenOwed ==
  ASSUME NEW b, NEW row, row.qos = 1, ~row.attempted, ~wk[b].acked
  PROVE  AwaitsTarget(b, row)
BY DEF AwaitsTarget

(* The fence: a row of a delivery that a DUP resumes waits for its target.    *)
LEMMA FenceAgrees ==
  ASSUME IInv, TablesInv, TablesInv', NEW b \in Bridges, ThreadsAgree(b), FenceRow(b)
  PROVE  ThreadsAgree(b)'
<1>1. /\ wk[b].pc = "fence" /\ cb' = cb /\ WkAgrees(b)
      /\ wk[b].d \in Deliveries /\ WkKey(b) \in Keys
      /\ wk[b] \in WkRecord /\ wk \in [Bridges -> WkRecord]
      /\ rows \in [Keys -> Row \cup {None}]
  BY WkHas DEF FenceRow, WkAt, ThreadsAgree, IInv, TypeOK, DbTypeOK
<1>2. CASE WkGoto(b, "release") /\ UNCHANGED db
  BY <1>1, <1>2, WorkerLeaves
<1>3. ASSUME Owns(b), UNCHANGED gens, NEW claim \in {"", b},
             NEW pc \in {"release", "settle", "ack", "retire"}, WkGoto(b, pc),
             rows' = [rows EXCEPT ![WkKey(b)] =
                        [rows[WkKey(b)] EXCEPT !.completed = TRUE, !.outcome = wk[b].out,
                                               !.claim = claim]],
             pc \in {"settle", "retire"} =>
               rows[WkKey(b)].acknowledged \/ ~AwaitsTarget(b, rows[WkKey(b)])
      PROVE  ThreadsAgree(b)'
  <2>0. PICK d \in Deliveries : wk[b].d = d
    BY <1>1
  <2> DEFINE row == rows[WkKey(b)]
             new == [row EXCEPT !.completed = TRUE, !.outcome = wk[b].out, !.claim = claim]
  <2>1. /\ WkKey(b)[2] = d /\ row # None /\ row \in Row
        /\ wk'[b].d = d /\ wk'[b].pc = pc /\ wk'[b].out = wk[b].out
    BY <2>0, <1>1, <1>3 DEF Owns, WkKey, WkGoto, WkRecord
  <2>2. SettledAs(d, wk[b].out)
    <3>1. gens[d] # None
      BY <2>0, <1>1, <2>1 DEF TablesInv, RowsHaveGeneration
    <3> QED
      BY <2>0, <1>1, <3>1 DEF WkAgrees, WkKnows
  <2>3. /\ new.completed /\ new.outcome = wk[b].out /\ new.attempted = row.attempted
        /\ new.acknowledged = row.acknowledged /\ new.qos = row.qos
    BY <2>1 DEF Row
  <2>4. RowAgrees(d, row)
    BY <2>0, <1>1, <2>1 DEF ThreadsAgree, RowsAgree
  <2>5. RowAgrees(d, new)
    BY <2>2, <2>3, <2>4 DEF RowAgrees
  <2>6. /\ rows'[WkKey(b)] = new
        /\ \A k \in Keys : k # WkKey(b) => rows'[k] = rows[k]
    BY <2>0, <1>1, <1>3
  <2>6a. new # None
    <3>1. new \in Row
      BY <2>0, <1>1, <1>3, <2>1 DEF Row, WkRecord
    <3> QED
      BY <3>1, BridgeAssumption
  <2>7. WkAgrees(b)'
    <3>1. gens'[wk'[b].d] = None \/ SettledAs(wk[b].d, wk[b].out)'
      BY <2>0, <1>3, <2>1, <2>2 DEF SettledAs
    <3> QED
      BY <2>0, <1>3, <2>1, <3>1, WkGoesOn
  <2>8. Onward /\ \A e : Opens(e)
    BY <2>0, <1>3, SameOnward
  <2>9. ASSUME CbResumes(b), cb[b].d = d PROVE Resumes(b)'
    <3>1. Resumes(b) /\ Live(d)
      BY <2>0, <1>1, <2>9 DEF CbResumes, ThreadsAgree, CbAgrees, TablesInv, CallbacksLive, Live
    <3>2. wk[b].op \in Ops /\ WkKey(b) = <<wk[b].op, cb[b].d>>
      BY <2>0, <1>1, <2>9 DEF WkKey, WkRecord
    <3>3. ~row.attempted /\ ~row.acknowledged /\ ~wk[b].acked
      BY <2>0, <1>1, <2>1, <2>9, <3>1, <3>2 DEF Resumes
    <3>4. row.qos = 1
      BY <2>4, <3>1 DEF RowAgrees
    <3>5. pc \notin WkSettles \cup {"fence"}
      <4>1. AwaitsTarget(b, row)
        BY <3>3, <3>4, WaitsWhenOwed
      <4>2. pc \notin {"settle", "retire"}
        BY <2>0, <1>3, <3>3, <4>1
      <4> QED
        BY <2>0, <1>3, <4>2 DEF WkSettles
    <3>6. ASSUME NEW op \in Ops, rows'[<<op, cb[b].d>>] # None
          PROVE  ~rows'[<<op, cb[b].d>>].attempted /\ ~rows'[<<op, cb[b].d>>].acknowledged
      <4> HIDE DEF new, row
      <4>1. <<op, cb[b].d>> \in Keys
        BY <2>0, <1>1, <2>9 DEF Keys
      <4>2. CASE <<op, cb[b].d>> = WkKey(b)
        BY <2>3, <2>6, <3>3, <4>2
      <4>3. CASE <<op, cb[b].d>> # WkKey(b)
        BY <2>6, <3>1, <3>6, <4>1, <4>3 DEF Resumes
      <4> QED
        BY <4>2, <4>3
    <3>7. ~Unreferenced(cb[b].d, rows')
      BY <2>6, <2>6a, <3>2 DEF Unreferenced
    <3> QED
      BY <2>0, <1>1, <1>3, <2>1, <3>1, <3>5, <3>6, <3>7 DEF Resumes
  <2>10. ~WkOn(b, d)'
    BY <2>0, <1>3, <2>1 DEF WkOn
  <2> HIDE DEF new, row
  <2>11. /\ \A k \in Keys : k[2] # d => rows'[k] = rows[k]
         /\ \A k \in Keys : rows[k] = None => rows'[k] = None
         /\ \A k \in Keys : rows'[k] # None /\ k[2] = d => RowAgrees(d, rows'[k])
    BY <2>0, <2>1, <2>5, <2>6 DEF ThreadsAgree, RowsAgree, row
  <2> QED
    BY <2>0, <1>1, <1>3, <2>1, <2>7, <2>8, <2>9, <2>10, <2>11, WorkerWorks
<1>4. ASSUME Owns(b), NEW pc \in {"release", "settle", "ack", "retire"}, WkGoto(b, pc),
             UNCHANGED <<epoch, packet, gens, minted>>,
             pc \in {"settle", "retire"} =>
               rows[WkKey(b)].acknowledged \/ ~AwaitsTarget(b, rows[WkKey(b)]),
             NEW done, done = [rows EXCEPT ![WkKey(b)].completed = TRUE,
                                           ![WkKey(b)].outcome = wk[b].out],
             rows' = [done EXCEPT ![WkKey(b)].claim = ""] \/ rows' = done
      PROVE  ThreadsAgree(b)'
  <2>1. rows[WkKey(b)] \in Row /\ rows[WkKey(b)].claim = b
    BY <1>1, <1>4 DEF Owns
  <2>2. CASE rows' = [done EXCEPT ![WkKey(b)].claim = ""]
    <3>1. rows' = [rows EXCEPT ![WkKey(b)] =
                     [rows[WkKey(b)] EXCEPT !.completed = TRUE, !.outcome = wk[b].out,
                                            !.claim = ""]]
      BY <1>1, <1>4, <2>1, <2>2 DEF Row
    <3> QED
      BY <1>3, <1>4, <3>1
  <2>3. CASE rows' = done
    <3>1. rows' = [rows EXCEPT ![WkKey(b)] =
                     [rows[WkKey(b)] EXCEPT !.completed = TRUE, !.outcome = wk[b].out,
                                            !.claim = b]]
      BY <1>1, <1>4, <2>1, <2>3 DEF Row
    <3> QED
      BY <1>3, <1>4, <3>1
  <2> QED
    BY <1>4, <2>2, <2>3
<1> QED
  BY <1>2, <1>4 DEF FenceRow

(* A worker past the record of the outcome goes on, and leaves the tables     *)
(* alone.                                                                     *)
LEMMA WorkerMoves ==
  ASSUME IInv, TablesInv', NEW b \in Bridges, ThreadsAgree(b), cb' = cb, UNCHANGED db,
         wk[b].pc \notin {"idle", "claim", "look", "post", "terminal", "resched", "release"},
         NEW pc \in {"ack", "send", "unsent", "mark", "settle", "delete", "stale", "unacked"},
         WkGoto(b, pc),
         pc = "send" => Live(wk[b].d),
         CbResumes(b) /\ wk[b].d = cb[b].d => pc \notin WkSettles
  PROVE  ThreadsAgree(b)'
<1>1. wk'[b].d = wk[b].d /\ wk'[b].pc = pc /\ wk'[b].out = wk[b].out
  BY WkHas DEF WkGoto, WkRecord
<1>2. gens[wk[b].d] = None \/ SettledAs(wk[b].d, wk[b].out)
  BY DEF ThreadsAgree, WkAgrees, WkKnows
<1>3. WkAgrees(b)'
  BY <1>1, <1>2 DEF WkAgrees, WkKnows, WkOn, SettledAs, Live, db
<1>4. ~WkOn(b, wk[b].d)'
  BY <1>1 DEF WkOn
<1> QED
  BY <1>1, <1>3, <1>4, WorkerLooks

(* A worker step that gives the claim up, or tries to.                        *)
LEMMA WorkerQuits ==
  ASSUME IInv, TablesInv', NEW b \in Bridges, ThreadsAgree(b), cb' = cb, UNCHANGED gens,
         wk[b].pc \notin {"idle", "claim"},
         rows' = Unclaimed(b) \/ rows' = rows,
         wk'[b].pc \in {"idle", "release"}
  PROVE  ThreadsAgree(b)'
<1>1. rows \in [Keys -> Row \cup {None}] /\ WkKey(b) \in Keys /\ None \notin Row
  BY WkHas, BridgeAssumption DEF IInv, TypeOK, DbTypeOK
<1>2. ASSUME NEW k \in Keys
      PROVE  /\ rows'[k] = None <=> rows[k] = None
             /\ rows[k] # None =>
                  /\ rows'[k].completed = rows[k].completed /\ rows'[k].outcome = rows[k].outcome
                  /\ rows'[k].attempted = rows[k].attempted
                  /\ rows'[k].acknowledged = rows[k].acknowledged /\ rows'[k].qos = rows[k].qos
  <2>1. CASE rows' = rows
    BY <2>1
  <2>2. CASE rows' = [rows EXCEPT ![WkKey(b)].claim = ""] /\ k = WkKey(b) /\ Owns(b)
    <3>1. rows[k] \in Row
      BY <1>1, <2>2 DEF Owns
    <3>2. PICK r \in Row : r = rows[k]
      BY <3>1
    <3>3. rows'[k] = [r EXCEPT !.claim = ""]
      BY <1>1, <2>2, <3>2
    <3>4. [r EXCEPT !.claim = ""] \in Row
      BY DEF Row
    <3> QED
      BY ZenonT(60), <1>1, <3>2, <3>3, <3>4 DEF Row
  <2>3. CASE rows' = [rows EXCEPT ![WkKey(b)].claim = ""] /\ k # WkKey(b)
    BY <1>1, <2>3
  <2> QED
    BY <2>1, <2>2, <2>3 DEF Unclaimed
<1>3. Onward /\ \A d : Opens(d)
  BY SameOnward
<1>4. \A k \in Keys : rows'[k] # None => RowAgrees(k[2], rows'[k])
  BY <1>2 DEF ThreadsAgree, RowsAgree, RowAgrees
<1>5. WkAgrees(b)' /\ \A d : ~WkOn(b, d)'
  BY WkRests DEF WkOn
<1>6. ASSUME CbResumes(b) PROVE Resumes(b)'
  <2>1. Resumes(b) /\ cb[b].d \in Deliveries
    BY <1>6, CbInHand, KnownDeliveries DEF ThreadsAgree, CbAgrees, CbResumes
  <2>2. ASSUME NEW op \in Ops
        PROVE  /\ rows'[<<op, cb[b].d>>] = None <=> rows[<<op, cb[b].d>>] = None
               /\ rows'[<<op, cb[b].d>>] # None =>
                    ~rows'[<<op, cb[b].d>>].attempted /\ ~rows'[<<op, cb[b].d>>].acknowledged
    <3>1. PICK k \in Keys : k = <<op, cb[b].d>>
      BY <2>1 DEF Keys
    <3> QED
      BY <1>2, <2>1, <3>1 DEF Resumes
  <2> QED
    BY <2>1, <2>2 DEF Resumes, WkSettles, Unreferenced, Unsettled
<1> QED
  BY <1>2, <1>3, <1>4, <1>5, <1>6, WorkerAgrees

LEMMA QuitAgrees ==
  ASSUME IInv, TablesInv', NEW b \in Bridges, ThreadsAgree(b),
         RescheduleClaimed(b) \/ ReleaseClaim(b)
  PROVE  ThreadsAgree(b)'
<1>1. /\ wk[b].pc \in {"resched", "unacked", "release"} /\ cb' = cb /\ gens' = gens
      /\ rows' = Unclaimed(b) \/ rows' = rows
      /\ wk \in [Bridges -> WkRecord] /\ wk[b] \in WkRecord
  BY DEF RescheduleClaimed, ReleaseClaim, WkAt, IInv, TypeOK, MemoryTypeOK
<1>2. wk'[b].pc \in {"idle", "release"}
  <2>1. CASE RescheduleClaimed(b)
    <3>1. wk' = [wk EXCEPT ![b].pc = "release"]
      BY <2>1 DEF RescheduleClaimed, WkGoto
    <3> QED
      BY <1>1, <3>1 DEF WkRecord
  <2>2. CASE ReleaseClaim(b)
    <3>1. wk'[b] = IdleWk
      BY <1>1, <2>2 DEF ReleaseClaim
    <3>2. IdleWk.pc = "idle"
      BY DEF IdleWk
    <3> QED
      BY <3>1, <3>2
  <2> QED
    BY <2>1, <2>2
<1> QED
  BY <1>1, <1>2, WorkerQuits

(* The intent to acknowledge, while no callback runs.                         *)
LEMMA AckIntentAgrees ==
  ASSUME IInv, TablesInv, TablesInv', NEW b \in Bridges, ThreadsAgree(b), AckIntent(b)
  PROVE  ThreadsAgree(b)'
<1>1. /\ wk[b].pc = "ack" /\ cb' = cb /\ WkAgrees(b)
      /\ wk[b].d \in Deliveries /\ WkKey(b) \in Keys
      /\ wk[b] \in WkRecord /\ wk \in [Bridges -> WkRecord]
      /\ rows \in [Keys -> Row \cup {None}]
  BY WkHas DEF AckIntent, WkAt, ThreadsAgree, IInv, TypeOK, DbTypeOK
<1>2. CASE WkGoto(b, "release") /\ UNCHANGED db
  BY <1>1, <1>2, WorkerLeaves
<1>3. CASE WkGoto(b, "unacked") /\ UNCHANGED db
  BY <1>1, <1>3, WorkerMoves DEF WkSettles
<1>4. CASE cb[b].pc = "idle" /\ WkGoto(b, "stale") /\ UNCHANGED db
  BY <1>1, <1>4, WorkerMoves DEF CbResumes
<1>5. CASE /\ cb[b].pc = "idle" /\ Current(b) /\ Owns(b) /\ WkGoto(b, "send") /\ gens' = gens
           /\ rows' = [rows EXCEPT ![WkKey(b)].attempted = TRUE]
  <2>1. PICK d \in Deliveries : wk[b].d = d
    BY <1>1
  <2>2. /\ wk'[b].d = d /\ wk'[b].pc = "send" /\ wk'[b].out = wk[b].out
        /\ WkKey(b)[2] = d
    BY <1>1, <1>5, <2>1 DEF WkGoto, WkRecord, WkKey
  <2>3. Live(d) /\ SettledAs(d, wk[b].out) /\ gens[d] # None
    BY <1>1, <1>5, <2>1 DEF Current, Live, WkAgrees, WkKnows
  <2>4. PICK r \in Row : r = rows[WkKey(b)]
    BY <1>1, <1>5 DEF Owns
  <2>5. PICK new \in Row : new = [r EXCEPT !.attempted = TRUE]
    BY DEF Row
  <2>6. /\ new.completed = r.completed /\ new.outcome = r.outcome /\ new.qos = r.qos
        /\ new.acknowledged = r.acknowledged /\ new # None
    BY <2>5, BridgeAssumption DEF Row
  <2>7. rows'[WkKey(b)] = new /\ \A k \in Keys : k # WkKey(b) => rows'[k] = rows[k]
    BY <1>1, <1>5, <2>4, <2>5
  <2>8. RowAgrees(d, new)
    <3>1. RowAgrees(d, r)
      BY <1>1, <1>5, <2>2, <2>4 DEF ThreadsAgree, RowsAgree, Owns
    <3> QED
      BY <2>3, <2>6, <3>1 DEF RowAgrees, SettledAs, Unsettled
  <2>9. /\ \A k \in Keys : k[2] # d => rows'[k] = rows[k]
        /\ \A k \in Keys : rows[k] = None => rows'[k] = None
        /\ \A k \in Keys : rows'[k] # None /\ k[2] = d => RowAgrees(d, rows'[k])
    BY <1>5, <2>2, <2>7, <2>8 DEF ThreadsAgree, RowsAgree, Owns
  <2>10. Onward /\ \A e : Opens(e)
    BY <1>5, SameOnward
  <2>11. WkAgrees(b)'
    BY <1>5, <2>2, <2>3 DEF WkAgrees, WkKnows, WkOn, SettledAs, Live
  <2>12. ~CbDelivers(b) /\ ~CbResumes(b) /\ ~WkOn(b, d)'
    BY <1>5, <2>2 DEF CbDelivers, CbResumes, WkOn
  <2> QED
    BY <1>1, <1>5, <2>1, <2>2, <2>9, <2>10, <2>11, <2>12, WorkerWorks
<1> QED
  BY <1>1, <1>2, <1>3, <1>4, <1>5 DEF AckIntent

(* The worker marks the row of what is settled.                               *)
LEMMA WorkerMarks ==
  ASSUME IInv, TablesInv, TablesInv', NEW b \in Bridges, ThreadsAgree(b), cb' = cb, UNCHANGED gens,
         wk[b].pc \in WkSettles, NEW pc \in {"unacked", "settle"}, WkGoto(b, pc),
         NEW r \in Row, r = rows[WkKey(b)], NEW new \in Row,
         new.completed = r.completed, new.outcome = r.outcome, new.qos = r.qos,
         rows' = [rows EXCEPT ![WkKey(b)] = new]
  PROVE  ThreadsAgree(b)'
<1>1. /\ wk[b].pc \notin {"idle", "claim", "look", "post", "terminal", "resched", "release"}
      /\ wk[b].d \in Deliveries /\ WkKey(b) \in Keys /\ wk[b] \in WkRecord
      /\ wk \in [Bridges -> WkRecord] /\ rows \in [Keys -> Row \cup {None}] /\ None \notin Row
  BY WkHas, BridgeAssumption DEF WkSettles, IInv, TypeOK, DbTypeOK
<1>2. PICK d \in Deliveries : wk[b].d = d
  BY <1>1
<1>3. /\ wk'[b].d = d /\ wk'[b].pc = pc /\ wk'[b].out = wk[b].out /\ WkKey(b)[2] = d
  BY <1>1, <1>2 DEF WkGoto, WkRecord, WkKey
<1>4. gens[d] # None
  BY <1>1, <1>3 DEF TablesInv, RowsHaveGeneration
<1>5. SettledAs(d, wk[b].out)
  BY <1>1, <1>2, <1>4 DEF ThreadsAgree, WkAgrees, WkKnows
<1>6. RowAgrees(d, new)
  <2>1. RowAgrees(d, r)
    BY <1>1, <1>3 DEF ThreadsAgree, RowsAgree
  <2> QED
    BY <1>5, <2>1 DEF RowAgrees, SettledAs, Unsettled
<1>7. rows'[WkKey(b)] = new /\ \A k \in Keys : k # WkKey(b) => rows'[k] = rows[k]
  BY <1>1
<1>8. /\ \A k \in Keys : k[2] # d => rows'[k] = rows[k]
      /\ \A k \in Keys : rows[k] = None => rows'[k] = None
      /\ \A k \in Keys : rows'[k] # None /\ k[2] = d => RowAgrees(d, rows'[k])
  BY <1>1, <1>3, <1>6, <1>7 DEF ThreadsAgree, RowsAgree
<1>9. Onward /\ \A e : Opens(e)
  BY SameOnward
<1>10. WkAgrees(b)'
  BY <1>3, <1>5 DEF WkAgrees, WkKnows, WkOn, SettledAs
<1>11. ~WkOn(b, d)' /\ ~(CbResumes(b) /\ cb[b].d = d)
  BY <1>2, <1>3 DEF WkOn, ThreadsAgree, CbAgrees, Resumes
<1> QED
  BY <1>2, <1>3, <1>8, <1>9, <1>10, <1>11, WorkerWorks

LEMMA UnackAgrees ==
  ASSUME IInv, TablesInv, TablesInv', NEW b \in Bridges, ThreadsAgree(b), RetryUnack(b)
  PROVE  ThreadsAgree(b)'
<1>1. /\ wk[b].pc = "unsent" /\ cb' = cb /\ gens' = gens
      /\ WkKey(b) \in Keys /\ rows \in [Keys -> Row \cup {None}] /\ None \notin Row
  BY WkHas, BridgeAssumption DEF RetryUnack, WkAt, IInv, TypeOK, DbTypeOK
<1>2. CASE WkGoto(b, "release") /\ UNCHANGED rows
  BY <1>1, <1>2, WorkerLeaves DEF RetryUnack, db
<1>3. CASE WkGoto(b, "unacked") /\ UNCHANGED rows
  BY <1>1, <1>3, WorkerMoves DEF RetryUnack, WkSettles, db
<1>4. CASE /\ WkGoto(b, "unacked") /\ Owns(b)
           /\ rows' = [rows EXCEPT ![WkKey(b)].attempted = FALSE]
  <2>1. PICK r \in Row : r = rows[WkKey(b)]
    BY <1>1, <1>4 DEF Owns
  <2>2. PICK new \in Row : new = [r EXCEPT !.attempted = FALSE]
    BY DEF Row
  <2>3. rows' = [rows EXCEPT ![WkKey(b)] = new]
    BY <1>4, <2>1, <2>2
  <2>4. new.completed = r.completed /\ new.outcome = r.outcome /\ new.qos = r.qos
    BY <2>2 DEF Row
  <2> QED
    BY <1>1, <1>4, <2>1, <2>3, <2>4, WorkerMarks DEF WkSettles
<1> QED
  BY <1>2, <1>3, <1>4 DEF RetryUnack

LEMMA MarkAgrees ==
  ASSUME IInv, TablesInv, TablesInv', NEW b \in Bridges, ThreadsAgree(b), MarkAcknowledged(b)
  PROVE  ThreadsAgree(b)'
<1>1. /\ wk[b].pc = "mark" /\ cb' = cb /\ WkGoto(b, "settle")
      /\ WkKey(b) \in Keys /\ rows \in [Keys -> Row \cup {None}] /\ None \notin Row
  BY WkHas, BridgeAssumption DEF MarkAcknowledged, WkAt, IInv, TypeOK, DbTypeOK
<1>2. CASE UNCHANGED db
  <2>1. ~(CbResumes(b) /\ wk[b].d = cb[b].d)
    BY <1>1 DEF ThreadsAgree, CbAgrees, Resumes, WkSettles
  <2> QED
    BY <1>1, <1>2, <2>1, WorkerMoves
<1>3. CASE /\ UNCHANGED <<epoch, packet, gens, minted>>
           /\ rows' = [rows EXCEPT ![WkKey(b)] =
                         IF @ = None THEN None ELSE [@ EXCEPT !.acknowledged = TRUE]]
  <2>1. CASE rows[WkKey(b)] = None
    <3>1. rows' = rows
      BY <1>1, <1>3, <2>1
    <3> QED
      BY <1>2, <1>3, <3>1 DEF db
  <2>2. CASE rows[WkKey(b)] # None
    <3>1. PICK r \in Row : r = rows[WkKey(b)]
      BY <1>1, <2>2
    <3>2. PICK new \in Row : new = [r EXCEPT !.acknowledged = TRUE]
      BY DEF Row
    <3>3. rows' = [rows EXCEPT ![WkKey(b)] = new]
      BY <1>3, <2>2, <3>1, <3>2
    <3>4. new.completed = r.completed /\ new.outcome = r.outcome /\ new.qos = r.qos
      BY <3>2 DEF Row
    <3> QED
      BY <1>1, <1>3, <3>1, <3>3, <3>4, WorkerMarks DEF WkSettles
  <2> QED
    BY <2>1, <2>2
<1> QED
  BY <1>2, <1>3 DEF MarkAcknowledged

LEMMA SettleAgrees ==
  ASSUME IInv, TablesInv, TablesInv', NEW b \in Bridges, ThreadsAgree(b), SettleAcked(b)
  PROVE  ThreadsAgree(b)'
<1>1. /\ wk[b].pc = "settle" /\ cb' = cb
      /\ wk[b].d \in Known /\ wk[b] \in WkRecord /\ wk \in [Bridges -> WkRecord]
      /\ ~(CbResumes(b) /\ wk[b].d = cb[b].d)
      /\ gens[wk[b].d] = None \/ SettledAs(wk[b].d, wk[b].out)
      /\ WkAgrees(b)
  BY WkHas DEF SettleAcked, WkAt, ThreadsAgree, CbAgrees, Resumes, WkSettles, WkAgrees, WkKnows
<1>2. CASE WkGoto(b, "release") /\ UNCHANGED db
  BY <1>1, <1>2, WorkerLeaves
<1>3. CASE WkGoto(b, "delete") /\ UNCHANGED db
  BY <1>1, <1>3, WorkerMoves
<1>4. CASE SetState(wk[b].d, "acked", wk[b].out) /\ WkGoto(b, "delete")
  <2>1. PICK d \in Known : d = wk[b].d
    BY <1>1
  <2>2. PICK out \in Outcomes \cup {""} : out = wk[b].out
    BY <1>1 DEF WkRecord
  <2>3. SetState(d, "acked", out) /\ SettledAs(d, out) /\ d \in Deliveries
    BY <1>1, <1>4, <2>1, <2>2, KnownDeliveries DEF SetState
  <2>4. /\ Onward /\ rows' = rows /\ Opens(d) /\ (gens'[d] = None \/ SettledAs(d, out)')
        /\ \A e \in Deliveries : e # d => Opens(e) /\ (gens'[e] = None \/ gens'[e] = gens[e])
    BY <2>3, SetStateOnward
  <2>5. wk'[b].d = d /\ wk'[b].pc = "delete" /\ wk'[b].out = out
    BY <1>1, <1>4, <2>1, <2>2 DEF WkGoto, WkRecord
  <2>6. WkAgrees(b)'
    BY <2>4, <2>5 DEF WkAgrees, WkKnows, WkOn, SettledAs
  <2>7. ~WkOn(b, d)'
    BY <2>5 DEF WkOn
  <2>8. \A k \in Keys : rows'[k] # None /\ k[2] = d => RowAgrees(d, rows'[k])
    BY <2>4 DEF ThreadsAgree, RowsAgree
  <2> QED
    BY <1>1, <2>1, <2>3, <2>4, <2>5, <2>6, <2>7, <2>8, WorkerWorks
<1> QED
  BY <1>2, <1>3, <1>4 DEF SettleAcked

LEMMA DeleteAgrees ==
  ASSUME IInv, TablesInv, TablesInv', NEW b \in Bridges, ThreadsAgree(b), DeleteRow(b)
  PROVE  ThreadsAgree(b)'
<1>1. /\ wk[b].pc \in {"delete", "retire", "stale"} /\ cb' = cb /\ WkGoto(b, "release")
      /\ wk[b].d \in Deliveries /\ wk[b] \in WkRecord /\ wk \in [Bridges -> WkRecord]
      /\ WkKey(b)[2] = wk[b].d /\ WkKey(b) \in Keys
      /\ ~(CbResumes(b) /\ wk[b].d = cb[b].d)
  BY WkHas DEF DeleteRow, ThreadsAgree, CbAgrees, Resumes, WkSettles, WkKey
<1>2. CASE UNCHANGED db
  BY <1>1, <1>2, WorkerLeaves
<1>3. CASE /\ rows' = IF Owns(b) THEN WithoutRows(rows, {WkKey(b)}) ELSE rows
           /\ gens' \in MaybePruned(gens, rows')
  <2>1. PICK d \in Deliveries : d = wk[b].d
    BY <1>1
  <2>2. /\ Onward /\ \A e \in Deliveries : Opens(e)
        /\ \A e \in Deliveries : gens'[e] = None \/ gens'[e] = gens[e]
    BY <1>3, PrunedOnward
  <2>3. \A k \in Keys : rows'[k] = rows[k] \/ (rows'[k] = None /\ k[2] = d)
    BY <1>1, <1>3, <2>1 DEF WithoutRows
  <2>4. /\ \A k \in Keys : k[2] # d => rows'[k] = rows[k]
        /\ \A k \in Keys : rows[k] = None => rows'[k] = None
        /\ \A k \in Keys : rows'[k] # None /\ k[2] = d => RowAgrees(d, rows'[k])
    BY <2>3 DEF ThreadsAgree, RowsAgree
  <2>5. wk'[b].d = d /\ wk'[b].pc = "release"
    BY <1>1, <2>1 DEF WkGoto, WkRecord
  <2>6. WkAgrees(b)' /\ ~WkOn(b, d)'
    BY <2>5, WkRests DEF WkOn
  <2> QED
    BY <1>1, <2>1, <2>2, <2>4, <2>5, <2>6, WorkerWorks
<1> QED
  BY <1>2, <1>3 DEF DeleteRow

LEMMA WorkerStepAgrees ==
  ASSUME IInv, TablesInv, TablesInv', NEW b \in Bridges, ThreadsAgree(b), WorkerStep(b)
  PROVE  ThreadsAgree(b)'
BY WorkerLooksAgree, ClaimAgrees, RetryTerminalAgrees, FenceAgrees, AckIntentAgrees, UnackAgrees,
   MarkAgrees, SettleAgrees, DeleteAgrees, QuitAgrees DEF WorkerStep

-----------------------------------------------------------------------------
LEMMA CbRests ==
  ASSUME NEW b, cb'[b].pc = "idle"
  PROVE  CbAgrees(b)'
BY DEF CbAgrees, CbKnows, CbDelivers, CbResumes

(* A callback past the record of the outcome, or one that retries.            *)
LEMMA CbGoesOn ==
  ASSUME NEW b, cb'[b].pc \notin {"idle", "defer", "resume", "forward", "quarantine", "terminal"},
         \/ cb'[b].pc = "enqueue" /\ cb'[b].out = ""
         \/ SettledAs(cb[b].d, cb[b].out)'
  PROVE  CbAgrees(b)'
BY DEF CbAgrees, CbKnows, CbDelivers, CbResumes

(* What a callback step has to show.                                          *)
LEMMA CallbackAgrees ==
  ASSUME IInv, TablesInv', NEW b \in Bridges, ThreadsAgree(b), wk' = wk, Onward,
         \A d \in Deliveries : wk[b].pc = "send" /\ wk[b].d = d /\ Live(d) => Live(d)',
         \A k \in Keys : rows'[k] # None => RowAgrees(k[2], rows'[k]),
         \A d \in Deliveries : WkOn(b, d) => Opens(d),
         WkOn(b, wk[b].d) /\ Live(wk[b].d)' /\ Unsettled(wk[b].d)' /\ rows[WkKey(b)] # None
           => rows'[WkKey(b)] # None,
         CbAgrees(b)'
  PROVE  ThreadsAgree(b)'
<1>1. RowsAgree'
  BY RowsStay DEF TablesInv
<1>2. wk[b].pc \notin {"idle", "claim"} => wk[b].d \in Deliveries
  BY WkHas
<1>3. wk[b].pc \in {"post", "terminal"} => Opens(wk[b].d)
  BY <1>2 DEF WkOn
<1>4. wk[b].pc = "send" => Live(wk[b].d)'
  BY <1>2 DEF ThreadsAgree, WkAgrees
<1>5. WkAgrees(b)'
  BY <1>3, <1>4, WkStays DEF ThreadsAgree
<1> QED
  BY <1>1, <1>5 DEF ThreadsAgree

(* A callback step that leaves the tables alone.                              *)
LEMMA CallbackLooks ==
  ASSUME IInv, TablesInv', NEW b \in Bridges, ThreadsAgree(b), wk' = wk, UNCHANGED db, CbAgrees(b)'
  PROVE  ThreadsAgree(b)'
<1>1. Onward /\ \A d : Opens(d)
  BY SameOnward DEF db
<1>2. /\ \A d : Live(d) => Live(d)'
      /\ \A k \in Keys : rows'[k] # None => RowAgrees(k[2], rows'[k])
      /\ rows' = rows
  BY DEF Live, ThreadsAgree, RowsAgree, db
<1> QED
  BY <1>1, <1>2, CallbackAgrees

(* What the callback has in hand.                                             *)
LEMMA CbHas ==
  ASSUME IInv, TablesInv, NEW b \in Bridges, cb[b].pc # "idle"
  PROVE  /\ cb[b].d \in Known /\ cb[b].d \in Deliveries /\ Live(cb[b].d)
         /\ cb[b] \in CbRecord /\ cb \in [Bridges -> CbRecord]
         /\ cb[b].out \in Outcomes \cup {""}
BY CbInHand, KnownDeliveries DEF CbRecord, Live, TablesInv, CallbacksLive

LEMMA CbEnds ==
  ASSUME IInv, TablesInv', NEW b \in Bridges, ThreadsAgree(b), wk' = wk, UNCHANGED db, CbDone(b)
  PROVE  ThreadsAgree(b)'
<1>1. cb \in [Bridges -> CbRecord] /\ IdleCb.pc = "idle"
  BY DEF IInv, TypeOK, MemoryTypeOK, IdleCb
<1>2. cb'[b].pc = "idle"
  BY <1>1 DEF CbDone
<1> QED
  BY <1>2, CbRests, CallbackLooks

(* The steps that only look, post, or send a PUBACK.                          *)
LEMMA CallbackLooksAgree ==
  ASSUME IInv, TablesInv, TablesInv', NEW b \in Bridges, ThreadsAgree(b),
         ResumeTerminal(b) \/ ResumeAck(b) \/ CompleteAck(b) \/ LiveAck(b)
  PROVE  ThreadsAgree(b)'
<1>1. PICK pc \in {"rintent", "racked", "runack", "cmark", "cunack", "acked", "enqueue"} :
        CbGoto(b, pc)
  BY DEF ResumeTerminal, ResumeAck, CompleteAck, LiveAck, CbGoto
<1>2. /\ cb[b].pc \in {"resume", "rack", "cack", "ack"} /\ CbKnows(b)
      /\ wk' = wk /\ UNCHANGED db
  BY DEF ResumeTerminal, ResumeAck, CompleteAck, LiveAck, CbAt, CbKnows
<1>3. /\ cb'[b].pc = pc /\ cb'[b].d = cb[b].d /\ cb'[b].out = cb[b].out
  BY <1>1, <1>2, CbHas DEF CbGoto, CbRecord
<1>4. SettledAs(cb[b].d, cb[b].out)'
  BY <1>2, <1>3 DEF ThreadsAgree, CbAgrees, SettledAs, db
<1> QED
  BY <1>2, <1>3, <1>4, CbGoesOn, CallbackLooks

LEMMA LivePostAgrees ==
  ASSUME IInv, TablesInv, TablesInv', NEW b \in Bridges, ThreadsAgree(b),
         LiveForward(b) \/ LiveQuarantine(b)
  PROVE  ThreadsAgree(b)'
<1>1. /\ cb[b].pc \in {"forward", "quarantine"} /\ wk' = wk /\ UNCHANGED db
      /\ Delivers(b) /\ cb[b] \in CbRecord /\ cb \in [Bridges -> CbRecord]
  BY CbHas DEF LiveForward, LiveQuarantine, CbAt, ThreadsAgree, CbAgrees, CbDelivers
<1>2. /\ cb'[b].d = cb[b].d
      /\ \/ cb'[b].pc \in {"quarantine", "terminal"}
         \/ cb'[b].pc = "enqueue" /\ cb'[b].out = ""
  <2>1. PICK pc, op, out :
          /\ \/ cb' = [cb EXCEPT ![b].pc = pc] /\ pc = "quarantine"
             \/ cb' = [cb EXCEPT ![b].pc = pc, ![b].op = op, ![b].out = out]
          /\ pc \in {"quarantine", "terminal"} \/ (pc = "enqueue" /\ out = "")
    <3>1. CASE LiveQuarantine(b)
      <4>1. PICK result \in {"quarantined", "retry"} :
              cb' = [cb EXCEPT ![b].pc = IF result = "retry" THEN "enqueue" ELSE "terminal",
                               ![b].op = "quarantine",
                               ![b].out = IF result = "retry" THEN "" ELSE result]
        BY <3>1 DEF LiveQuarantine
      <4>2. CASE result = "retry"
        BY <4>1, <4>2
      <4>3. CASE result # "retry"
        BY ZenonT(60), <4>1, <4>3
      <4> QED
        BY <4>2, <4>3
    <3>2. CASE LiveForward(b)
      BY <3>2 DEF LiveForward, CbGoto
    <3> QED
      BY ZenonT(60), <3>1, <3>2
  <2>2. CASE cb' = [cb EXCEPT ![b].pc = pc] /\ pc = "quarantine"
    BY <1>1, <2>2 DEF CbRecord
  <2>3. CASE cb' = [cb EXCEPT ![b].pc = pc, ![b].op = op, ![b].out = out]
    <3>1. cb'[b] = [cb[b] EXCEPT !.pc = pc, !.op = op, !.out = out]
      BY <1>1, <2>3
    <3>2. PICK r \in CbRecord : r = cb[b]
      BY <1>1
    <3>3. cb'[b].pc = pc /\ cb'[b].out = out /\ cb'[b].d = r.d
      BY <3>1, <3>2 DEF CbRecord
    <3> QED
      BY <2>1, <3>2, <3>3
  <2> QED
    BY ZenonT(60), <2>1, <2>2, <2>3
<1>3. CASE cb'[b].pc = "enqueue" /\ cb'[b].out = ""
  BY <1>1, <1>3, CbGoesOn, CallbackLooks
<1>4. CASE cb'[b].pc \in {"quarantine", "terminal"}
  <2>1. Delivers(b)'
    BY <1>1, <1>2 DEF Delivers, Unsettled, Unreferenced, WkOn, db
  <2>2. CbAgrees(b)'
    BY <1>4, <2>1 DEF CbAgrees, CbKnows, CbDelivers, CbResumes
  <2> QED
    BY <1>1, <2>2, CallbackLooks
<1> QED
  BY <1>2, <1>3, <1>4

(* A callback that records the outcome of its delivery.                       *)
LEMMA CallbackSettles ==
  ASSUME IInv, TablesInv, TablesInv', NEW b \in Bridges, ThreadsAgree(b), wk' = wk,
         NEW d \in Known, d = cb[b].d, cb[b].pc # "idle", NEW s \in {"terminal", "acked"},
         NEW out \in Outcomes \cup {""}, out = cb[b].out, SetState(d, s, out),
         SettledAs(d, out) \/ (Unsettled(d) /\ ~WkOn(b, d)),
         NEW pc \in {"idle", "rdelete", "cdelete", "cintent", "ack"},
         cb'[b].pc = pc, pc # "idle" => cb'[b].d = d /\ cb'[b].out = out
  PROVE  ThreadsAgree(b)'
<1>1. /\ Onward /\ rows' = rows
      /\ \A e \in Deliveries : e # d => Opens(e)
      /\ SettledAs(d, out) => Opens(d)
      /\ gens'[d] = None \/ SettledAs(d, out)'
  BY SetStateOnward
<1>2. GensHeld /\ d \in Deliveries /\ Live(d)
  BY SetStateHeld, CbHas
<1>3. \A e \in Deliveries : Live(e) => Live(e)'
  BY <1>2 DEF GensHeld, Live
<1>4. \A e \in Deliveries : WkOn(b, e) => Opens(e)
  BY <1>1
<1>5. \A k \in Keys : rows'[k] # None => RowAgrees(k[2], rows'[k])
  BY <1>1 DEF ThreadsAgree, RowsAgree
<1>6. CbAgrees(b)'
  <2>1. SettledAs(d, out)'
    BY <1>1, <1>2, <1>3 DEF Live
  <2>2. CASE pc # "idle"
    <3>1. SettledAs(cb[b].d, cb[b].out)'
      BY <2>1, <2>2 DEF SettledAs
    <3> QED
      BY <2>2, <3>1, CbGoesOn
  <2> QED
    BY <2>2, CbRests
<1> QED
  BY <1>1, <1>3, <1>4, <1>5, <1>6, CallbackAgrees

LEMMA RecordAgrees ==
  ASSUME IInv, TablesInv, TablesInv', NEW b \in Bridges, ThreadsAgree(b),
         LiveTerminal(b) \/ ResumeAcked(b) \/ CompleteTerminal(b) \/ LiveAcked(b)
  PROVE  ThreadsAgree(b)'
<1>1. /\ cb[b].pc \in {"terminal", "racked", "cterm", "acked", "cacked"} /\ wk' = wk
      /\ cb[b].pc # "idle"
  BY DEF LiveTerminal, ResumeAcked, CompleteTerminal, LiveAcked, CbAt
<1>2. /\ cb[b].d \in Known /\ Live(cb[b].d) /\ gens[cb[b].d] # None
      /\ cb[b] \in CbRecord /\ cb \in [Bridges -> CbRecord]
      /\ cb[b].out \in Outcomes \cup {""}
  BY <1>1, CbHas DEF Live
<1>3. PICK d \in Known : d = cb[b].d
  BY <1>2
<1>4. PICK out \in Outcomes \cup {""} : out = cb[b].out
  BY <1>2
<1>5. SettledAs(d, out) \/ (Unsettled(d) /\ ~WkOn(b, d))
  <2>1. CASE cb[b].pc = "terminal"
    BY <1>3, <2>1 DEF ThreadsAgree, CbAgrees, CbDelivers, Delivers
  <2>2. CASE cb[b].pc # "terminal"
    BY <1>1, <1>3, <1>4, <2>2 DEF ThreadsAgree, CbAgrees, CbKnows
  <2> QED
    BY <2>1, <2>2
<1>6. CASE UNCHANGED db /\ CbDone(b)
  BY <1>1, <1>6, CbEnds
<1>7. ASSUME NEW s \in {"terminal", "acked"}, SetState(cb[b].d, s, cb[b].out),
             NEW pc \in {"idle", "rdelete", "cdelete", "cintent", "ack"},
             (CbDone(b) /\ pc = "idle") \/ CbGoto(b, pc)
      PROVE  ThreadsAgree(b)'
  <2>1. SetState(d, s, out)
    BY <1>3, <1>4, <1>7
  <2>2. cb'[b].pc = pc /\ (pc # "idle" => cb'[b].d = d /\ cb'[b].out = out)
    <3>1. IdleCb.pc = "idle"
      BY DEF IdleCb
    <3>2. CASE CbDone(b) /\ pc = "idle"
      BY <1>2, <3>1, <3>2 DEF CbDone
    <3>3. CASE CbGoto(b, pc)
      BY <1>2, <1>3, <1>4, <3>3 DEF CbGoto, CbRecord
    <3> QED
      BY <1>7, <3>2, <3>3
  <2> QED
    BY <1>1, <1>3, <1>4, <1>5, <2>1, <2>2, CallbackSettles
<1>8. CASE LiveTerminal(b)
  BY <1>6, <1>7, <1>8 DEF LiveTerminal
<1>9. CASE ResumeAcked(b)
  BY <1>6, <1>7, <1>9 DEF ResumeAcked
<1>10. CASE CompleteTerminal(b)
  BY <1>6, <1>7, <1>10 DEF CompleteTerminal
<1>11. CASE LiveAcked(b)
  BY <1>6, <1>7, <1>11 DEF LiveAcked
<1> QED
  BY <1>8, <1>9, <1>10, <1>11

(* A callback that marks or removes rows of its settled delivery.             *)
LEMMA CallbackMarks ==
  ASSUME IInv, TablesInv, TablesInv', NEW b \in Bridges, ThreadsAgree(b), wk' = wk,
         NEW d \in Deliveries, d = cb[b].d, cb[b].pc # "idle", CbKnows(b),
         gens' \in MaybePruned(gens, rows'), packet' = packet,
         \A k \in Keys :
           \/ rows'[k] = rows[k]
           \/ /\ k[2] = d
              /\ \/ rows'[k] = None
                 \/ /\ rows[k] # None /\ rows'[k].completed = rows[k].completed
                    /\ rows'[k].outcome = rows[k].outcome /\ rows'[k].qos = rows[k].qos,
         NEW pc \in {"idle", "rack", "cack", "enqueue", "cdelete", "cacked"},
         cb'[b].pc = pc, pc # "idle" => cb'[b].d = d /\ cb'[b].out = cb[b].out
  PROVE  ThreadsAgree(b)'
<1>1. /\ Onward /\ \A e \in Deliveries : Opens(e)
      /\ \A e \in Deliveries : gens'[e] = None \/ gens'[e] = gens[e]
  BY PrunedOnward
<1>2. GensHeld
  BY PrunedHeld
<1>3. \A e \in Deliveries : Live(e) => Live(e)'
  BY <1>2 DEF GensHeld, Live
<1>4. SettledAs(d, cb[b].out) /\ Live(d) /\ gens'[d] = gens[d]
  BY <1>1, <1>3, CbHas DEF ThreadsAgree, CbAgrees, Live
<1>5. ASSUME NEW k \in Keys, rows'[k] # None PROVE RowAgrees(k[2], rows'[k])
  <2>1. rows'[k] # rows[k] => rows[k] # None /\ k[2] = d
    BY <1>5
  <2>2. RowAgrees(k[2], rows[k])
    BY <1>5, <2>1 DEF ThreadsAgree, RowsAgree
  <2>3. CASE rows'[k] = rows[k]
    BY <2>2, <2>3
  <2>4. CASE rows'[k] # rows[k]
    BY <1>4, <1>5, <2>1, <2>2, <2>4 DEF RowAgrees, SettledAs, Unsettled
  <2> QED
    BY <2>3, <2>4
<1>6. ASSUME WkOn(b, wk[b].d), Unsettled(wk[b].d)', rows[WkKey(b)] # None
      PROVE  rows'[WkKey(b)] # None
  <2>1. /\ WkKey(b) \in Keys /\ WkKey(b)[2] = wk[b].d
    BY <1>6, WkHas DEF WkOn, WkKey
  <2>2. wk[b].d # d
    BY <1>4, <1>6 DEF SettledAs, Unsettled
  <2> QED
    BY <1>6, <2>1, <2>2
<1>7. CbAgrees(b)'
  <2>1. CASE pc # "idle"
    <3>1. SettledAs(cb[b].d, cb[b].out)'
      BY <1>4, <2>1 DEF SettledAs
    <3> QED
      BY <2>1, <3>1, CbGoesOn
  <2> QED
    BY <2>1, CbRests
<1> QED
  BY <1>1, <1>3, <1>5, <1>6, <1>7, CallbackAgrees

LEMMA AttemptKeeps ==
  ASSUME IInv, NEW b, NEW d, d = cb[b].d, NEW a \in BOOLEAN, NEW r, r = WithAttempt(rows, d, a),
         NEW k \in Keys
  PROVE  \/ r[k] = rows[k]
         \/ /\ k[2] = d /\ rows[k] # None /\ r[k] # None /\ r[k].completed = rows[k].completed
            /\ r[k].outcome = rows[k].outcome /\ r[k].qos = rows[k].qos
            /\ r[k] \in Row
<1>1. rows \in [Keys -> Row \cup {None}] /\ None \notin Row
  BY BridgeAssumption DEF IInv, TypeOK, DbTypeOK
<1>2. CASE k[2] = d /\ rows[k] # None
  <2>1. PICK x \in Row : x = rows[k]
    BY <1>1, <1>2
  <2>2. r[k] = [x EXCEPT !.attempted = a]
    BY <1>2, <2>1 DEF WithAttempt
  <2>3. r[k] \in Row
    BY <2>2 DEF Row
  <2> QED
    BY <1>1, <1>2, <2>1, <2>2, <2>3 DEF Row
<1> QED
  BY <1>2 DEF WithAttempt

LEMMA IntentAgrees ==
  ASSUME IInv, TablesInv, TablesInv', NEW b \in Bridges, ThreadsAgree(b),
         ResumeIntent(b) \/ ResumeUnack(b)
  PROVE  ThreadsAgree(b)'
<1>1. /\ cb[b].pc \in {"rintent", "cintent", "runack"} /\ cb[b].pc # "idle" /\ CbKnows(b)
      /\ wk' = wk
  BY DEF ResumeIntent, ResumeUnack, CbAt, CbKnows
<1>2. /\ cb[b].d \in Deliveries /\ cb[b] \in CbRecord /\ cb \in [Bridges -> CbRecord]
  BY <1>1, CbHas
<1>3. CASE UNCHANGED db /\ CbDone(b)
  BY <1>1, <1>3, CbEnds
<1>4. ASSUME NEW a \in BOOLEAN, MarkAttempted(b, a) \/ UNCHANGED db,
             NEW pc \in {"rack", "cack", "enqueue"},
             CbGoto(b, pc) \/ cb' = [cb EXCEPT ![b].pc = pc, ![b].op = OutcomeOp(cb[b].out)]
      PROVE  ThreadsAgree(b)'
  <2>1. PICK d \in Deliveries : d = cb[b].d
    BY <1>2
  <2>2. cb'[b].pc = pc /\ cb'[b].d = d /\ cb'[b].out = cb[b].out
    <3>1. CASE CbGoto(b, pc)
      BY <1>2, <2>1, <3>1 DEF CbGoto, CbRecord
    <3>2. CASE cb' = [cb EXCEPT ![b].pc = pc, ![b].op = OutcomeOp(cb[b].out)]
      <4>1. PICK r \in CbRecord : r = cb[b]
        BY <1>2
      <4>2. cb'[b] = [r EXCEPT !.pc = pc, !.op = OutcomeOp(cb[b].out)]
        BY <1>2, <3>2, <4>1
      <4>3. cb'[b].pc = pc /\ cb'[b].d = r.d /\ cb'[b].out = r.out
        BY <4>2 DEF CbRecord
      <4> QED
        BY <2>1, <4>1, <4>3
    <3> QED
      BY <1>4, <3>1, <3>2
  <2>3. CASE UNCHANGED db
    <3>1. SettledAs(cb[b].d, cb[b].out)'
      BY <1>1, <2>2, <2>1, <2>3 DEF ThreadsAgree, CbAgrees, SettledAs, db
    <3> QED
      BY <1>1, <2>2, <2>3, <3>1, CbGoesOn, CallbackLooks
  <2>4. CASE MarkAttempted(b, a)
    <3>1. rows' = WithAttempt(rows, d, a) /\ UNCHANGED <<gens, packet>>
      BY <2>1, <2>4 DEF MarkAttempted
    <3>2. \A k \in Keys :
            \/ rows'[k] = rows[k]
            \/ /\ k[2] = d /\ rows[k] # None /\ rows'[k].completed = rows[k].completed
               /\ rows'[k].outcome = rows[k].outcome /\ rows'[k].qos = rows[k].qos
      BY <2>1, <3>1, AttemptKeeps
    <3>3. gens' \in MaybePruned(gens, rows')
      BY <3>1 DEF MaybePruned
    <3> QED
      BY <1>1, <2>1, <2>2, <3>1, <3>2, <3>3, CallbackMarks
  <2> QED
    BY <1>4, <2>3, <2>4
<1>5. CASE ResumeIntent(b)
  BY <1>3, <1>4, <1>5 DEF ResumeIntent, CbFault
<1>6. CASE ResumeUnack(b)
  BY <1>4, <1>6 DEF ResumeUnack
<1> QED
  BY <1>5, <1>6

LEMMA CompleteAgrees ==
  ASSUME IInv, TablesInv, TablesInv', NEW b \in Bridges, ThreadsAgree(b),
         CompleteUnack(b) \/ CompleteMark(b)
  PROVE  ThreadsAgree(b)'
<1>1. /\ cb[b].pc \in {"cunack", "cmark"} /\ cb[b].pc # "idle" /\ CbKnows(b) /\ wk' = wk
  BY DEF CompleteUnack, CompleteMark, CbAt, CbKnows
<1>2. /\ cb[b].d \in Deliveries /\ cb[b] \in CbRecord /\ cb \in [Bridges -> CbRecord]
      /\ CbKey(b) \in Keys /\ CbKey(b)[2] = cb[b].d
      /\ rows \in [Keys -> Row \cup {None}] /\ None \notin Row /\ IdleCb.pc = "idle"
  BY <1>1, CbHas, BridgeAssumption
     DEF CbKey, Keys, CbRecord, IInv, TypeOK, DbTypeOK, IdleCb
<1>3. PICK d \in Deliveries : d = cb[b].d
  BY <1>2
<1>4. CASE UNCHANGED db /\ CbDone(b)
  BY SMTT(60), <1>1, <1>4, CbEnds
<1>5. CASE /\ CompleteUnack(b) /\ UNCHANGED <<packet, gens>> /\ CbDone(b)
           /\ rows' = [WithAttempt(rows, cb[b].d, FALSE)
                         EXCEPT ![CbKey(b)] = IF @ = None THEN None ELSE [@ EXCEPT !.claim = ""]]
  <2>0. PICK a \in BOOLEAN : a = FALSE
    OBVIOUS
  <2>1. PICK r : r = WithAttempt(rows, d, a)
    OBVIOUS
  <2>2. rows' = [r EXCEPT ![CbKey(b)] = IF @ = None THEN None ELSE [@ EXCEPT !.claim = ""]]
    BY <1>3, <1>5, <2>0, <2>1
  <2>2a. \A k \in Keys : rows'[k] = IF k # CbKey(b) THEN r[k] ELSE IF r[k] = None THEN None
                                    ELSE [r[k] EXCEPT !.claim = ""]
    BY <1>2, <2>1, <2>2 DEF WithAttempt
  <2>3. ASSUME NEW k \in Keys
        PROVE  \/ rows'[k] = rows[k]
               \/ /\ k[2] = d
                  /\ \/ rows'[k] = None
                     \/ /\ rows[k] # None /\ rows'[k].completed = rows[k].completed
                        /\ rows'[k].outcome = rows[k].outcome /\ rows'[k].qos = rows[k].qos
    <3>1. \/ r[k] = rows[k]
          \/ /\ k[2] = d /\ rows[k] # None /\ r[k] # None /\ r[k].completed = rows[k].completed
             /\ r[k].outcome = rows[k].outcome /\ r[k].qos = rows[k].qos
             /\ r[k] \in Row
      BY <1>3, <2>1, AttemptKeeps
    <3>2. CASE k # CbKey(b)
      BY <2>2a, <3>1, <3>2
    <3>3. CASE k = CbKey(b) /\ r[k] = None
      BY <2>2a, <3>1, <3>3
    <3>4. CASE k = CbKey(b) /\ r[k] # None
      <4>1. r[k] \in Row
        BY <1>2, <3>1, <3>4
      <4>2. PICK x \in Row : x = r[k]
        BY <4>1
      <4>3. rows'[k] = [x EXCEPT !.claim = ""]
        BY <2>2a, <3>4, <4>2
      <4>4. /\ rows'[k].completed = r[k].completed /\ rows'[k].outcome = r[k].outcome
            /\ rows'[k].qos = r[k].qos
        BY <4>2, <4>3 DEF Row
      <4> QED
        BY <1>2, <1>3, <3>1, <3>4, <4>4
    <3> QED
      BY <3>2, <3>3, <3>4
  <2>4. gens' \in MaybePruned(gens, rows')
    BY <1>5 DEF MaybePruned
  <2>5. cb'[b].pc = "idle"
    BY <1>2, <1>5 DEF CbDone
  <2> QED
    BY <1>1, <1>3, <1>5, <2>3, <2>4, <2>5, CallbackMarks
<1>6. CASE /\ CbGoto(b, "cdelete") /\ UNCHANGED <<packet, gens>>
           /\ rows' = [rows EXCEPT ![CbKey(b)] =
                         IF @ = None THEN None ELSE [@ EXCEPT !.acknowledged = TRUE]]
  <2>1. ASSUME NEW k \in Keys
        PROVE  \/ rows'[k] = rows[k]
               \/ /\ k[2] = d
                  /\ \/ rows'[k] = None
                     \/ /\ rows[k] # None /\ rows'[k].completed = rows[k].completed
                        /\ rows'[k].outcome = rows[k].outcome /\ rows'[k].qos = rows[k].qos
    <3>1. CASE k = CbKey(b) /\ rows[k] # None
      <4>1. PICK x \in Row : x = rows[k]
        BY <1>2, <3>1
      <4>2. rows'[k] = [x EXCEPT !.acknowledged = TRUE]
        BY <1>2, <1>6, <3>1, <4>1
      <4>3. /\ rows'[k].completed = x.completed /\ rows'[k].outcome = x.outcome
            /\ rows'[k].qos = x.qos
        BY <4>2 DEF Row
      <4> QED
        BY <1>2, <1>3, <3>1, <4>1, <4>3
    <3>2. CASE ~(k = CbKey(b) /\ rows[k] # None)
      BY <1>2, <1>6, <3>2
    <3> QED
      BY <3>1, <3>2
  <2>2. gens' \in MaybePruned(gens, rows')
    BY <1>6 DEF MaybePruned
  <2>3. cb'[b].pc = "cdelete" /\ cb'[b].d = d /\ cb'[b].out = cb[b].out
    BY <1>2, <1>3, <1>6 DEF CbGoto, CbRecord
  <2> QED
    BY <1>1, <1>3, <1>6, <2>1, <2>2, <2>3, CallbackMarks
<1>7. CASE CompleteUnack(b)
  BY <1>4, <1>5, <1>7 DEF CompleteUnack, CbFault
<1>8. CASE CompleteMark(b)
  BY <1>4, <1>6, <1>8 DEF CompleteMark
<1> QED
  BY <1>7, <1>8

LEMMA RemoveAgrees ==
  ASSUME IInv, TablesInv, TablesInv', NEW b \in Bridges, ThreadsAgree(b),
         ResumeDelete(b) \/ CompleteDelete(b)
  PROVE  ThreadsAgree(b)'
<1>1. /\ cb[b].pc \in {"rdelete", "cdelete"} /\ cb[b].pc # "idle" /\ CbKnows(b) /\ wk' = wk
  BY DEF ResumeDelete, CompleteDelete, CbAt, CbKnows
<1>2. /\ cb[b].d \in Deliveries /\ cb[b] \in CbRecord /\ cb \in [Bridges -> CbRecord]
      /\ CbKey(b)[2] = cb[b].d /\ IdleCb.pc = "idle"
  BY <1>1, CbHas DEF CbKey, IdleCb
<1>3. PICK d \in Deliveries : d = cb[b].d
  BY <1>2
<1>4. ASSUME NEW S, \A k \in S : k[2] = d, rows' = WithoutRows(rows, S) \/ rows' = rows,
             gens' \in MaybePruned(gens, rows'), packet' = packet,
             NEW pc \in {"idle", "cacked"}, (CbDone(b) /\ pc = "idle") \/ CbGoto(b, pc)
      PROVE  ThreadsAgree(b)'
  <2>1. \A k \in Keys : rows'[k] = rows[k] \/ (k[2] = d /\ rows'[k] = None)
    BY <1>4 DEF WithoutRows
  <2>2. cb'[b].pc = pc /\ (pc # "idle" => cb'[b].d = d /\ cb'[b].out = cb[b].out)
    <3>1. CASE CbDone(b) /\ pc = "idle"
      BY <1>2, <3>1 DEF CbDone
    <3>2. CASE CbGoto(b, pc)
      BY <1>2, <1>3, <3>2 DEF CbGoto, CbRecord
    <3> QED
      BY <1>4, <3>1, <3>2
  <2> QED
    BY <1>1, <1>3, <1>4, <2>1, <2>2, CallbackMarks
<1>5. gens \in MaybePruned(gens, rows') /\ gens \in MaybePruned(gens, rows)
  BY DEF MaybePruned
<1>6. CASE ResumeDelete(b)
  <2>1. \A k \in Ops \X {cb[b].d} : k[2] = d
    BY <1>3
  <2> QED
    BY <1>4, <1>5, <1>6, <2>1 DEF ResumeDelete, db
<1>7. CASE CompleteDelete(b)
  <2>1. \A k \in {CbKey(b)} : k[2] = d
    BY <1>2, <1>3
  <2> QED
    BY <1>4, <1>5, <1>7, <2>1 DEF CompleteDelete, db
<1> QED
  BY <1>6, <1>7

(* resume_pending_message: a DUP without a row is forwarded, for its delivery *)
(* is open and the worker has it not; one with a row gives it a target.       *)
LEMMA ResumeRowAgrees ==
  ASSUME IInv, TablesInv, TablesInv', NEW b \in Bridges, ThreadsAgree(b), ResumeRow(b)
  PROVE  ThreadsAgree(b)'
<1>1. /\ cb[b].pc = "resume" /\ cb[b].st = "active" /\ cb[b].pc # "idle" /\ wk' = wk
      /\ Resumes(b) /\ cb[b].d \in Deliveries /\ Live(cb[b].d)
      /\ cb[b] \in CbRecord /\ cb \in [Bridges -> CbRecord]
      /\ rows \in [Keys -> Row \cup {None}] /\ None \notin Row /\ IdleCb.pc = "idle"
  BY CbHas, BridgeAssumption DEF ResumeRow, CbAt, ThreadsAgree, CbAgrees, CbResumes, IInv, TypeOK,
     DbTypeOK, IdleCb
<1>2. CASE UNCHANGED db /\ CbDone(b)
  BY <1>1, <1>2, CbEnds
<1>3. CASE /\ {op \in Ops : rows[<<op, cb[b].d>>] # None} = {}
           /\ CbGoto(b, "forward") /\ UNCHANGED db
  <2>1. Unreferenced(cb[b].d, rows)
    BY <1>3 DEF Unreferenced
  <2>2. Unsettled(cb[b].d)
    BY <1>1, <2>1 DEF Resumes
  <2>3. ~WkOn(b, cb[b].d)
    <3> SUFFICES ASSUME WkOn(b, cb[b].d) PROVE FALSE
      OBVIOUS
    <3>1. wk[b].d = cb[b].d /\ wk[b].pc \notin {"idle", "claim"}
      BY DEF WkOn
    <3>2. wk[b].op \in Ops /\ WkKey(b) = <<wk[b].op, cb[b].d>>
      BY <3>1, WkHas DEF WkKey, WkRecord
    <3>3. rows[WkKey(b)] # None
      BY <1>1, <2>2, <3>1 DEF ThreadsAgree, WkAgrees
    <3> QED
      BY <2>1, <3>2, <3>3 DEF Unreferenced
  <2>4. cb'[b].pc = "forward" /\ cb'[b].d = cb[b].d
    BY <1>1, <1>3 DEF CbGoto, CbRecord
  <2>5. Delivers(b)'
    BY <1>1, <1>3, <2>1, <2>2, <2>3, <2>4 DEF Delivers, Unsettled, Unreferenced, WkOn, db
  <2>6. CbAgrees(b)'
    BY <2>4, <2>5 DEF CbAgrees, CbKnows, CbDelivers, CbResumes
  <2> QED
    BY <1>1, <1>3, <2>6, CallbackLooks
<1>4. ASSUME NEW op \in Ops, NEW key, key = <<op, cb[b].d>>, rows[key] # None,
             gens' = gens, rows' = [rows EXCEPT ![key].qos = 1],
             \/ cb' = [cb EXCEPT ![b] = IdleCb]
             \/ /\ rows[key].completed
                /\ cb' = [cb EXCEPT ![b].pc = "cterm", ![b].op = op, ![b].out = rows[key].outcome,
                                    ![b].st = IF rows[key].acknowledged
                                              THEN "acked" ELSE "terminal"]
      PROVE  ThreadsAgree(b)'
  <2>1. PICK d \in Deliveries : d = cb[b].d
    BY <1>1
  <2>2. key \in Keys /\ key[2] = d
    BY <1>4, <2>1 DEF Keys
  <2>3. PICK r \in Row : r = rows[key]
    BY <1>1, <1>4, <2>2
  <2>4. PICK new : new = [r EXCEPT !.qos = 1]
    OBVIOUS
  <2>5. /\ new.completed = r.completed /\ new.outcome = r.outcome /\ new.qos = 1
        /\ new.attempted = r.attempted /\ new.acknowledged = r.acknowledged /\ new \in Row
    BY <2>4 DEF Row
  <2>6. rows'[key] = new /\ \A k \in Keys : k # key => rows'[k] = rows[k]
    BY <1>1, <1>4, <2>2, <2>3, <2>4
  <2>7. RowAgrees(d, r)
    BY <1>4, <2>2, <2>3 DEF ThreadsAgree, RowsAgree
  <2>8. RowAgrees(d, new)
    BY <2>5, <2>7 DEF RowAgrees
  <2>9. \A k \in Keys : rows'[k] # None => RowAgrees(k[2], rows'[k])
    BY <2>2, <2>6, <2>8 DEF ThreadsAgree, RowsAgree
  <2>10. Onward /\ (\A e : Opens(e)) /\ (\A e : Live(e) => Live(e)')
    BY <1>4, SameOnward DEF Live
  <2>11. WkOn(b, wk[b].d) /\ rows[WkKey(b)] # None => rows'[WkKey(b)] # None
    <3> SUFFICES ASSUME WkOn(b, wk[b].d), rows[WkKey(b)] # None PROVE rows'[WkKey(b)] # None
      OBVIOUS
    <3>1. WkKey(b) \in Keys
      BY WkHas DEF WkOn
    <3> QED
      BY <1>1, <2>5, <2>6, <3>1
  <2>12. CASE cb' = [cb EXCEPT ![b] = IdleCb]
    <3>1. cb'[b].pc = "idle"
      BY <1>1, <2>12
    <3> QED
      BY <1>1, <2>9, <2>10, <2>11, <3>1, CbRests, CallbackAgrees
  <2>13. CASE cb'[b].pc = "cterm" /\ cb'[b].d = d /\ cb'[b].out = r.outcome /\ r.completed
    <3>1. SettledAs(cb[b].d, cb[b].out)'
      BY <1>4, <2>7, <2>13 DEF RowAgrees, SettledAs
    <3>2. CbAgrees(b)'
      BY <2>13, <3>1, CbGoesOn
    <3> QED
      BY <1>1, <2>9, <2>10, <2>11, <3>2, CallbackAgrees
  <2>14. CASE /\ rows[key].completed
              /\ cb' = [cb EXCEPT ![b].pc = "cterm", ![b].op = op, ![b].out = rows[key].outcome,
                                  ![b].st = IF rows[key].acknowledged
                                            THEN "acked" ELSE "terminal"]
    <3>1. PICK st : st = IF rows[key].acknowledged THEN "acked" ELSE "terminal"
      OBVIOUS
    <3>2. PICK c \in CbRecord : c = cb[b]
      BY <1>1
    <3>3. cb'[b] = [c EXCEPT !.pc = "cterm", !.op = op, !.out = r.outcome, !.st = st]
      BY <1>1, <2>3, <2>14, <3>1, <3>2
    <3>4. cb'[b].pc = "cterm" /\ cb'[b].d = c.d /\ cb'[b].out = r.outcome
      BY <3>2, <3>3 DEF CbRecord
    <3> QED
      BY <2>1, <2>3, <2>13, <2>14, <3>2, <3>4
  <2> QED
    BY <1>4, <2>12, <2>14
<1>5. ASSUME NEW found, found = {op \in Ops : rows[<<op, cb[b].d>>] # None},
             NEW done, done = {op \in found : rows[<<op, cb[b].d>>].completed},
             NEW op \in IF done # {} THEN done ELSE found, NEW key, key = <<op, cb[b].d>>,
             rows' = [rows EXCEPT ![key].qos = 1], gens' = gens,
             cb' = IF op \in done /\ key \notin Inflight(b)
                   THEN [cb EXCEPT ![b].pc = "cterm", ![b].op = op, ![b].out = rows[key].outcome,
                                   ![b].st = IF rows[key].acknowledged
                                             THEN "acked" ELSE "terminal"]
                   ELSE [cb EXCEPT ![b] = IdleCb]
      PROVE  ThreadsAgree(b)'
  <2>1. op \in Ops /\ rows[key] # None /\ (op \in done => rows[key].completed)
    BY <1>5
  <2>2. CASE op \in done /\ key \notin Inflight(b)
    BY <1>4, <1>5, <2>1, <2>2
  <2>3. CASE ~(op \in done /\ key \notin Inflight(b))
    BY <1>4, <1>5, <2>1, <2>3
  <2> QED
    BY <2>2, <2>3
<1> DEFINE found == {op \in Ops : rows[<<op, cb[b].d>>] # None}
           done == {op \in found : rows[<<op, cb[b].d>>].completed}
<1>6. CASE \E op \in IF done # {} THEN done ELSE found :
             /\ rows' = [rows EXCEPT ![<<op, cb[b].d>>].qos = 1] /\ gens' = gens
             /\ cb' = IF op \in done /\ <<op, cb[b].d>> \notin Inflight(b)
                      THEN [cb EXCEPT ![b].pc = "cterm", ![b].op = op,
                                      ![b].out = rows[<<op, cb[b].d>>].outcome,
                                      ![b].st = IF rows[<<op, cb[b].d>>].acknowledged
                                                THEN "acked" ELSE "terminal"]
                      ELSE [cb EXCEPT ![b] = IdleCb]
  <2>1. PICK op \in IF done # {} THEN done ELSE found :
             /\ rows' = [rows EXCEPT ![<<op, cb[b].d>>].qos = 1] /\ gens' = gens
             /\ cb' = IF op \in done /\ <<op, cb[b].d>> \notin Inflight(b)
                      THEN [cb EXCEPT ![b].pc = "cterm", ![b].op = op,
                                      ![b].out = rows[<<op, cb[b].d>>].outcome,
                                      ![b].st = IF rows[<<op, cb[b].d>>].acknowledged
                                                THEN "acked" ELSE "terminal"]
                      ELSE [cb EXCEPT ![b] = IdleCb]
    BY <1>6
  <2>2. PICK f : f = found
    OBVIOUS
  <2>3. PICK g : g = done
    OBVIOUS
  <2>4. f = {o \in Ops : rows[<<o, cb[b].d>>] # None}
        /\ g = {o \in f : rows[<<o, cb[b].d>>].completed}
    BY <2>2, <2>3
  <2>5. op \in IF g # {} THEN g ELSE f
    BY <2>1, <2>2, <2>3
  <2>6. PICK key : key = <<op, cb[b].d>>
    OBVIOUS
  <2> HIDE DEF found, done
  <2> QED
    BY ZenonT(60), <1>5, <2>1, <2>3, <2>4, <2>5, <2>6
<1> QED
  BY ZenonT(60), <1>2, <1>3, <1>6, Zenon DEF ResumeRow, CbFault

LEMMA NewRowHas ==
  ASSUME NEW completed, NEW o, NEW awaiting, NEW r,
         r = [qos |-> 1, completed |-> completed, outcome |-> o, acknowledged |-> FALSE,
              attempted |-> FALSE, awaiting |-> awaiting, claim |-> ""]
  PROVE  /\ r.qos = 1 /\ r.completed = completed /\ r.outcome = o
         /\ ~r.attempted /\ ~r.acknowledged
OBVIOUS

(* enqueue: a row that is inserted or merged as completed repeats the outcome *)
(* that is on disk.                                                           *)
LEMMA EnqueueAgrees ==
  ASSUME IInv, TablesInv, TablesInv', NEW b \in Bridges, ThreadsAgree(b), wk' = wk,
         cb[b].pc # "idle", NEW op \in Ops, NEW completed \in BOOLEAN, NEW awaiting \in BOOLEAN,
         completed => SettledAs(cb[b].d, OpOutcome(op)),
         Enqueue(b, op, completed, awaiting), CbDone(b)
  PROVE  ThreadsAgree(b)'
<1>1. /\ cb[b].d \in Known /\ cb[b].d \in Deliveries /\ cb \in [Bridges -> CbRecord]
      /\ rows \in [Keys -> Row \cup {None}] /\ None \notin Row /\ IdleCb.pc = "idle"
      /\ OpOutcome(op) \in Outcomes \cup {""}
  BY CbHas, BridgeAssumption DEF IInv, TypeOK, DbTypeOK, IdleCb, OpOutcome, Outcomes
<1>2. PICK d \in Known : d = cb[b].d
  BY <1>1
<1>3. PICK out \in Outcomes \cup {""} : out = OpOutcome(op)
  BY <1>1
<1>4. PICK key \in Keys : key = <<op, d>>
  BY <1>1, <1>2 DEF Keys
<1>5. CASE UNCHANGED db
  BY <1>5, CbEnds
<1>6. CASE /\ completed => gens[d] # None
           /\ rows' = Enqueued(b, op, completed, awaiting)
           /\ gens' \in IF completed THEN MaybePruned(WithState(gens, d, "terminal", out), rows)
                        ELSE {gens}
  <2>1. Onward /\ (\A e \in Deliveries : Opens(e)) /\ (\A e \in Deliveries : Live(e) => Live(e)')
    <3>1. CASE completed
      <4>1. gens' \in MaybePruned(WithState(gens, d, "terminal", out), rows) /\ gens[d] # None
            /\ SettledAs(d, out) /\ d \in Deliveries
        BY <1>1, <1>2, <1>3, <1>6, <3>1
      <4>2. /\ Onward /\ \A e \in Deliveries : e # d => Opens(e)
            /\ SettledAs(d, out) => Opens(d)
        BY <4>1, SettingOnward
      <4>3. \A e \in Deliveries :
               /\ gens'[e] # None => gens[e] # None /\ gens'[e].active = gens[e].active
               /\ gens[e] # None /\ gens'[e] = None => ~gens[e].active
        BY <4>1, TerminalIsHeld
      <4> QED
        BY <4>1, <4>2, <4>3 DEF Live
    <3>2. CASE ~completed
      BY <1>6, <3>2, SameOnward DEF Live
    <3> QED
      BY <3>1, <3>2
  <2>2. \A k \in Keys : k # key => rows'[k] = rows[k]
    BY <1>1, <1>2, <1>4, <1>6 DEF Enqueued
  <2>3. rows'[key] # None /\ RowAgrees(d, rows'[key])
    <3>1. CASE rows[key] # None /\ cb[b].dup
      <4>1. PICK r \in Row : r = rows[key]
        BY <1>1, <3>1
      <4>2. PICK o : o = MergedOutcome(r, IF completed THEN out ELSE "")
        OBVIOUS
      <4>3. rows'[key] = [r EXCEPT !.qos = 1, !.completed = @ \/ completed, !.outcome = o,
                                   !.awaiting = @ \/ awaiting]
        BY <1>1, <1>2, <1>3, <1>4, <1>6, <3>1, <4>1, <4>2 DEF Enqueued
      <4>4. /\ rows'[key].qos = 1 /\ rows'[key].completed = (r.completed \/ completed)
            /\ rows'[key].outcome = o /\ rows'[key].attempted = r.attempted
            /\ rows'[key].acknowledged = r.acknowledged
        BY <4>1, <4>3 DEF Row
      <4>5. RowAgrees(d, r)
        BY <1>4, <3>1, <4>1 DEF ThreadsAgree, RowsAgree
      <4>6. r.completed \/ completed => SettledAs(d, o)
        BY <1>2, <1>3, <4>2, <4>5 DEF RowAgrees, MergedOutcome
      <4>7. rows'[key] # None
        <5>1. o \in Outcomes \cup {""}
          BY <4>1, <4>2 DEF MergedOutcome, Row
        <5>2. rows'[key] \in Row
          BY <4>1, <4>3, <5>1 DEF Row
        <5> QED
          BY <1>1, <5>2
      <4> QED
        BY <4>4, <4>5, <4>6, <4>7 DEF RowAgrees
    <3>2. CASE ~(rows[key] # None /\ cb[b].dup)
      <4>1. PICK o : o = IF completed THEN out ELSE ""
        OBVIOUS
      <4>2. rows'[key] = [qos |-> 1, completed |-> completed, outcome |-> o,
                          acknowledged |-> FALSE, attempted |-> FALSE, awaiting |-> awaiting,
                          claim |-> ""]
        BY <1>1, <1>2, <1>3, <1>4, <1>6, <3>2, <4>1 DEF Enqueued
      <4>3. rows'[key] \in Row
        <5>1. o \in Outcomes \cup {""}
          BY <4>1
        <5> QED
          BY <4>2, <5>1, NewRow
      <4>4. /\ rows'[key].qos = 1 /\ rows'[key].completed = completed /\ rows'[key].outcome = o
            /\ ~rows'[key].attempted /\ ~rows'[key].acknowledged
        BY <4>2, NewRowHas
      <4> QED
        BY <1>1, <1>2, <1>3, <4>1, <4>3, <4>4 DEF RowAgrees
    <3> QED
      BY <3>1, <3>2
  <2>4. \A k \in Keys : rows'[k] # None => RowAgrees(k[2], rows'[k])
    <3>1. key[2] = d
      BY <1>4
    <3>2. ASSUME NEW k \in Keys, rows'[k] # None PROVE RowAgrees(k[2], rows'[k])
      <4>1. CASE k = key
        BY <2>3, <3>1, <4>1
      <4>2. CASE k # key
        BY <2>2, <3>2, <4>2 DEF ThreadsAgree, RowsAgree
      <4> QED
        BY <4>1, <4>2
    <3> QED
      BY <3>2
  <2>5. ASSUME WkOn(b, wk[b].d), rows[WkKey(b)] # None PROVE rows'[WkKey(b)] # None
    <3>1. WkKey(b) \in Keys
      BY <2>5, WkHas DEF WkOn
    <3>2. PICK k \in Keys : k = WkKey(b)
      BY <3>1
    <3> QED
      BY <2>2, <2>3, <2>5, <3>2
  <2>6. cb'[b].pc = "idle"
    BY <1>1 DEF CbDone
  <2> QED
    BY <2>1, <2>4, <2>5, <2>6, CbRests, CallbackAgrees
<1> QED
  BY <1>2, <1>3, <1>5, <1>6 DEF Enqueue

-----------------------------------------------------------------------------
LEMMA OutcomeRepeats ==
  ASSUME NEW out \in Outcomes
  PROVE  OpOutcome(OutcomeOp(out)) = out /\ OutcomeOp(out) \in Ops
BY DEF OpOutcome, OutcomeOp, Outcomes, Ops

LEMMA InsertAgrees ==
  ASSUME IInv, TablesInv, TablesInv', NEW b \in Bridges, ThreadsAgree(b),
         DeferUnapproved(b) \/ LiveEnqueue(b)
  PROVE  ThreadsAgree(b)'
<1>1. /\ cb[b].pc \in {"defer", "enqueue"} /\ cb[b].pc # "idle" /\ wk' = wk /\ CbDone(b)
      /\ cb[b] \in CbRecord /\ CbSafe(b)
  BY CbInHand DEF DeferUnapproved, LiveEnqueue, CbAt, IInv, SafeInv
<1>2. ASSUME Delivered(b)
      PROVE  SettledAs(cb[b].d, cb[b].out) /\ cb[b].out \in Outcomes
  BY <1>1, <1>2 DEF Delivered, CbAt, ThreadsAgree, CbAgrees, CbKnows, CbSafe, Stands
<1>3. CASE DeferUnapproved(b)
  <2>1. PICK op \in Ops, completed \in BOOLEAN :
          /\ Enqueue(b, op, completed, TRUE)
          /\ completed => Delivered(b) /\ op = OutcomeOp(cb[b].out)
    BY <1>3 DEF DeferUnapproved, OutcomeOp, DecodeOp, Ops, Delivered
  <2>2. completed => SettledAs(cb[b].d, OpOutcome(op))
    BY <1>2, <2>1, OutcomeRepeats
  <2> QED
    BY <1>1, <2>1, <2>2, EnqueueAgrees
<1>4. CASE LiveEnqueue(b)
  <2>1. PICK op \in Ops, completed \in BOOLEAN :
          Enqueue(b, op, completed, FALSE) /\ op = cb[b].op /\ (completed <=> Delivered(b))
    BY <1>1, <1>4 DEF LiveEnqueue, CbRecord, Delivered
  <2>2. Delivered(b) => cb[b].op = OutcomeOp(cb[b].out)
    BY <1>1, <1>4 DEF LiveEnqueue, CbAt, CbSafe, Delivered
  <2>3. completed => SettledAs(cb[b].d, OpOutcome(op))
    BY <1>2, <2>1, <2>2, OutcomeRepeats
  <2> QED
    BY <1>1, <2>1, <2>3, EnqueueAgrees
<1> QED
  BY <1>3, <1>4

(* A new identity is open; the others only become void, or are forgotten.     *)
LEMMA MintOnward ==
  ASSUME IInv, NEW b \in Bridges, NEW p, NEW n \in Deliveries, n = minted + 1,
         MintDelivery(b, p, n), gens'[n] # None, gens[n] = None
  PROVE  /\ gens'[n].state = "active"
         /\ \A d \in Deliveries \ {n} : gens'[d] # None =>
              /\ gens[d] # None
              /\ gens'[d].state = gens[d].state /\ gens'[d].outcome = gens[d].outcome
         /\ \A k \in Keys : rows'[k] = None <=> rows[k] = None
         /\ \A k \in Keys : rows[k] # None =>
              /\ rows'[k].completed = rows[k].completed /\ rows'[k].outcome = rows[k].outcome
              /\ rows'[k].attempted = rows[k].attempted
              /\ rows'[k].acknowledged = rows[k].acknowledged
              /\ k[2] \notin Superseded(b, p) => rows'[k].qos = rows[k].qos
<1> DEFINE old == Superseded(b, p)
           fresh == [active |-> TRUE, state |-> "active", outcome |-> ""]
           g == [e \in Deliveries |->
                   IF e \in old THEN [gens[e] EXCEPT !.active = FALSE]
                   ELSE IF e = n THEN fresh ELSE gens[e]]
<1>1. /\ gens \in [Deliveries -> Gen \cup {None}] /\ rows \in [Keys -> Row \cup {None}]
      /\ None \notin Gen /\ None \notin Row
  BY BridgeAssumption DEF IInv, TypeOK, DbTypeOK
<1>2. /\ rows' = [k \in Keys |-> IF k[2] \in old /\ rows[k] # None
                                 THEN [rows[k] EXCEPT !.qos = 0] ELSE rows[k]]
      /\ gens' \in MaybePruned(g, rows')
  BY DEF MintDelivery
<1>3. ASSUME NEW e \in old
      PROVE  /\ e \in Deliveries /\ e # n /\ gens[e] # None
             /\ g[e] \in Gen /\ g[e].state = gens[e].state /\ g[e].outcome = gens[e].outcome
  <2>1. e \in Deliveries /\ gens[e] # None
    BY DEF Superseded
  <2>2. PICK x \in Gen : x = gens[e]
    BY <1>1, <2>1
  <2>3. g[e] = [x EXCEPT !.active = FALSE]
    BY <2>1, <2>2
  <2> HIDE DEF g
  <2> QED
    BY <2>1, <2>2, <2>3 DEF Gen
<1>4. g[n] = fresh /\ fresh \in Gen /\ \A e \in Deliveries \ {n} : e \notin old => g[e] = gens[e]
  BY <1>3 DEF Gen
<1>5. fresh.state = "active"
  BY Zenon
<1>6. g = [e \in Deliveries |-> g[e]]
  OBVIOUS
<1> HIDE DEF g, fresh
<1>7. g \in [Deliveries -> Gen \cup {None}]
  <2>1. ASSUME NEW e \in Deliveries PROVE g[e] \in Gen \cup {None}
    BY <1>1, <1>3, <1>4
  <2> QED
    BY <1>6, <2>1
<1>8. \A d \in Deliveries : gens'[d] # None => gens'[d] = g[d]
  BY <1>2, <1>7, PrunedIsUnused
<1>9. gens'[n].state = "active"
  BY <1>4, <1>5, <1>8
<1>10. ASSUME NEW d \in Deliveries \ {n}, gens'[d] # None
       PROVE  /\ gens[d] # None
              /\ gens'[d].state = gens[d].state /\ gens'[d].outcome = gens[d].outcome
  BY <1>3, <1>4, <1>8, <1>10
<1>11. ASSUME NEW k \in Keys
       PROVE  /\ rows'[k] = None <=> rows[k] = None
              /\ rows[k] # None =>
                   /\ rows'[k].completed = rows[k].completed /\ rows'[k].outcome = rows[k].outcome
                   /\ rows'[k].attempted = rows[k].attempted
                   /\ rows'[k].acknowledged = rows[k].acknowledged
                   /\ k[2] \notin old => rows'[k].qos = rows[k].qos
  <2>1. CASE k[2] \in old /\ rows[k] # None
    <3>1. PICK x \in Row : x = rows[k]
      BY <1>1, <2>1
    <3>2. PICK y : y = [x EXCEPT !.qos = 0]
      OBVIOUS
    <3>3. rows'[k] = y
      BY <1>2, <2>1, <3>1, <3>2
    <3>4. y \in Row /\ y.completed = x.completed /\ y.outcome = x.outcome
          /\ y.attempted = x.attempted /\ y.acknowledged = x.acknowledged
      BY <3>2 DEF Row
    <3> QED
      BY <1>1, <2>1, <3>1, <3>3, <3>4
  <2>2. CASE ~(k[2] \in old /\ rows[k] # None)
    BY <1>2, <2>2
  <2> QED
    BY <2>1, <2>2
<1> QED
  BY <1>9, <1>10, <1>11

(* A DUP of a live identity: what is settled is on disk, and what is open is  *)
(* not yet past its record.                                                   *)
LEMMA DupAgrees ==
  ASSUME IInv, TablesInv, TablesInv', NEW b \in Bridges, ThreadsAgree(b), wk' = wk, UNCHANGED db,
         NEW d \in Deliveries, Live(d), NEW pc \in {"defer", "resume"},
         cb'[b].pc = pc, cb'[b].d = d, cb'[b].st = gens[d].state, cb'[b].out = gens[d].outcome
  PROVE  ThreadsAgree(b)'
<1>1. ASSUME gens[d].state # "active" PROVE SettledAs(cb[b].d, cb[b].out)'
  BY <1>1 DEF SettledAs, Live, db
<1>2. ASSUME gens[d].state = "active" PROVE Resumes(b)'
  <2>1. Unsettled(d)
    BY <1>2 DEF Unsettled, Live
  <2>2. ASSUME NEW op \in Ops, rows[<<op, d>>] # None
        PROVE  ~rows[<<op, d>>].attempted /\ ~rows[<<op, d>>].acknowledged
    <3>1. PICK k \in Keys : k = <<op, d>>
      BY DEF Keys
    <3> QED
      BY <2>1, <2>2, <3>1 DEF ThreadsAgree, RowsAgree, RowAgrees
  <2>3. wk[b].d = d => wk[b].pc \notin WkSettles \cup {"fence"}
    BY <2>1 DEF ThreadsAgree, WkAgrees, WkKnows, WkSettles, SettledAs, Unsettled
  <2> QED
    BY <1>2, <2>1, <2>2, <2>3 DEF Resumes, Unsettled, Unreferenced, db
<1>3. CbAgrees(b)'
  <2>1. CbKnows(b)' => gens[d].state # "active"
    BY DEF CbKnows
  <2>2. CbResumes(b)' => gens[d].state = "active"
    BY DEF CbResumes
  <2>3. ~CbDelivers(b)'
    BY DEF CbDelivers
  <2> QED
    BY <1>1, <1>2, <2>1, <2>2, <2>3 DEF CbAgrees
<1> QED
  BY <1>3, CallbackLooks

(* A message that gets an identity of its own finds it open and unused.       *)
LEMMA MintAgrees ==
  ASSUME IInv, TablesInv, TablesInv', NEW b \in Bridges, ThreadsAgree(b), wk' = wk,
         wk[b].pc # "send", NEW p \in Publication, NEW n \in Deliveries, n = minted + 1,
         MintDelivery(b, p, n), NEW pc \in {"defer", "resume", "forward"},
         cb'[b].pc = pc, cb'[b].d = n, cb'[b].st = "active"
  PROVE  ThreadsAgree(b)'
<1>1. /\ gens[n] = None /\ gens'[n] # None
      /\ \A d \in Deliveries \ {n} : gens'[d] # None /\ gens'[d].active =>
           gens[d] # None /\ gens[d].active /\ d \notin Superseded(b, p)
  BY MintTables
<1>2. /\ gens'[n].state = "active"
      /\ \A d \in Deliveries \ {n} : gens'[d] # None =>
           /\ gens[d] # None
           /\ gens'[d].state = gens[d].state /\ gens'[d].outcome = gens[d].outcome
      /\ \A k \in Keys : rows'[k] = None <=> rows[k] = None
      /\ \A k \in Keys : rows[k] # None =>
           /\ rows'[k].completed = rows[k].completed /\ rows'[k].outcome = rows[k].outcome
           /\ rows'[k].attempted = rows[k].attempted
           /\ rows'[k].acknowledged = rows[k].acknowledged
           /\ k[2] \notin Superseded(b, p) => rows'[k].qos = rows[k].qos
  BY <1>1, MintOnward
<1>3. /\ wk[b].pc \notin {"idle", "claim"} => wk[b].d \in Deliveries \ {n} /\ WkKey(b) \in Keys
      /\ WkKey(b)' = WkKey(b)
  <2>1. minted \in Nat
    BY DEF IInv, TypeOK, DbTypeOK
  <2>2. n \notin Known
    BY <2>1 DEF Known
  <2>3. WkKey(b)' = WkKey(b)
    BY DEF WkKey
  <2> QED
    BY <2>2, <2>3, WkHas
<1>4. \A op \in Ops : rows'[<<op, n>>] = None
  <2>1. \A op \in Ops : <<op, n>> \in Keys
    BY DEF Keys
  <2>2. ASSUME NEW k \in Keys, k[2] = n PROVE rows'[k] = None
    BY <1>1, <1>2, <2>2 DEF TablesInv, RowsHaveGeneration
  <2> QED
    BY <2>1, <2>2
<1>5. RowsAgree'
  <2> SUFFICES ASSUME NEW k \in Keys, rows'[k] # None PROVE RowAgrees(k[2], rows[k])'
    BY DEF RowsAgree
  <2>1. PICK d \in Deliveries : d = k[2]
    BY DEF Keys
  <2>2. rows[k] # None /\ gens[d] # None /\ gens'[d] # None
    BY <1>2, <2>1 DEF TablesInv, RowsHaveGeneration
  <2>3. d \in Deliveries \ {n}
    BY <1>1, <2>2
  <2>4. RowAgrees(d, rows[k])
    BY <2>1, <2>2 DEF ThreadsAgree, RowsAgree
  <2>5. Live(d)' => Live(d) /\ d \notin Superseded(b, p)
    BY <1>1, <2>3 DEF Live
  <2>6. rows'[k].completed => SettledAs(d, rows[k].outcome)'
    BY <1>2, <2>2, <2>3, <2>4 DEF RowAgrees, SettledAs
  <2>7. rows'[k].attempted \/ rows'[k].acknowledged => ~Unsettled(d)'
    BY <1>2, <2>2, <2>3, <2>4 DEF RowAgrees, Unsettled
  <2>8. Live(d)' => rows'[k].qos = 1
    <3>1. PICK q : q = rows[k].qos
      OBVIOUS
    <3>2. Live(d)' => rows'[k].qos = q
      BY <1>2, <2>1, <2>2, <2>5, <3>1
    <3>3. Live(d)' => q = 1
      BY <2>4, <2>5, <3>1 DEF RowAgrees
    <3> QED
      BY <3>2, <3>3
  <2>9. RowAgrees(d, rows[k])'
    BY <2>6, <2>7, <2>8 DEF RowAgrees
  <2> QED
    BY <2>1, <2>9
<1>6. WkAgrees(b)'
  <2>1. ASSUME WkKnows(b)' PROVE gens'[wk[b].d] = None \/ SettledAs(wk[b].d, wk[b].out)'
    BY <1>2, <1>3, <2>1 DEF ThreadsAgree, WkAgrees, WkKnows, SettledAs
  <2>2. ASSUME wk[b].pc = "post" PROVE gens'[wk[b].d] = None \/ Unsettled(wk[b].d)'
    BY <1>2, <1>3, <2>2 DEF ThreadsAgree, WkAgrees, Unsettled
  <2>3. ASSUME wk[b].pc = "terminal"
        PROVE  \/ gens'[wk[b].d] = None \/ Unsettled(wk[b].d)'
               \/ SettledAs(wk[b].d, wk[b].out)'
    BY <1>2, <1>3, <2>3 DEF ThreadsAgree, WkAgrees, Unsettled, SettledAs
  <2>4. ASSUME WkOn(b, wk[b].d), Live(wk[b].d)', Unsettled(wk[b].d)' PROVE rows'[WkKey(b)] # None
    <3>1. wk[b].d \in Deliveries \ {n} /\ WkKey(b) \in Keys
      BY <1>3, <2>4 DEF WkOn
    <3>2. Live(wk[b].d) /\ Unsettled(wk[b].d)
      BY <1>1, <1>2, <2>4, <3>1 DEF Live, Unsettled
    <3> QED
      BY <1>2, <2>4, <3>1, <3>2 DEF ThreadsAgree, WkAgrees
  <2> QED
    BY <1>3, <2>1, <2>2, <2>3, <2>4 DEF WkAgrees, WkKnows, WkOn
<1>7. CbAgrees(b)'
  <2>1. Unsettled(n)'
    BY <1>1, <1>2 DEF Unsettled
  <2>2. ~CbKnows(b)'
    BY DEF CbKnows
  <2>3. CbDelivers(b)' => Delivers(b)'
    <3>1. ~WkOn(b, n)'
      BY <1>3 DEF WkOn
    <3> QED
      BY <1>1, <1>2, <1>4, <3>1 DEF Delivers, Unsettled, Unreferenced, WkOn
  <2>4. Resumes(b)'
    <3>1. wk[b].d = n => wk[b].pc \in {"idle", "claim"}
      BY <1>3
    <3> QED
      BY <1>1, <1>2, <1>4, <3>1 DEF Resumes, Unsettled, Unreferenced, WkSettles
  <2> QED
    BY <2>2, <2>3, <2>4 DEF CbAgrees
<1> QED
  BY <1>5, <1>6, <1>7 DEF ThreadsAgree

LEMMA MessageAgrees ==
  ASSUME IInv, TablesInv, TablesInv', NEW b \in Bridges, ThreadsAgree(b), OnMessage(b)
  PROVE  ThreadsAgree(b)'
<1>1. PICK p \in Publication : p = Head(wire) /\ PayloadOf[p.msg] \in Payloads
  BY NextMessage DEF OnMessage
<1>2. wk' = wk /\ wk[b].pc # "send" /\ cb \in [Bridges -> CbRecord]
  BY CbInHand DEF OnMessage, CallbackFree, WkSending
<1>3. ASSUME NEW d \in Same(b, p), UNCHANGED db,
             cb' = [cb EXCEPT ![b] =
                      [pc |-> NextPc(b, TRUE), d |-> d, dup |-> TRUE,
                       st |-> gens[d].state, out |-> gens[d].outcome,
                       op |-> OutcomeOp(gens[d].outcome)]]
      PROVE  ThreadsAgree(b)'
  <2>1. d \in Deliveries /\ Live(d)
    BY DEF Same, Superseded, Live
  <2>2. PICK pc \in {"defer", "resume"} : pc = NextPc(b, TRUE)
    BY DEF NextPc
  <2>3. /\ cb'[b].pc = pc /\ cb'[b].d = d /\ cb'[b].st = gens[d].state
        /\ cb'[b].out = gens[d].outcome
    BY <1>2, <1>3, <2>2
  <2> QED
    BY <1>2, <1>3, <2>1, <2>3, DupAgrees
<1>4. CASE /\ minted + 1 \in Deliveries /\ MintDelivery(b, p, minted + 1)
           /\ cb' = [cb EXCEPT ![b] =
                       [IdleCb EXCEPT !.pc = NextPc(b, p.dup), !.d = minted + 1,
                                      !.dup = p.dup]]
  <2>1. PICK n \in Deliveries : n = minted + 1 /\ MintDelivery(b, p, n)
    BY <1>4
  <2>2. PICK pc \in {"defer", "resume", "forward"} : pc = NextPc(b, p.dup)
    BY DEF NextPc
  <2>3. cb'[b].pc = pc /\ cb'[b].d = n /\ cb'[b].st = "active"
    BY <1>2, <1>4, <2>1, <2>2 DEF IdleCb
  <2> QED
    BY <1>2, <2>1, <2>3, MintAgrees
<1> QED
  BY <1>1, <1>3, <1>4 DEF OnMessage

LEMMA CallbackStepAgrees ==
  ASSUME IInv, TablesInv, TablesInv', NEW b \in Bridges, ThreadsAgree(b), CallbackStep(b)
  PROVE  ThreadsAgree(b)'
BY MessageAgrees, InsertAgrees, CallbackLooksAgree, LivePostAgrees, RecordAgrees, IntentAgrees,
   CompleteAgrees, RemoveAgrees, ResumeRowAgrees DEF CallbackStep

(* A step that changes only who claims a row, or whether it is gated.         *)
LEMMA AlikeAgrees ==
  ASSUME IInv, NEW b \in Bridges, ThreadsAgree(b), gens' = gens,
         \A k \in Keys :
           /\ rows'[k] = None <=> rows[k] = None
           /\ rows[k] # None =>
                /\ rows'[k].completed = rows[k].completed /\ rows'[k].outcome = rows[k].outcome
                /\ rows'[k].attempted = rows[k].attempted
                /\ rows'[k].acknowledged = rows[k].acknowledged /\ rows'[k].qos = rows[k].qos,
         \/ cb'[b] = cb[b] /\ wk'[b] = wk[b]
         \/ cb'[b].pc = "idle" /\ wk'[b].pc = "idle"
  PROVE  ThreadsAgree(b)'
<1>1. \A d, out : /\ SettledAs(d, out)' <=> SettledAs(d, out)
                  /\ Unsettled(d)' <=> Unsettled(d)
                  /\ Live(d)' <=> Live(d)
  BY DEF SettledAs, Unsettled, Live
<1>2. RowsAgree'
  <2> SUFFICES ASSUME NEW k \in Keys, rows'[k] # None PROVE RowAgrees(k[2], rows[k])'
    BY DEF RowsAgree
  <2>1. RowAgrees(k[2], rows[k]) /\ rows[k] # None
    BY DEF ThreadsAgree, RowsAgree
  <2> QED
    BY <1>1, <2>1 DEF RowAgrees, SettledAs, Unsettled, Live
<1>3. CASE cb'[b].pc = "idle" /\ wk'[b].pc = "idle"
  BY <1>2, <1>3, CbRests, WkRests DEF ThreadsAgree
<1>4. CASE cb'[b] = cb[b] /\ wk'[b] = wk[b]
  <2>1. \A d \in Deliveries : Unreferenced(d, rows') <=> Unreferenced(d, rows)
    BY DEF Unreferenced, Keys
  <2>2. cb[b].pc # "idle" => cb[b].d \in Deliveries
    BY CbInHand, KnownDeliveries
  <2>3. Onward /\ \A d : Opens(d)
    BY SameOnward
  <2>4. WkAgrees(b)'
    <3>1. WkOn(b, wk[b].d) => WkKey(b) \in Keys
      BY WkHas DEF WkOn
    <3> QED
      BY <1>1, <1>4, <2>3, <3>1, WkStays DEF ThreadsAgree, WkAgrees
  <2>5. CbAgrees(b)'
    <3>1. ASSUME CbKnows(b) PROVE SettledAs(cb[b].d, cb[b].out)'
      BY <1>4, <3>1 DEF ThreadsAgree, CbAgrees, SettledAs
    <3>2. ASSUME CbDelivers(b) PROVE Delivers(b)'
      BY <1>1, <1>4, <2>1, <2>2, <3>2
         DEF ThreadsAgree, CbAgrees, CbDelivers, Delivers, Unsettled, WkOn
    <3>3. ASSUME CbResumes(b) PROVE Resumes(b)'
      <4>1. Resumes(b) /\ cb[b].d \in Deliveries
        BY <2>2, <3>3 DEF ThreadsAgree, CbAgrees, CbResumes
      <4>2. ASSUME NEW op \in Ops, rows'[<<op, cb[b].d>>] # None
            PROVE  ~rows'[<<op, cb[b].d>>].attempted /\ ~rows'[<<op, cb[b].d>>].acknowledged
        <5>1. PICK k \in Keys : k = <<op, cb[b].d>>
          BY <4>1 DEF Keys
        <5> QED
          BY <4>1, <4>2, <5>1 DEF Resumes
      <4> QED
        BY <1>4, <2>1, <4>1, <4>2 DEF Resumes, Unsettled
    <3> QED
      BY <1>4, <3>1, <3>2, <3>3 DEF CbAgrees, CbKnows, CbDelivers, CbResumes
  <2> QED
    BY <1>2, <2>4, <2>5 DEF ThreadsAgree
<1> QED
  BY <1>3, <1>4

(* begin_session: a new broker session leaves no delivery live, and drops the *)
(* rows that are completed.                                                   *)
LEMMA BeginOnward ==
  ASSUME IInv, NEW b, NEW present, BeginSession(b, present)
  PROVE  /\ Onward /\ \A d \in Deliveries : Opens(d)
         /\ present => rows' = rows
         /\ ~present =>
              /\ \A d \in Deliveries : ~Live(d)'
              /\ \A k \in Keys : rows'[k] # None =>
                   /\ rows[k] # None /\ ~rows'[k].completed
                   /\ rows'[k].attempted = rows[k].attempted
                   /\ rows'[k].acknowledged = rows[k].acknowledged
<1>1. /\ gens \in [Deliveries -> Gen \cup {None}] /\ None \notin Gen
      /\ rows \in [Keys -> Row \cup {None}] /\ None \notin Row
  BY BridgeAssumption DEF IInv, TypeOK, DbTypeOK
<1>2. CASE present
  <2>1. gens' \in MaybePruned(gens, rows) /\ rows' = rows
    BY <1>2 DEF BeginSession, MaybePruned
  <2> QED
    BY <1>2, <2>1, PrunedOnward
<1>3. CASE ~present
  <2> DEFINE retired == [d \in Deliveries |->
                           IF gens[d] = None THEN None ELSE [gens[d] EXCEPT !.active = FALSE]]
  <2>1. ASSUME NEW d \in Deliveries, gens[d] # None
        PROVE  /\ retired[d] \in Gen /\ ~retired[d].active
               /\ retired[d].state = gens[d].state /\ retired[d].outcome = gens[d].outcome
    <3>1. PICK x \in Gen : x = gens[d]
      BY <1>1, <2>1
    <3>2. retired[d] = [x EXCEPT !.active = FALSE]
      BY <2>1, <3>1
    <3> HIDE DEF retired
    <3> QED
      BY <3>1, <3>2 DEF Gen
  <2>2. retired = [d \in Deliveries |-> retired[d]]
    OBVIOUS
  <2>3. \A d \in Deliveries : gens[d] = None => retired[d] = None
    OBVIOUS
  <2>4. gens' \in MaybePruned(retired, rows')
    BY <1>3 DEF BeginSession, MaybePruned
  <2> HIDE DEF retired
  <2>5. retired \in [Deliveries -> Gen \cup {None}]
    BY <2>1, <2>2, <2>3
  <2>6. \A d \in Deliveries : gens'[d] # None => gens'[d] = retired[d]
    BY <2>4, <2>5, PrunedIsUnused
  <2>7. ASSUME NEW d \in Deliveries, gens'[d] # None
        PROVE  /\ gens[d] # None /\ ~gens'[d].active
               /\ gens'[d].state = gens[d].state /\ gens'[d].outcome = gens[d].outcome
    BY <2>1, <2>3, <2>6, <2>7
  <2>8. Onward /\ \A d \in Deliveries : Opens(d) /\ ~Live(d)'
    BY <2>7 DEF Onward, Opens, Unsettled, Live
  <2>9. ASSUME NEW k \in Keys, rows'[k] # None
        PROVE  /\ rows[k] # None /\ ~rows'[k].completed
               /\ rows'[k].attempted = rows[k].attempted
               /\ rows'[k].acknowledged = rows[k].acknowledged
    <3>1. rows'[k] = IF rows[k] = None THEN None
                     ELSE IF rows[k].completed THEN None
                     ELSE [rows[k] EXCEPT !.qos = 0]
      BY <1>3 DEF BeginSession
    <3>2. PICK x \in Row : x = rows[k]
      BY <1>1, <2>9, <3>1
    <3>3. PICK y : y = [x EXCEPT !.qos = 0]
      OBVIOUS
    <3>4. rows'[k] = y /\ rows[k] # None /\ ~x.completed
      BY <2>9, <3>1, <3>2, <3>3
    <3> QED
      BY ZenonT(60), <3>2, <3>3, <3>4 DEF Row
  <2> QED
    BY <1>3, <2>8, <2>9
<1> QED
  BY <1>2, <1>3

LEMMA BeginAgrees ==
  ASSUME IInv, TablesInv, TablesInv', NEW b \in Bridges, ThreadsAgree(b), cb[b].pc = "idle",
         cb' = cb, wk' = wk, wk[b].pc # "send", NEW c, NEW present, BeginSession(c, present)
  PROVE  ThreadsAgree(b)'
<1>1. /\ Onward /\ \A d \in Deliveries : Opens(d)
      /\ present => rows' = rows
      /\ ~present =>
           /\ \A d \in Deliveries : ~Live(d)'
           /\ \A k \in Keys : rows'[k] # None =>
                /\ rows[k] # None /\ ~rows'[k].completed
                /\ rows'[k].attempted = rows[k].attempted
                /\ rows'[k].acknowledged = rows[k].acknowledged
  BY BeginOnward
<1>2. CbAgrees(b)'
  BY CbRests
<1>3. wk[b].pc \notin {"idle", "claim"} => wk[b].d \in Deliveries /\ WkKey(b) \in Keys
  BY WkHas
<1>4. WkAgrees(b)'
  BY <1>1, <1>3, WkStays DEF ThreadsAgree, WkOn
<1>5. RowsAgree'
  <2>1. CASE present
    <3>1. \A k \in Keys : rows'[k] # None => RowAgrees(k[2], rows'[k])
      BY <1>1, <2>1 DEF ThreadsAgree, RowsAgree
    <3> QED
      BY <1>1, <3>1, RowsStay DEF TablesInv
  <2>2. CASE ~present
    <3> SUFFICES ASSUME NEW k \in Keys, rows'[k] # None PROVE RowAgrees(k[2], rows[k])'
      BY DEF RowsAgree
    <3>1. PICK d \in Deliveries : d = k[2]
      BY DEF Keys
    <3>2. RowAgrees(d, rows[k]) /\ ~Live(d)' /\ ~rows'[k].completed
          /\ rows'[k].attempted = rows[k].attempted /\ rows'[k].acknowledged = rows[k].acknowledged
      BY <1>1, <2>2, <3>1 DEF ThreadsAgree, RowsAgree
    <3>3. Unsettled(d)' => Unsettled(d)
      BY <1>1, OnwardFacts
    <3>4. rows'[k].attempted \/ rows'[k].acknowledged => ~Unsettled(d)'
      BY <3>2, <3>3 DEF RowAgrees
    <3>5. RowAgrees(d, rows[k])'
      BY <3>2, <3>4 DEF RowAgrees
    <3> QED
      BY <3>1, <3>5
  <2> QED
    BY <2>1, <2>2
<1> QED
  BY <1>2, <1>4, <1>5 DEF ThreadsAgree

LEMMA SameAgrees ==
  ASSUME IInv, NEW b \in Bridges, ThreadsAgree(b), UNCHANGED <<gens, rows, cb, wk>>
  PROVE  ThreadsAgree(b)'
BY AlikeAgrees

LEMMA SessionAgrees ==
  ASSUME IInv, TablesInv, TablesInv', NEW one \in Bridges, Alone(one), Alone(one)',
         ThreadsAgree(one), NEW b \in Bridges,
         SessionStep(b) \/ IgnoreMessage(b) \/ SubackRefused(b)
  PROVE  ThreadsAgree(one)'
<1>1. phase \in [Bridges -> {"off", "retryPresent", "retryClean", "pending", "ready"}]
  BY DEF IInv, TypeOK, MemoryTypeOK
<1>2. CASE OnConnect(b)
  <2>1. b = one
    BY <1>1, <1>2 DEF OnConnect, Alone
  <2>2. cb[one].pc = "idle" /\ wk[one].pc # "send" /\ cb' = cb /\ wk' = wk
    BY <1>2, <2>1 DEF OnConnect, CallbackFree, WkSending
  <2>3. BeginSession(b, session) \/ UNCHANGED db
    BY <1>2 DEF OnConnect
  <2> QED
    BY <2>2, <2>3, BeginAgrees, SameAgrees DEF db
<1>3. CASE RetryActivation(b)
  <2>1. b = one /\ cb[b].pc = "idle"
    BY <1>3 DEF RetryActivation, Alone, TablesInv, CallbacksLive
  <2>2. /\ wk[one].pc # "send" /\ cb' = cb /\ wk' = wk
        /\ BeginSession(b, phase[b] = "retryPresent")
    BY <1>3, <2>1 DEF RetryActivation, WkSending
  <2> QED
    BY <2>1, <2>2, BeginAgrees
<1>4. CASE ResumeSession(b)
  <2>1. rows' = Ungated(rows) /\ UNCHANGED <<gens, cb, wk>>
    BY <1>4 DEF ResumeSession
  <2>2. ASSUME NEW k \in Keys
        PROVE  /\ rows'[k] = None <=> rows[k] = None
               /\ rows[k] # None =>
                    /\ rows'[k].completed = rows[k].completed
                    /\ rows'[k].outcome = rows[k].outcome
                    /\ rows'[k].attempted = rows[k].attempted
                    /\ rows'[k].acknowledged = rows[k].acknowledged
                    /\ rows'[k].qos = rows[k].qos
    <3>1. CASE rows[k] = None
      BY <2>1, <3>1 DEF Ungated
    <3>2. CASE rows[k] # None
      <4>1. PICK x \in Row : x = rows[k]
        BY <3>2 DEF IInv, TypeOK, DbTypeOK
      <4>2. PICK y : y = [x EXCEPT !.awaiting = FALSE]
        OBVIOUS
      <4>3. rows'[k] = y
        BY <2>1, <3>2, <4>1, <4>2 DEF Ungated
      <4>4. y \in Row /\ None \notin Row
        BY <4>2, BridgeAssumption DEF Row
      <4> QED
        BY ZenonT(60), <3>2, <4>1, <4>2, <4>3, <4>4 DEF Row
    <3> QED
      BY <3>1, <3>2
  <2> QED
    BY <2>1, <2>2, AlikeAgrees
<1>5. CASE OnDisconnect(b) \/ SubackRefused(b) \/ IgnoreMessage(b)
  <2>1. UNCHANGED <<gens, rows, cb, wk>>
    BY <1>5 DEF OnDisconnect, SubackRefused, IgnoreMessage, db, memory
  <2> QED
    BY <2>1, SameAgrees
<1> QED
  BY <1>2, <1>3, <1>4, <1>5 DEF SessionStep

LEMMA CrashAgrees ==
  ASSUME IInv, NEW one \in Bridges, ThreadsAgree(one), NEW b \in Bridges, Crash(b)
  PROVE  ThreadsAgree(one)'
<1>1. /\ cb \in [Bridges -> CbRecord] /\ wk \in [Bridges -> WkRecord]
      /\ rows \in [Keys -> Row \cup {None}] /\ None \notin Row
  BY BridgeAssumption DEF IInv, TypeOK, DbTypeOK, MemoryTypeOK
<1>2. /\ cb' = [cb EXCEPT ![b] = IdleCb] /\ wk' = [wk EXCEPT ![b] = IdleWk] /\ gens' = gens
  BY DEF Crash
<1>3. IdleCb.pc = "idle" /\ IdleWk.pc = "idle"
  BY DEF IdleCb, IdleWk
<1>4. \/ cb'[one] = cb[one] /\ wk'[one] = wk[one]
      \/ cb'[one].pc = "idle" /\ wk'[one].pc = "idle"
  BY <1>1, <1>2, <1>3
<1>5. ASSUME NEW k \in Keys
      PROVE  /\ rows'[k] = None <=> rows[k] = None
             /\ rows[k] # None =>
                  /\ rows'[k].completed = rows[k].completed
                  /\ rows'[k].outcome = rows[k].outcome
                  /\ rows'[k].attempted = rows[k].attempted
                  /\ rows'[k].acknowledged = rows[k].acknowledged
                  /\ rows'[k].qos = rows[k].qos
  <2>1. rows'[k] = IF rows[k] # None /\ rows[k].claim = b
                   THEN [rows[k] EXCEPT !.claim = "dead"] ELSE rows[k]
    BY DEF Crash
  <2>2. CASE rows[k] # None /\ rows[k].claim = b
    <3>1. PICK x \in Row : x = rows[k]
      BY <1>1, <2>2
    <3>2. PICK y : y = [x EXCEPT !.claim = "dead"]
      OBVIOUS
    <3>3. rows'[k] = y /\ y \in Row
      BY <2>1, <2>2, <3>1, <3>2 DEF Row
    <3> QED
      BY ZenonT(60), <1>1, <2>2, <3>1, <3>2, <3>3 DEF Row
  <2>3. CASE ~(rows[k] # None /\ rows[k].claim = b)
    BY <2>1, <2>3
  <2> QED
    BY <2>2, <2>3
<1> QED
  BY <1>2, <1>4, <1>5, AlikeAgrees

(* Only the one bridge that runs takes a step of a thread.                    *)
LEMMA OneSteps ==
  ASSUME NEW one \in Bridges, Only(one), NEW b \in Bridges, CallbackStep(b) \/ WorkerStep(b)
  PROVE  b = one
<1>1. CASE CallbackStep(b)
  <2>1. phase[b] # "off" \/ cb[b].pc # "idle"
    BY ZenonT(60), <1>1
    DEF CallbackStep, OnMessage, DeferUnapproved, ResumeTerminal, ResumeRow, ResumeIntent,
       ResumeAck, ResumeUnack, ResumeAcked, ResumeDelete, CompleteTerminal, CompleteAck,
       CompleteUnack, CompleteMark, CompleteDelete, LiveForward, LiveQuarantine, LiveTerminal,
       LiveAck, LiveAcked, LiveEnqueue, CbAt
  <2> QED
    BY <2>1 DEF Only, Alone
<1>2. CASE WorkerStep(b)
  <2>1. phase[b] # "off" \/ wk[b].pc # "idle"
    BY ZenonT(60), <1>2
    DEF WorkerStep, PollDue, ClaimRow, ClaimNothing, LookUp, RetryPost, RetryTerminal,
       FenceRow, AckIntent, RetryAck, RetryUnack, MarkAcknowledged, SettleAcked, DeleteRow,
       RescheduleClaimed, ReleaseClaim, WkAt
  <2> QED
    BY <2>1 DEF Only, Alone
<1> QED
  BY <1>1, <1>2

LEMMA NextAgrees ==
  ASSUME IInv, TablesInv, TablesInv', NEW one \in Bridges, Only(one), Only(one)',
         ThreadsAgree(one), [Next]_vars
  PROVE  ThreadsAgree(one)'
<1>0. Alone(one) /\ Alone(one)'
  BY DEF Only
<1>1. CASE UNCHANGED <<gens, rows, cb, wk>>
  BY <1>1, SameAgrees
<1>2. CASE Environment
  <2>1. CASE \E b \in Bridges : Crash(b) \/ SubackRefused(b)
    BY <1>0, <2>1, CrashAgrees, SessionAgrees
  <2>2. CASE (\E m \in Msgs : Publish(m)) \/ ReceivePuback \/ DropConnection \/ LoseSession
    <3>1. UNCHANGED <<gens, rows, cb, wk>>
      BY <2>2 DEF Publish, ReceivePuback, DropConnection, LoseSession, memory, db
    <3> QED
      BY <1>1, <3>1
  <2> QED
    BY <1>2, <2>1, <2>2 DEF Environment
<1>3. ASSUME NEW b \in Bridges, SessionStep(b) \/ IgnoreMessage(b)
      PROVE  ThreadsAgree(one)'
  BY <1>0, <1>3, SessionAgrees
<1>4. ASSUME NEW b \in Bridges, CallbackStep(b) PROVE ThreadsAgree(one)'
  <2>1. b = one
    BY <1>4, OneSteps
  <2> QED
    BY <1>4, <2>1, CallbackStepAgrees
<1>5. ASSUME NEW b \in Bridges, WorkerStep(b) PROVE ThreadsAgree(one)'
  <2>1. b = one
    BY <1>5, OneSteps
  <2> QED
    BY <1>5, <2>1, WorkerStepAgrees
<1> QED
  BY <1>1, <1>2, <1>3, <1>4, <1>5 DEF Next, vars, memory, db

-----------------------------------------------------------------------------
LEMMA InitAgrees ==
  ASSUME Init, NEW b \in Bridges
  PROVE  Only(b) /\ ThreadsAgree(b)
<1>1. /\ \A c \in Bridges : phase[c] = "off" /\ cb[c].pc = "idle" /\ wk[c].pc = "idle"
      /\ \A k \in Keys : rows[k] = None
  BY DEF Init, IdleCb, IdleWk
<1> QED
  BY <1>1 DEF Only, Alone, ThreadsAgree, RowsAgree, CbAgrees, CbKnows, CbDelivers, CbResumes,
     WkAgrees, WkKnows, WkOn

(* While one bridge runs, its threads agree on the outcome of every delivery, *)
(* whatever stops, fails and comes again.                                     *)
LedgerIInv ==
  TablesIInv /\ (scenario.bridges = {b1} => Only(b1) /\ ThreadsAgree(b1))

THEOREM LedgerInvariance == ScenarioSpec => []LedgerIInv
<1>1. ScenarioInit => Only(b1) /\ ThreadsAgree(b1)
  BY ScenarioAssumption, InitAgrees DEF ScenarioInit
<1>2. /\ TablesIInv /\ TablesIInv' /\ [ScenarioNext]_<<vars, scenario>>
      /\ (scenario.bridges = {b1} => Only(b1) /\ ThreadsAgree(b1))
      => (scenario.bridges = {b1} => Only(b1) /\ ThreadsAgree(b1))'
  <2> SUFFICES ASSUME TablesIInv, TablesIInv', [ScenarioNext]_<<vars, scenario>>,
                      scenario'.bridges = {b1},
                      scenario.bridges = {b1} => Only(b1) /\ ThreadsAgree(b1)
               PROVE  Only(b1)' /\ ThreadsAgree(b1)'
    OBVIOUS
  <2>1. [Next]_vars /\ scenario' = scenario
    BY DEF ScenarioNext
  <2>2. /\ IInv /\ TablesInv /\ TablesInv' /\ Only(b1) /\ ThreadsAgree(b1)
        /\ Alone(b1)' /\ b1 \in Bridges
    BY <2>1, ScenarioAssumption DEF TablesIInv
  <2>3. Only(b1)'
    <3>1. CASE Within
      <4>1. \A c \in Bridges \ {b1} : wk'[c] = IdleWk
        BY <2>1, <3>1 DEF Within
      <4>2. IdleWk.pc = "idle"
        BY DEF IdleWk
      <4> QED
        BY <2>2, <4>1, <4>2 DEF Only
    <3>2. CASE UNCHANGED <<vars, scenario>>
      BY <2>2, <3>2 DEF Only, vars, memory
    <3> QED
      BY <3>1, <3>2 DEF ScenarioNext
  <2> QED
    BY <2>1, <2>2, <2>3, NextAgrees
<1> QED
  BY <1>1, <1>2, TablesInvariance, PTL DEF LedgerIInv, ScenarioSpec

(* One bridge never posts again what is terminal on disk: neither a DUP, nor  *)
(* a row, nor a restart makes it repeat a delivery.                           *)
THEOREM DeliversOnce == ScenarioSpec => NoRepeats
<1>1. ASSUME LedgerIInv, [ScenarioNext]_<<vars, scenario>>
      PROVE  [scenario.bridges = {b1} =>
                \A b \in Bridges, d \in Deliveries :
                  Posts(b, d) => gens[d] = None \/ gens[d].state = "active"]_vars
  <2> SUFFICES ASSUME scenario.bridges = {b1}, NEW b \in Bridges, NEW d \in Deliveries,
                      Posts(b, d)
               PROVE  gens[d] = None \/ gens[d].state = "active"
    OBVIOUS
  <2>1. Only(b1) /\ ThreadsAgree(b1)
    BY <1>1 DEF LedgerIInv
  <2>2. b = b1
    BY <2>1 DEF Posts, Only, Alone
  <2>3. CASE cb[b].pc \in {"forward", "quarantine"} /\ cb[b].d = d
    BY <2>1, <2>2, <2>3 DEF ThreadsAgree, CbAgrees, CbDelivers, Delivers, Unsettled
  <2>4. CASE wk[b].pc = "post" /\ wk[b].d = d
    BY <2>1, <2>2, <2>4 DEF ThreadsAgree, WkAgrees, Unsettled
  <2> QED
    BY <2>3, <2>4 DEF Posts
<1> QED
  BY <1>1, LedgerInvariance, PTL DEF NoRepeats, ScenarioSpec

-----------------------------------------------------------------------------
(* What a step does to the ledger: it moves records onward, or forgets them,  *)
(* and only when nothing is being posted; and it acknowledges a delivery      *)
(* whose outcome is on record.                                                *)
Writes == UNCHANGED <<packet, minted>> /\ Onward /\ (UNCHANGED backend \/ UNCHANGED gens)
StoreGrows == accepted \subseteq accepted' /\ quarantined \subseteq quarantined'
Acks ==
  \/ pubacked' = pubacked
  \/ \E d \in Known : ~Unsettled(d) /\ gens[d] # None /\ pubacked' = pubacked \cup {d}

LEMMA ResultsGrow ==
  ASSUME NEW p, NEW result, Forward(p, result) \/ PostQuarantine(p, result)
  PROVE  StoreGrows
BY DEF Forward, PostQuarantine, StoreGrows

LEMMA QuietWrites ==
  ASSUME UNCHANGED <<packet, minted, gens>>
  PROVE  Writes
BY SameOnward DEF Writes

LEMMA SameBackendGrows == ASSUME UNCHANGED backend PROVE StoreGrows
BY DEF backend, StoreGrows

(* _set_delivery_state by a thread that agrees: what it records is open, or   *)
(* is on record already.                                                      *)
LEMMA RecordingWrites ==
  ASSUME IInv, NEW e, NEW o, NEW s \in {"terminal", "acked"}, e \in Known,
         o \in Outcomes \cup {""}, SettledAs(e, o) \/ Unsettled(e) \/ gens[e] = None,
         SetState(e, s, o) \/ UNCHANGED db, UNCHANGED backend
  PROVE  Writes
<1>1. CASE UNCHANGED db
  BY <1>1, QuietWrites DEF db
<1>2. CASE SetState(e, s, o)
  <2>1. PICK d \in Known : d = e
    OBVIOUS
  <2>2. PICK out \in Outcomes \cup {""} : out = o
    OBVIOUS
  <2>3. SetState(d, s, out) /\ (SettledAs(d, out) \/ Unsettled(d))
    BY <1>2, <2>1, <2>2 DEF SetState
  <2>4. Onward
    BY <2>3, SetStateOnward
  <2> QED
    BY <1>2, <2>4 DEF SetState, Writes
<1> QED
  BY <1>1, <1>2

LEMMA WorkerWrites ==
  ASSUME IInv, TablesInv, NEW b \in Bridges, ThreadsAgree(b), WorkerStep(b)
  PROVE  Writes /\ StoreGrows /\ Acks
<1>0. WkAgrees(b)
  BY DEF ThreadsAgree
<1>1. CASE PollDue(b) \/ (\E k \in Keys : ClaimRow(b, k)) \/ ClaimNothing(b) \/ LookUp(b)
  <2>1. UNCHANGED <<packet, minted, gens, backend, pubacked>>
    BY <1>1 DEF PollDue, ClaimRow, ClaimNothing, LookUp, db
  <2> QED
    BY SMTT(60), <2>1, QuietWrites, SameBackendGrows DEF Acks
<1>2. CASE \/ FenceRow(b) \/ AckIntent(b) \/ RetryUnack(b) \/ MarkAcknowledged(b)
           \/ RescheduleClaimed(b) \/ ReleaseClaim(b)
  <2>1. UNCHANGED <<packet, minted, gens, backend, pubacked>>
    BY <1>2 DEF FenceRow, AckIntent, RetryUnack, MarkAcknowledged, RescheduleClaimed,
                ReleaseClaim, db
  <2> QED
    BY <2>1, QuietWrites, SameBackendGrows DEF Acks
<1>3. CASE RetryPost(b)
  <2>1. UNCHANGED <<packet, minted, gens, pubacked>>
    BY <1>3 DEF RetryPost, db
  <2>2. StoreGrows
    BY <1>3, ResultsGrow, SameBackendGrows DEF RetryPost
  <2> QED
    BY <2>1, <2>2, QuietWrites DEF Acks
<1>4. CASE RetryTerminal(b) \/ SettleAcked(b)
  <2>1. /\ wk[b].pc \in {"terminal", "settle"} /\ wk[b].d \in Known
        /\ wk[b].out \in Outcomes \cup {""} /\ UNCHANGED <<backend, pubacked>>
    BY <1>4, WkHas DEF RetryTerminal, SettleAcked, WkAt
  <2>2. SettledAs(wk[b].d, wk[b].out) \/ Unsettled(wk[b].d) \/ gens[wk[b].d] = None
    BY <1>0, <2>1 DEF WkAgrees, WkKnows
  <2>3. \/ SetState(wk[b].d, "terminal", wk[b].out)
        \/ SetState(wk[b].d, "acked", wk[b].out)
        \/ UNCHANGED db
    BY <1>4 DEF RetryTerminal, SettleAcked
  <2> QED
    BY <2>1, <2>2, <2>3, RecordingWrites, SameBackendGrows DEF Acks
<1>5. CASE DeleteRow(b)
  <2>1. UNCHANGED <<packet, minted, backend, pubacked>>
    BY <1>5 DEF DeleteRow, db
  <2>2. Onward
    BY <1>5, PrunedOnward, SameOnward DEF DeleteRow, db
  <2> QED
    BY <2>1, <2>2, SameBackendGrows DEF Acks, Writes
<1>6. CASE RetryAck(b)
  <2>1. UNCHANGED <<packet, minted, gens, backend>>
    BY <1>6 DEF RetryAck, db
  <2>2. /\ wk[b].pc = "send" /\ wk[b].d \in Known
        /\ pubacked' = pubacked \/ pubacked' = pubacked \cup {wk[b].d}
    BY <1>6, WkHas DEF RetryAck, WkAt, NoAck, SendAck
  <2>3. SettledAs(wk[b].d, wk[b].out)
    BY <1>0, <2>2 DEF WkAgrees, WkKnows, Live
  <2>4. Acks
    BY <2>2, <2>3 DEF Acks, SettledAs, Unsettled
  <2> QED
    BY <2>1, <2>4, QuietWrites, SameBackendGrows
<1> QED
  BY <1>1, <1>2, <1>3, <1>4, <1>5, <1>6 DEF WorkerStep

(* enqueue records the outcome of what is settled, or nothing.                *)
LEMMA EnqueueWrites ==
  ASSUME IInv, NEW b \in Bridges, cb[b].pc # "idle", NEW op \in Ops, NEW completed \in BOOLEAN,
         NEW awaiting, completed => SettledAs(cb[b].d, OpOutcome(op)),
         Enqueue(b, op, completed, awaiting), UNCHANGED backend
  PROVE  Writes
<1>1. PICK d \in Known : d = cb[b].d
  BY CbInHand
<1>2. PICK out \in Outcomes \cup {""} : out = OpOutcome(op)
  BY DEF OpOutcome, Outcomes
<1>3. CASE UNCHANGED <<packet, minted, gens>>
  BY <1>3, QuietWrites
<1>4. CASE /\ completed /\ gens[d] # None /\ UNCHANGED <<packet, minted>>
           /\ gens' \in MaybePruned(WithState(gens, d, "terminal", out), rows)
  <2>1. SettledAs(d, out)
    BY <1>1, <1>2, <1>4
  <2>2. Onward
    BY <1>4, <2>1, SettingOnward
  <2> QED
    BY <1>4, <2>2 DEF Writes
<1> QED
  BY <1>1, <1>2, <1>3, <1>4 DEF Enqueue, db

LEMMA InsertWrites ==
  ASSUME IInv, NEW b \in Bridges, ThreadsAgree(b), DeferUnapproved(b) \/ LiveEnqueue(b)
  PROVE  Writes
<1>1. /\ cb[b].pc \in {"defer", "enqueue"} /\ cb[b].pc # "idle" /\ UNCHANGED backend
      /\ cb[b] \in CbRecord /\ CbSafe(b)
  BY CbInHand DEF DeferUnapproved, LiveEnqueue, CbAt, IInv, SafeInv
<1>2. ASSUME Delivered(b)
      PROVE  SettledAs(cb[b].d, cb[b].out) /\ cb[b].out \in Outcomes
  BY <1>1, <1>2 DEF Delivered, CbAt, ThreadsAgree, CbAgrees, CbKnows, CbSafe, Stands
<1>3. CASE DeferUnapproved(b)
  <2>1. PICK op \in Ops, completed \in BOOLEAN :
          /\ Enqueue(b, op, completed, TRUE)
          /\ completed => Delivered(b) /\ op = OutcomeOp(cb[b].out)
    BY <1>3 DEF DeferUnapproved, OutcomeOp, DecodeOp, Ops, Delivered
  <2>2. completed => SettledAs(cb[b].d, OpOutcome(op))
    BY <1>2, <2>1, OutcomeRepeats
  <2> QED
    BY <1>1, <2>1, <2>2, EnqueueWrites
<1>4. CASE LiveEnqueue(b)
  <2>1. PICK op \in Ops, completed \in BOOLEAN :
          Enqueue(b, op, completed, FALSE) /\ op = cb[b].op /\ (completed <=> Delivered(b))
    BY <1>1, <1>4 DEF LiveEnqueue, CbRecord, Delivered
  <2>2. Delivered(b) => cb[b].op = OutcomeOp(cb[b].out)
    BY <1>1, <1>4 DEF LiveEnqueue, CbAt, CbSafe, Delivered
  <2>3. completed => SettledAs(cb[b].d, OpOutcome(op))
    BY <1>2, <2>1, <2>2, OutcomeRepeats
  <2> QED
    BY <1>1, <2>1, <2>3, EnqueueWrites
<1> QED
  BY <1>3, <1>4

LEMMA CallbackWrites ==
  ASSUME IInv, TablesInv, NEW b \in Bridges, ThreadsAgree(b), CallbackStep(b), ~OnMessage(b)
  PROVE  Writes /\ StoreGrows /\ Acks
<1>0. CbAgrees(b)
  BY DEF ThreadsAgree
<1>1. CASE \/ ResumeTerminal(b) \/ ResumeRow(b) \/ ResumeIntent(b) \/ ResumeUnack(b)
           \/ CompleteUnack(b) \/ CompleteMark(b) \/ CompleteDelete(b)
  <2>1. UNCHANGED <<packet, minted, gens, backend, pubacked>>
    BY ZenonT(60), <1>1 DEF ResumeTerminal, ResumeRow, ResumeIntent, ResumeUnack, CompleteUnack,
                CompleteMark, CompleteDelete, CbFault, MarkAttempted, db
  <2> QED
    BY SMTT(60), <2>1, QuietWrites, SameBackendGrows DEF Acks
<1>2. CASE LiveForward(b) \/ LiveQuarantine(b)
  <2>1. UNCHANGED <<packet, minted, gens, pubacked>>
    BY <1>2 DEF LiveForward, LiveQuarantine, db
  <2>2. StoreGrows
    BY <1>2, ResultsGrow, SameBackendGrows DEF LiveForward, LiveQuarantine
  <2> QED
    BY <2>1, <2>2, QuietWrites DEF Acks
<1>3. CASE ResumeAck(b) \/ CompleteAck(b) \/ LiveAck(b)
  <2>1. UNCHANGED <<packet, minted, gens, backend>>
    BY <1>3 DEF ResumeAck, CompleteAck, LiveAck, db
  <2>2. /\ cb[b].pc \in {"rack", "cack", "ack"}
        /\ pubacked' = pubacked \/ pubacked' = pubacked \cup {cb[b].d}
    BY <1>3 DEF ResumeAck, CompleteAck, LiveAck, CbAt, NoAck, SendAck
  <2>3. SettledAs(cb[b].d, cb[b].out) /\ cb[b].d \in Known
    BY <1>0, <2>2, CbInHand DEF CbAgrees, CbKnows
  <2>4. Acks
    BY <2>2, <2>3 DEF Acks, SettledAs, Unsettled
  <2> QED
    BY <2>1, <2>4, QuietWrites, SameBackendGrows
<1>4. CASE LiveTerminal(b) \/ ResumeAcked(b) \/ CompleteTerminal(b) \/ LiveAcked(b)
  <2>1. /\ cb[b].pc \in {"terminal", "racked", "cterm", "acked", "cacked"}
        /\ UNCHANGED <<backend, pubacked>>
    BY <1>4 DEF LiveTerminal, ResumeAcked, CompleteTerminal, LiveAcked, CbAt
  <2>2. cb[b].d \in Known /\ cb[b].out \in Outcomes \cup {""}
    BY <2>1, CbHas
  <2>3. SettledAs(cb[b].d, cb[b].out) \/ Unsettled(cb[b].d)
    BY <1>0, <2>1 DEF CbAgrees, CbKnows, CbDelivers, Delivers
  <2>4. \/ SetState(cb[b].d, "terminal", cb[b].out)
        \/ SetState(cb[b].d, "acked", cb[b].out)
        \/ UNCHANGED db
    BY <1>4 DEF LiveTerminal, ResumeAcked, CompleteTerminal, LiveAcked
  <2> QED
    BY <2>1, <2>2, <2>3, <2>4, RecordingWrites, SameBackendGrows DEF Acks
<1>5. CASE ResumeDelete(b)
  <2>1. UNCHANGED <<packet, minted, backend, pubacked>>
    BY <1>5 DEF ResumeDelete, db
  <2>2. Onward
    BY <1>5, PrunedOnward, SameOnward DEF ResumeDelete, db
  <2> QED
    BY <2>1, <2>2, SameBackendGrows DEF Acks, Writes
<1>6. CASE DeferUnapproved(b) \/ LiveEnqueue(b)
  <2>1. UNCHANGED <<backend, pubacked>>
    BY <1>6 DEF DeferUnapproved, LiveEnqueue
  <2> QED
    BY <1>6, <2>1, InsertWrites, SameBackendGrows DEF Acks
<1> QED
  BY <1>1, <1>2, <1>3, <1>4, <1>5, <1>6 DEF CallbackStep

LEMMA SessionWrites ==
  ASSUME IInv, NEW b \in Bridges, SessionStep(b) \/ IgnoreMessage(b)
  PROVE  Writes /\ StoreGrows /\ Acks
<1>1. UNCHANGED <<backend, pubacked>>
  BY DEF SessionStep, OnConnect, RetryActivation, ResumeSession, OnDisconnect, IgnoreMessage
<1>2. CASE \E present : BeginSession(b, present)
  <2>1. UNCHANGED <<packet, minted>>
    BY <1>2 DEF BeginSession
  <2> QED
    BY <1>1, <1>2, <2>1, BeginOnward, SameBackendGrows DEF Writes, Acks
<1>3. CASE UNCHANGED <<packet, minted, gens>>
  BY <1>1, <1>3, QuietWrites, SameBackendGrows DEF Acks
<1>4. (\E present : BeginSession(b, present)) \/ UNCHANGED <<packet, minted, gens>>
  BY DEF SessionStep, OnConnect, RetryActivation, ResumeSession, OnDisconnect, IgnoreMessage, db
<1> QED
  BY <1>2, <1>3, <1>4

(* Every step of the one bridge but a new message writes what is settled.     *)
LEMMA NextWrites ==
  ASSUME IInv, TablesInv, NEW one \in Bridges, Only(one), ThreadsAgree(one), [Next]_vars
  PROVE  \/ Writes /\ StoreGrows /\ Acks
         \/ OnMessage(one)
<1>1. CASE UNCHANGED <<packet, minted, gens, backend, pubacked>>
  BY <1>1, QuietWrites, SameBackendGrows DEF Acks
<1>2. CASE Environment
  <2>1. UNCHANGED <<packet, minted, gens, backend, pubacked>>
    BY <1>2 DEF Environment, Publish, ReceivePuback, DropConnection, LoseSession, Crash,
                SubackRefused, db
  <2> QED
    BY <1>1, <2>1
<1>3. ASSUME NEW b \in Bridges, CallbackStep(b)
      PROVE  \/ Writes /\ StoreGrows /\ Acks
             \/ OnMessage(one)
  <2>1. b = one
    BY <1>3, OneSteps
  <2> QED
    BY <1>3, <2>1, CallbackWrites
<1>4. ASSUME NEW b \in Bridges, WorkerStep(b) PROVE Writes /\ StoreGrows /\ Acks
  <2>1. b = one
    BY <1>4, OneSteps
  <2> QED
    BY <1>4, <2>1, WorkerWrites
<1> QED
  BY <1>1, <1>2, <1>3, <1>4, SessionWrites DEF Next, vars, db

-----------------------------------------------------------------------------
(* The ledger of the tables: its records move as DeliveryLedger lets them.    *)
LedgerMoves(d) ==
  \/ LedgerOf(d) = "none" /\ LedgerOf(d)' = "open"
  \/ LedgerOf(d) = "open" /\ \E out \in Outcomes : <<d, out>> \in Kept /\ LedgerOf(d)' = out
  \/ LedgerOf(d) # "none" /\ LedgerOf(d)' = "gone"
  \/ LedgerOf(d)' = LedgerOf(d)

LEMMA MovesRecord ==
  ASSUME \A d \in Deliveries : LedgerMoves(d)
  PROVE  Ledger!Record
BY DEF LedgerMoves, Ledger!Record, Ledger!Open, Ledger!Settle, Ledger!Forget, Ledger!Same

(* What the ledger says of a delivery that was drawn.                         *)
LEMMA LedgerSays ==
  ASSUME IInv, NEW d \in Deliveries
  PROVE  /\ d \notin Known => LedgerOf(d) = "none" /\ gens[d] = None
         /\ d \in Known =>
              /\ gens[d] = None => LedgerOf(d) = "gone"
              /\ Unsettled(d) => LedgerOf(d) = "open"
              /\ gens[d] # None /\ ~Unsettled(d) =>
                   /\ LedgerOf(d) = gens[d].outcome /\ gens[d].outcome \in Outcomes
                   /\ <<d, gens[d].outcome>> \in Kept
<1>1. minted \in Nat /\ d \in Nat /\ d >= 1
  BY Bounds DEF IInv, TypeOK, DbTypeOK, Deliveries
<1>2. d \in Known <=> ~(d > minted)
  BY <1>1 DEF Known
<1>3. GensSafe
  BY DEF IInv, SafeInv
<1>4. ASSUME gens[d] # None, ~Unsettled(d) PROVE Stands(d, gens[d].outcome)
  BY <1>3, <1>4 DEF GensSafe, Unsettled
<1>5. gens[d] # None => d \in Known
  BY <1>3 DEF GensSafe
<1> QED
  BY <1>2, <1>4, <1>5 DEF LedgerOf, Unsettled, Stands, Kept, Known

LEMMA WritesRecord ==
  ASSUME IInv, IInv', Writes
  PROVE  Ledger!Record
<1> SUFFICES ASSUME NEW d \in Deliveries PROVE LedgerMoves(d)
  BY MovesRecord
<1>1. Known' = Known /\ packet' = packet
  BY DEF Writes, Known
<1>2. /\ d \notin Known => LedgerOf(d)' = "none"
      /\ d \in Known =>
           /\ gens'[d] = None => LedgerOf(d)' = "gone"
           /\ Unsettled(d)' => LedgerOf(d)' = "open"
           /\ gens'[d] # None /\ ~Unsettled(d)' => LedgerOf(d)' = gens'[d].outcome
  <2>1. d \in Known' <=> ~(d > minted')
    BY <1>1, Bounds DEF IInv, TypeOK, DbTypeOK, Deliveries, Known, Writes
  <2> QED
    BY <1>1, <2>1 DEF LedgerOf, Unsettled
<1>3. CASE d \notin Known
  BY <1>2, <1>3, LedgerSays DEF LedgerMoves
<1>4. CASE d \in Known /\ gens'[d] = None
  BY <1>2, <1>4, LedgerSays DEF LedgerMoves, Outcomes
<1>5. CASE d \in Known /\ Unsettled(d)'
  <2>1. Unsettled(d)
    BY <1>5, OnwardFacts DEF Writes
  <2> QED
    BY <1>2, <1>5, <2>1, LedgerSays DEF LedgerMoves
<1>6. CASE d \in Known /\ gens'[d] # None /\ ~Unsettled(d)'
  <2>1. gens[d] # None
    BY <1>6 DEF Writes, Onward
  <2>2. CASE ~Unsettled(d)
    <3>1. gens'[d].outcome = gens[d].outcome
      BY <1>6, <2>1, <2>2 DEF Writes, Onward, Unsettled
    <3> QED
      BY <1>2, <1>6, <2>1, <2>2, <3>1, LedgerSays DEF LedgerMoves
  <2>3. CASE Unsettled(d)
    <3>1. UNCHANGED backend
      BY <1>6, <2>3 DEF Writes, Unsettled
    <3>2. Stands(d, gens[d].outcome)'
      BY <1>6 DEF IInv, SafeInv, GensSafe, Unsettled
    <3>3. PICK out : out = gens'[d].outcome
      OBVIOUS
    <3>4. out \in Outcomes /\ packet[d].payload \in StoreOf(out)
      BY <1>1, <3>1, <3>2, <3>3 DEF Stands, StoreOf, backend
    <3>5. <<d, out>> \in Kept
      BY <1>6, <3>4 DEF Kept, Known
    <3> QED
      BY <1>2, <1>6, <2>3, <3>3, <3>4, <3>5, LedgerSays DEF LedgerMoves
  <2> QED
    BY <2>2, <2>3
<1> QED
  BY <1>3, <1>4, <1>5, <1>6

LEMMA DrawnNext ==
  ASSUME NEW m \in Nat, NEW n, n = m + 1
  PROVE  /\ n \in Nat /\ n \notin 1 .. m /\ 1 .. m \subseteq 1 .. n /\ n > m /\ ~(n > n)
         /\ \A d \in 1 .. m : ~(d > m) /\ ~(d > n)
         /\ \A d \in Nat \ {0} : d \notin 1 .. m /\ d # n => d > m /\ d > n
OBVIOUS

(* A message opens one record; its packet id's last owner may be forgotten.   *)
LEMMA MintRecord ==
  ASSUME IInv, NEW b \in Bridges, NEW p \in Publication, NEW n \in Deliveries, n = minted + 1,
         MintDelivery(b, p, n)
  PROVE  Ledger!Record
<1> SUFFICES ASSUME NEW d \in Deliveries PROVE LedgerMoves(d)
  BY MovesRecord
<1>1. /\ gens'[n] # None /\ gens'[n].state = "active"
      /\ \A e \in Deliveries \ {n} : gens'[e] # None =>
           /\ gens[e] # None
           /\ gens'[e].state = gens[e].state /\ gens'[e].outcome = gens[e].outcome
  BY MintTables, MintOnward
<1>2. /\ minted \in Nat /\ minted' = n /\ d \in Nat \ {0}
  <2>1. minted' = n
    BY DEF MintDelivery
  <2> QED
    BY <2>1, Bounds DEF IInv, TypeOK, DbTypeOK, Deliveries
<1>3. /\ d \in Known => ~(d > minted) /\ ~(d > n) /\ d # n
      /\ d \notin Known /\ d # n => d > minted /\ d > n
      /\ n > minted /\ ~(n > n)
  BY <1>2, DrawnNext DEF Known
<1>4. CASE d = n
  <2>1. LedgerOf(n) = "none"
    BY <1>3 DEF LedgerOf
  <2>2. LedgerOf(n)' = "open"
    BY <1>1, <1>2, <1>3 DEF LedgerOf
  <2> QED
    BY <1>4, <2>1, <2>2 DEF LedgerMoves
<1>5. CASE d # n /\ d \notin Known
  <2>1. LedgerOf(d) = "none"
    BY <1>3, <1>5 DEF LedgerOf
  <2>2. LedgerOf(d)' = "none"
    BY <1>2, <1>3, <1>5 DEF LedgerOf
  <2> QED
    BY <2>1, <2>2 DEF LedgerMoves
<1>6. CASE d \in Known /\ gens'[d] = None
  <2>1. LedgerOf(d) # "none"
    BY <1>6, LedgerSays DEF Outcomes
  <2>2. LedgerOf(d)' = "gone"
    BY <1>2, <1>3, <1>6 DEF LedgerOf
  <2> QED
    BY <2>1, <2>2 DEF LedgerMoves
<1>7. CASE d \in Known /\ gens'[d] # None
  <2>1. LedgerOf(d)' = LedgerOf(d)
    BY <1>1, <1>2, <1>3, <1>7 DEF LedgerOf
  <2> QED
    BY <2>1 DEF LedgerMoves
<1> QED
  BY <1>4, <1>5, <1>6, <1>7

(* What the backend keeps of the deliveries drawn so far it keeps.            *)
LEMMA KeptGrows ==
  ASSUME StoreGrows, Known \subseteq Known', \A d \in Known : packet'[d] = packet[d]
  PROVE  Kept \subseteq Kept'
<1>1. ASSUME NEW x \in (1 .. minted) \X Outcomes, packet[x[1]].payload \in StoreOf(x[2])
      PROVE  /\ x \in (1 .. minted') \X Outcomes
             /\ packet'[x[1]].payload \in StoreOf(x[2])'
  <2>1. PICK d \in Known, out \in Outcomes : x = <<d, out>>
    BY DEF Known
  <2>2. d \in Known' /\ packet'[d] = packet[d]
    BY <2>1
  <2>3. packet'[d].payload \in StoreOf(out)'
    BY <1>1, <2>1, <2>2 DEF StoreOf, StoreGrows
  <2> QED
    BY <2>1, <2>2, <2>3 DEF Known, StoreOf
<1> QED
  BY <1>1 DEF Kept

LEMMA WritesLedger ==
  ASSUME IInv, IInv', Writes, StoreGrows, Acks
  PROVE  Ledger!Next
<1>1. Ledger!Record
  BY WritesRecord
<1>2. Ledger!Acknowledge
  <2>1. ASSUME NEW d \in Known, ~Unsettled(d), gens[d] # None
        PROVE  d \in Deliveries /\ LedgerOf(d) \in Outcomes
    BY <2>1, KnownDeliveries, LedgerSays
  <2> QED
    BY <2>1 DEF Ledger!Acknowledge, Acks
<1>3. Kept \subseteq Kept'
  BY KeptGrows DEF Writes, Known
<1> QED
  BY <1>1, <1>2, <1>3 DEF Ledger!Next

LEMMA MessageLedger ==
  ASSUME IInv, IInv', NEW b \in Bridges, OnMessage(b)
  PROVE  Ledger!Next
<1>1. PICK p \in Publication : p = Head(wire)
  BY NextMessage DEF OnMessage
<1>2. pubacked' = pubacked /\ UNCHANGED backend
  BY DEF OnMessage
<1>3. CASE UNCHANGED db
  BY <1>2, <1>3, QuietWrites, SameBackendGrows, WritesLedger DEF db, Acks
<1>4. CASE minted + 1 \in Deliveries /\ MintDelivery(b, p, minted + 1)
  <2>1. PICK n \in Deliveries : n = minted + 1 /\ MintDelivery(b, p, n)
    BY <1>4
  <2>2. Ledger!Record
    BY <2>1, MintRecord
  <2>3. minted \in Nat /\ minted' = n
    <3>1. minted' = n
      BY <2>1 DEF MintDelivery
    <3> QED
      BY <3>1, Bounds DEF IInv, TypeOK, DbTypeOK
  <2>4. Known \subseteq Known' /\ n \notin Known
    <3>1. 1 .. minted \subseteq 1 .. n /\ n \notin 1 .. minted
      BY <2>1, <2>3, DrawnNext
    <3> QED
      BY <2>3, <3>1 DEF Known
  <2>5. \A d \in Known : packet'[d] = packet[d]
    <3>1. \A d \in Deliveries \ {n} : packet'[d] = packet[d]
      BY <2>1, MintTables
    <3> QED
      BY <2>4, <3>1, KnownDeliveries
  <2>6. Kept \subseteq Kept'
    <3>1. StoreGrows
      BY <1>2, SameBackendGrows
    <3> QED
      BY <2>4, <2>5, <3>1, KeptGrows
  <2>7. Ledger!Acknowledge
    BY <1>2 DEF Ledger!Acknowledge
  <2> QED
    BY <2>2, <2>6, <2>7 DEF Ledger!Next
<1> QED
  BY <1>1, <1>3, <1>4 DEF OnMessage

(* The delivery table of one bridge implements the ledger: a delivery is      *)
(* settled once, with an outcome the backend keeps already, and a PUBACK      *)
(* leaves only while that outcome is on record.                               *)
THEOREM TableIsLedger == ScenarioSpec => OneBridgeIsLedger
<1>1. ScenarioInit => Ledger!Init
  <2> SUFFICES ASSUME Init PROVE Ledger!Init
    BY DEF ScenarioInit
  <2>1. \A d \in Deliveries : LedgerOf(d) = "none"
    <3>1. minted = 0 /\ \A d \in Deliveries : d > 0
      BY Bounds DEF Init, Deliveries
    <3> QED
      BY <3>1 DEF LedgerOf
  <2>2. Kept = {}
    <3>1. 1 .. minted = {}
      BY DEF Init
    <3> QED
      BY <3>1 DEF Kept
  <2> QED
    BY <2>1, <2>2 DEF Ledger!Init, Init
<1>2. ASSUME LedgerIInv, LedgerIInv', [ScenarioNext]_<<vars, scenario>>
      PROVE  [scenario.bridges = {b1} => Ledger!Next]_(Ledger!vars)
  <2> SUFFICES ASSUME scenario.bridges = {b1} PROVE Ledger!Next
    OBVIOUS
  <2>1. /\ IInv /\ IInv' /\ TablesInv /\ Only(b1) /\ ThreadsAgree(b1)
        /\ [Next]_vars /\ b1 \in Bridges
    BY <1>2, ScenarioAssumption DEF LedgerIInv, TablesIInv, ScenarioNext
  <2>2. \/ Writes /\ StoreGrows /\ Acks
        \/ OnMessage(b1)
    BY <2>1, NextWrites
  <2> QED
    BY <2>1, <2>2, WritesLedger, MessageLedger
<1> QED
  BY <1>1, <1>2, LedgerInvariance, PTL DEF OneBridgeIsLedger, ScenarioSpec
-----------------------------------------------------------------------------
(* What the broker releases.  A PUBACK names a packet id only, so its owner   *)
(* is followed from the wire to the broker's end of the queue: an id that is  *)
(* not acknowledged stands in one place.  It is on the wire, or owed by the   *)
(* bridge that took it from there (by its callback, by a target of its rows,  *)
(* or by its worker), or on its way back; and wherever it is, it is that of   *)
(* the message which the broker holds under it.                               *)
Completing == {"cterm", "cintent", "cack", "cunack", "cmark", "cdelete"}
CbOwes(b) ==
  cb[b].pc \notin {"idle", "acked", "racked", "rdelete", "cmark", "cdelete", "cacked"}
WkOwes(b) == wk[b].pc \in {"ack", "send"}
(* A target whose PUBACK has left, before the thread withdraws it.            *)
Spent(b, k) ==
  \/ k = CbKey(b) /\ (cb[b].pc = "cmark" \/ (cb[b].pc = "cdelete" /\ cb[b].st # "acked"))
  \/ k = WkKey(b) /\ wk[b].pc = "mark"
Owes(b, d) ==
  \/ \E k \in targets[b] : k[2] = d /\ ~Spent(b, k)
  \/ CbOwes(b) /\ cb[b].d = d
  \/ WkOwes(b) /\ wk[b].d = d

WireApart ==
  /\ \A i, j \in DOMAIN wire : wire[i].mid = wire[j].mid => i = j
  /\ \A i \in DOMAIN wire : inflight[wire[i].mid] = wire[i].msg
AcksApart ==
  /\ \A i, j \in DOMAIN ackQ : ackQ[i] = ackQ[j] => i = j
  /\ \A i \in DOMAIN ackQ :
       inflight[ackQ[i]] # None /\ PayloadOf[inflight[ackQ[i]]] \in Stored
  /\ \A i \in DOMAIN wire, j \in DOMAIN ackQ : wire[i].mid # ackQ[j]
OwedHeld(d) ==
  /\ inflight[packet[d].mid] # None
  /\ PayloadOf[inflight[packet[d].mid]] = packet[d].payload
  /\ \A i \in DOMAIN wire : wire[i].mid # packet[d].mid
  /\ \A i \in DOMAIN ackQ : ackQ[i] # packet[d].mid
OwedApart ==
  \A b \in Bridges : conn = b =>
    /\ \A d \in Known : Owes(b, d) => OwedHeld(d)
    /\ \A d, e \in Known :
         Owes(b, d) /\ Owes(b, e) /\ packet[d].mid = packet[e].mid => d = e
(* A bridge owes a delivery once: its threads do not both hold it.            *)
OwesOnce(b) ==
  /\ \A k \in targets[b] : k[2] \in Known
  /\ \A k, l \in targets[b] : k[2] = l[2] => k = l
  /\ \A k \in targets[b] : k[2] = cb[b].d =>
       /\ CbOwes(b) => cb[b].pc \in Completing
       /\ cb[b].pc \in Completing => k = CbKey(b)
  /\ \A k \in targets[b] :
       k[2] = wk[b].d /\ wk[b].pc \in {"ack", "send", "mark"} => k = WkKey(b)
  /\ cb[b].pc \in {"cintent", "cack", "cunack", "cmark"} => cb[b].st # "acked"
  /\ wk[b].pc \in {"send", "unsent", "mark"} => cb[b].pc = "idle"
  /\ wk[b].pc = "ack" /\ CbOwes(b) => cb[b].d # wk[b].d
  /\ CbHoldsProcessing(b) => ~WkHoldsProcessing(b)
(* Only the connected bridge has a session, and its worker waits for it.      *)
OnlyConnected ==
  /\ conn = None => wire = <<>> /\ ackQ = <<>>
  /\ \A b \in Bridges : conn # b => phase[b] = "off"
  /\ \A b \in Bridges : phase[b] # "ready" => wk[b].pc = "idle"
(* Before the first crash nothing is sent twice.                              *)
FirstConnection ==
  faults["crash"] = 0 =>
    /\ conn = None => ~session
    /\ \A i \in DOMAIN wire : ~wire[i].dup
    /\ \A b \in Bridges : cb[b].pc # "resume" /\ ~CbHoldsProcessing(b)
IdsApart == WireApart /\ AcksApart /\ OwedApart
IdsInv == IdsApart /\ (\A b \in Bridges : OwesOnce(b)) /\ OnlyConnected /\ FirstConnection

(* Who owes a delivery knows it.                                              *)
LEMMA OwedKnown ==
  ASSUME IInv, NEW b \in Bridges, OwesOnce(b), NEW d, Owes(b, d)
  PROVE  d \in Known
<1>1. CbOwes(b) => cb[b].d \in Known
  BY CbInHand DEF CbOwes
<1>2. WkOwes(b) => wk[b].d \in Known
  BY WkInHand DEF WkOwes
<1> QED
  BY <1>1, <1>2 DEF Owes, OwesOnce

(* A step of the threads that sends nothing keeps every id in its place.      *)
LEMMA ThreadsKeepIds ==
  ASSUME IdsApart, UNCHANGED <<inflight, wire, ackQ, conn, packet, minted>>, StoreGrows,
         \A b \in Bridges, d \in Known : Owes(b, d)' => Owes(b, d)
  PROVE  IdsApart'
<1>1. Known' = Known
  BY DEF Known
<1>2. WireApart' /\ AcksApart'
  BY DEF IdsApart, WireApart, AcksApart, StoreGrows, Stored
<1>3. \A d : OwedHeld(d)' = OwedHeld(d)
  BY DEF OwedHeld
<1>4. OwedApart'
  <2> SUFFICES ASSUME NEW b \in Bridges, conn' = b
               PROVE  /\ \A d \in Known : Owes(b, d)' => OwedHeld(d)'
                      /\ \A d, e \in Known :
                           Owes(b, d)' /\ Owes(b, e)' /\ packet'[d].mid = packet'[e].mid => d = e
    BY <1>1 DEF OwedApart
  <2>1. conn = b /\ packet' = packet
    OBVIOUS
  <2> QED
    BY <1>3, <2>1 DEF IdsApart, OwedApart
<1> QED
  BY <1>2, <1>4 DEF IdsApart

(* A PUBACK that leaves takes the id from who owed it.                        *)
LEMMA AckKeepsIds ==
  ASSUME IInv, IdsApart, NEW a \in Bridges, NEW d \in Known, SendAck(a, d), StoredDelivery(d),
         UNCHANGED <<packet, minted, backend>>, Owes(a, d), ~Owes(a, d)',
         \A b \in Bridges, e \in Known : Owes(b, e)' => Owes(b, e)
  PROVE  IdsApart'
<1>1. CASE conn # a
  <2>1. UNCHANGED <<inflight, wire, ackQ, conn>>
    BY <1>1 DEF SendAck
  <2> QED
    BY <2>1, SameBackendGrows, ThreadsKeepIds
<1>2. CASE conn = a
  <2> DEFINE mid == packet[d].mid
  <2>1. /\ ackQ \in Seq(Mids) /\ wire \in Seq(Publication) /\ mid \in Mids
        /\ Known' = Known /\ UNCHANGED <<inflight, wire, conn, packet>> /\ Stored' = Stored
        /\ ackQ' = Append(ackQ, mid)
    BY <1>2, KnownPackets DEF IInv, TypeOK, BrokerTypeOK, SendAck, Known, backend, Stored
  <2>2. OwedHeld(d)
    BY <1>2 DEF IdsApart, OwedApart
  <2> HIDE DEF mid
  <2>3. /\ DOMAIN ackQ' = 1 .. Len(ackQ) + 1 /\ DOMAIN ackQ = 1 .. Len(ackQ)
        /\ Len(ackQ) \in Nat
        /\ ackQ'[Len(ackQ) + 1] = mid /\ \A i \in DOMAIN ackQ : ackQ'[i] = ackQ[i]
    BY <2>1
  <2>4. \A i \in DOMAIN ackQ' : i \in DOMAIN ackQ \/ ackQ'[i] = mid
    BY <2>3
  <2>5. WireApart'
    BY <2>1 DEF IdsApart, WireApart
  <2>6. AcksApart'
    <3>1. /\ inflight[mid] # None /\ PayloadOf[inflight[mid]] \in Stored
          /\ \A i \in DOMAIN wire : wire[i].mid # mid
          /\ \A i \in DOMAIN ackQ : ackQ[i] # mid
      BY <2>2 DEF OwedHeld, StoredDelivery, mid
    <3>2. \A i, j \in DOMAIN ackQ' : ackQ'[i] = ackQ'[j] => i = j
      BY <2>3, <3>1 DEF IdsApart, AcksApart
    <3>3. \A i \in DOMAIN ackQ' :
            inflight[ackQ'[i]] # None /\ PayloadOf[inflight[ackQ'[i]]] \in Stored
      BY <2>3, <2>4, <3>1 DEF IdsApart, AcksApart
    <3>4. \A i \in DOMAIN wire, j \in DOMAIN ackQ' : wire[i].mid # ackQ'[j]
      BY <2>3, <2>4, <3>1 DEF IdsApart, AcksApart
    <3> QED
      BY <2>1, <3>2, <3>3, <3>4 DEF AcksApart
  <2>7. ASSUME NEW e \in Known, Owes(a, e)'
        PROVE  OwedHeld(e)'
    <3>1. Owes(a, e) /\ OwedHeld(e) /\ packet[e].mid # mid
      BY <1>2, <2>7 DEF IdsApart, OwedApart, mid
    <3> QED
      BY <2>1, <2>3, <2>4, <3>1 DEF OwedHeld
  <2>8. OwedApart'
    <3> SUFFICES ASSUME NEW b \in Bridges, conn' = b
                 PROVE  /\ \A e \in Known : Owes(b, e)' => OwedHeld(e)'
                        /\ \A e, f \in Known :
                             Owes(b, e)' /\ Owes(b, f)' /\ packet'[e].mid = packet'[f].mid => e = f
      BY <2>1 DEF OwedApart
    <3>1. b = a /\ packet' = packet
      BY <1>2, <2>1
    <3> QED
      BY <1>2, <2>7, <3>1 DEF IdsApart, OwedApart
  <2> QED
    BY <2>5, <2>6, <2>8 DEF IdsApart
<1> QED
  BY <1>1, <1>2

(* A step of the callback that takes up nothing: it goes on with its delivery *)
(* or ends, and may withdraw targets.                                         *)
CbTurns(b) ==
  /\ cb[b].pc # "idle" /\ wk' = wk /\ targets'[b] \subseteq targets[b]
  /\ \A c \in Bridges \ {b} : cb'[c] = cb[c] /\ targets'[c] = targets[c]
  /\ CbOwes(b)' => CbOwes(b) /\ cb'[b].d = cb[b].d
  /\ CbOwes(b)' /\ cb[b].pc \in Completing => cb'[b].pc \in Completing
  /\ cb'[b].pc \in Completing => /\ cb[b].pc \in Completing /\ CbKey(b)' = CbKey(b)
                                 /\ cb'[b].d = cb[b].d /\ cb'[b].st = cb[b].st
  /\ cb[b].pc = "cmark" => cb'[b].pc = "cdelete"
  /\ cb[b].pc = "cdelete" /\ cb[b].st # "acked" => CbKey(b) \notin targets'[b]
  /\ cb'[b].pc \in {"cintent", "cack", "cunack", "cmark"} => cb[b].st # "acked"
  /\ CbHoldsProcessing(b)' => CbHoldsProcessing(b)
  /\ cb'[b].pc = "resume" => cb[b].pc = "resume"

LEMMA CbTurned ==
  ASSUME IInv, UNCHANGED minted, NEW b \in Bridges, OwesOnce(b), CbTurns(b)
  PROVE  OwesOnce(b)' /\ \A d \in Known : Owes(b, d)' => Owes(b, d)
<1>1. Known' = Known /\ WkKey(b)' = WkKey(b)
  BY DEF Known, CbTurns, WkKey
<1>2. cb[b].pc \in {"cintent", "cack", "cunack", "cmark"} => cb[b].st # "acked"
  BY DEF OwesOnce
<1>3. \A k \in targets'[b] : Spent(b, k) => Spent(b, k)'
  BY <1>1 DEF CbTurns, Spent, OwesOnce, Completing
<1>4. \A d \in Known : Owes(b, d)' => Owes(b, d)
  BY <1>3 DEF Owes, CbTurns, WkOwes
<1>5. OwesOnce(b)'
  <2>1. /\ \A k \in targets'[b] : k[2] \in Known'
        /\ \A k, l \in targets'[b] : k[2] = l[2] => k = l
    BY <1>1 DEF OwesOnce, CbTurns
  <2>2. ASSUME NEW k \in targets'[b], k[2] = cb'[b].d
        PROVE  /\ CbOwes(b)' => cb'[b].pc \in Completing
               /\ cb'[b].pc \in Completing => k = CbKey(b)'
    BY <2>2 DEF OwesOnce, CbTurns
  <2>3. \A k \in targets'[b] :
          k[2] = wk'[b].d /\ wk'[b].pc \in {"ack", "send", "mark"} => k = WkKey(b)'
    BY <1>1 DEF OwesOnce, CbTurns
  <2>4. cb'[b].pc \in {"cintent", "cack", "cunack", "cmark"} => cb'[b].st # "acked"
    BY DEF CbTurns, Completing
  <2>5. /\ wk'[b].pc \in {"send", "unsent", "mark"} => cb'[b].pc = "idle"
        /\ wk'[b].pc = "ack" /\ CbOwes(b)' => cb'[b].d # wk'[b].d
    BY DEF OwesOnce, CbTurns
  <2>6. CbHoldsProcessing(b)' => ~WkHoldsProcessing(b)'
    BY DEF OwesOnce, CbTurns, WkHoldsProcessing
  <2> QED
    BY <2>1, <2>2, <2>3, <2>4, <2>5, <2>6 DEF OwesOnce
<1> QED
  BY <1>4, <1>5

(* A step of the worker: it takes a target that the callback has left.        *)
WkTurns(b) ==
  /\ cb' = cb /\ targets'[b] \subseteq targets[b]
  /\ \A c \in Bridges \ {b} : wk'[c] = wk[c] /\ targets'[c] = targets[c]
  /\ wk'[b].pc \in {"ack", "send", "unsent", "mark"} =>
       wk'[b].d = wk[b].d /\ WkKey(b)' = WkKey(b)
  /\ wk'[b].pc = "ack" =>
       wk[b].pc = "fence" /\ WkKey(b) \in targets[b] /\ ~CbHoldsProcessing(b)
  /\ wk'[b].pc = "send" => wk[b].pc = "ack" /\ cb[b].pc = "idle"
  /\ wk'[b].pc \in {"unsent", "mark"} => wk[b].pc = "send"
  /\ wk[b].pc = "mark" => WkKey(b) \notin targets'[b]
  /\ WkHoldsProcessing(b)' => WkHoldsProcessing(b) \/ ~CbHoldsProcessing(b)
  /\ phase' = phase /\ (wk[b].pc = "idle" => phase[b] = "ready")

LEMMA WkTurned ==
  ASSUME IInv, UNCHANGED minted, NEW b \in Bridges, OwesOnce(b), WkTurns(b)
  PROVE  OwesOnce(b)' /\ \A d \in Known : Owes(b, d)' => Owes(b, d)
<1>1. Known' = Known /\ CbKey(b)' = CbKey(b) /\ CbOwes(b)' = CbOwes(b)
  BY DEF Known, WkTurns, CbKey, CbOwes
<1>2. \A k \in targets'[b] : Spent(b, k) => Spent(b, k)'
  BY <1>1 DEF WkTurns, Spent
<1>3. ASSUME wk'[b].pc = "ack"
      PROVE  /\ WkKey(b) \in targets[b] /\ WkKey(b)[2] = wk[b].d /\ ~Spent(b, WkKey(b))
             /\ CbOwes(b) => cb[b].d # wk[b].d
  <2>1. wk[b].pc = "fence" /\ WkKey(b) \in targets[b] /\ ~CbHoldsProcessing(b)
    BY <1>3 DEF WkTurns
  <2>2. WkKey(b)[2] = wk[b].d
    BY DEF WkKey
  <2>3. cb[b].pc \notin Completing
    BY <2>1 DEF CbHoldsProcessing, Completing
  <2> QED
    BY <2>1, <2>2, <2>3 DEF Spent, OwesOnce, Completing
<1>4. \A d \in Known : Owes(b, d)' => Owes(b, d)
  BY <1>1, <1>2, <1>3 DEF Owes, WkTurns, WkOwes
<1>5. OwesOnce(b)'
  <2>1. /\ \A k \in targets'[b] : k[2] \in Known'
        /\ \A k, l \in targets'[b] : k[2] = l[2] => k = l
    BY <1>1 DEF OwesOnce, WkTurns
  <2>2. \A k \in targets'[b] : k[2] = cb'[b].d =>
          /\ CbOwes(b)' => cb'[b].pc \in Completing
          /\ cb'[b].pc \in Completing => k = CbKey(b)'
    BY <1>1 DEF OwesOnce, WkTurns
  <2>3. ASSUME NEW k \in targets'[b], k[2] = wk'[b].d, wk'[b].pc \in {"ack", "send", "mark"}
        PROVE  k = WkKey(b)'
    BY <1>3, <2>3 DEF OwesOnce, WkTurns
  <2>4. cb'[b].pc \in {"cintent", "cack", "cunack", "cmark"} => cb'[b].st # "acked"
    BY DEF OwesOnce, WkTurns
  <2>5. /\ wk'[b].pc \in {"send", "unsent", "mark"} => cb'[b].pc = "idle"
        /\ wk'[b].pc = "ack" /\ CbOwes(b)' => cb'[b].d # wk'[b].d
    BY <1>1, <1>3 DEF OwesOnce, WkTurns
  <2>6. CbHoldsProcessing(b)' => ~WkHoldsProcessing(b)'
    BY DEF OwesOnce, WkTurns, CbHoldsProcessing
  <2> QED
    BY <2>1, <2>2, <2>3, <2>4, <2>5, <2>6 DEF OwesOnce
<1> QED
  BY <1>4, <1>5

(* What another bridge owes depends on its own memory.                        *)
LEMMA OthersOwe ==
  ASSUME UNCHANGED minted, NEW c, cb'[c] = cb[c], wk'[c] = wk[c], targets'[c] = targets[c]
  PROVE  /\ OwesOnce(c)' = OwesOnce(c) /\ CbHoldsProcessing(c)' = CbHoldsProcessing(c)
         /\ \A d : Owes(c, d)' = Owes(c, d)
BY DEF OwesOnce, Owes, Spent, CbKey, WkKey, CbOwes, WkOwes, CbHoldsProcessing,
       WkHoldsProcessing, Known

(* Where a callback goes, the delivery in its hand goes with it.              *)
LEMMA CbWent ==
  ASSUME IInv, NEW b \in Bridges
  PROVE  /\ CbDone(b) => /\ \A c \in Bridges \ {b} : cb'[c] = cb[c]
                         /\ cb'[b].pc = "idle"
         /\ \A pc : CbGoto(b, pc) =>
              /\ \A c \in Bridges \ {b} : cb'[c] = cb[c]
              /\ cb'[b].pc = pc /\ cb'[b].d = cb[b].d /\ cb'[b].st = cb[b].st
              /\ CbKey(b)' = CbKey(b)
<1>1. cb \in [Bridges -> CbRecord] /\ cb[b] \in CbRecord
  BY CbInHand
<1>2. ASSUME CbDone(b)
      PROVE  /\ \A c \in Bridges \ {b} : cb'[c] = cb[c]
             /\ cb'[b].pc = "idle"
  <2>1. cb'[b] = IdleCb
    BY <1>1, <1>2 DEF CbDone
  <2> QED
    BY <1>1, <1>2, <2>1 DEF CbDone, IdleCb
<1>3. ASSUME NEW pc, CbGoto(b, pc)
      PROVE  /\ \A c \in Bridges \ {b} : cb'[c] = cb[c]
             /\ cb'[b].pc = pc /\ cb'[b].d = cb[b].d /\ cb'[b].st = cb[b].st
             /\ CbKey(b)' = CbKey(b)
  BY <1>1, <1>3 DEF CbGoto, CbRecord, CbKey
<1> QED
  BY <1>2, <1>3

(* The callback steps that take up no target.                                 *)
LEMMA CallbackTurns ==
  ASSUME IInv, NEW b \in Bridges, OwesOnce(b), CallbackStep(b),
         ~OnMessage(b), ~DeferUnapproved(b), ~LiveEnqueue(b), ~ResumeRow(b),
         CompleteMark(b) => CbGoto(b, "cdelete")
  PROVE  CbTurns(b)
<1>1. /\ cb \in [Bridges -> CbRecord] /\ cb[b] \in CbRecord /\ targets \in [Bridges -> SUBSET Keys]
  BY CbInHand
<1>2. ASSUME CbDone(b), wk' = wk, targets' = targets,
             cb[b].pc \notin {"idle", "cmark"}, cb[b].pc = "cdelete" => cb[b].st = "acked"
      PROVE  CbTurns(b)
  <2>1. cb'[b].pc = "idle" /\ \A c \in Bridges \ {b} : cb'[c] = cb[c]
    BY <1>2, CbWent
  <2> QED
    BY <1>2, <2>1 DEF CbTurns, CbOwes, Completing, CbHoldsProcessing
<1>0. ASSUME NEW pc, CbGoto(b, pc), wk' = wk, targets' = targets,
             \/ /\ cb[b].pc \in {"resume", "forward", "quarantine", "terminal", "ack", "rintent",
                                 "rack", "runack", "enqueue"}
                /\ pc \in {"forward", "quarantine", "terminal", "ack", "rintent", "rack",
                           "runack", "enqueue", "acked", "racked"}
             \/ cb[b].pc = "racked" /\ pc = "rdelete"
             \/ /\ cb[b].pc \in Completing \ {"cmark", "cdelete"} /\ pc \in Completing
                /\ pc \in {"cintent", "cack", "cunack", "cmark"} => cb[b].st # "acked"
             \/ cb[b].pc = "cmark" /\ pc = "cdelete"
      PROVE  CbTurns(b)
  <2>1. /\ \A c \in Bridges \ {b} : cb'[c] = cb[c]
        /\ cb'[b].pc = pc /\ cb'[b].d = cb[b].d /\ cb'[b].st = cb[b].st
        /\ CbKey(b)' = CbKey(b)
    BY <1>0, CbWent
  <2> QED
    BY <1>0, <2>1 DEF CbTurns, CbOwes, Completing, CbHoldsProcessing
<1>3. CASE ResumeTerminal(b)
  BY <1>2, <1>0, <1>3 DEF ResumeTerminal, CbAt, CbGoto
<1>4. CASE ResumeIntent(b)
  <2>1. wk' = wk /\ targets' = targets /\ cb[b].pc \in {"rintent", "cintent"}
    BY <1>4 DEF ResumeIntent, CbFault
  <2>2. CASE CbDone(b)
    BY <1>2, <1>0, <2>1, <2>2
  <2>3. CASE CbAt(b, "rintent") /\ CbGoto(b, "rack")
    BY <1>2, <1>0, <2>1, <2>3, CbWent DEF CbAt
  <2>4. CASE CbAt(b, "cintent") /\ CbGoto(b, "cack")
    BY <1>2, <1>0, <2>1, <2>4, CbWent DEF CbAt, Completing, OwesOnce
  <2> QED
    BY <1>4, <2>1, <2>2, <2>3, <2>4 DEF ResumeIntent, CbFault, CbAt
<1>5. CASE ResumeAck(b)
  BY <1>2, <1>0, <1>5 DEF ResumeAck, CbAt
<1>6. CASE ResumeUnack(b) \/ LiveForward(b) \/ LiveQuarantine(b)
  <2>1. /\ wk' = wk /\ targets' = targets
        /\ cb[b].pc \in {"runack", "forward", "quarantine"}
    BY <1>6 DEF ResumeUnack, LiveForward, LiveQuarantine, CbAt
  <2>2. CASE CbGoto(b, "quarantine")
    BY <1>2, <1>0, <2>1, <2>2
  <2>3. ASSUME NEW pc \in {"enqueue", "terminal"}, NEW op, NEW out,
               cb' = [cb EXCEPT ![b].pc = pc, ![b].op = op, ![b].out = out]
        PROVE  CbTurns(b)
    <3>1. /\ \A c \in Bridges \ {b} : cb'[c] = cb[c]
          /\ cb'[b].pc = pc /\ cb'[b].d = cb[b].d
      BY <1>1, <2>3 DEF CbRecord
    <3> QED
      BY <2>1, <2>3, <3>1 DEF CbTurns, CbOwes, Completing, CbHoldsProcessing
  <2>4. CASE ResumeUnack(b)
    <3>1. cb' = [cb EXCEPT ![b].pc = "enqueue", ![b].op = OutcomeOp(cb[b].out)]
      BY <2>4 DEF ResumeUnack
    <3>2. /\ \A c \in Bridges \ {b} : cb'[c] = cb[c]
          /\ cb'[b].pc = "enqueue" /\ cb'[b].d = cb[b].d
      BY <1>1, <3>1 DEF CbRecord
    <3> QED
      BY <2>1, <2>4, <3>2 DEF CbTurns, CbOwes, Completing, CbHoldsProcessing, ResumeUnack, CbAt
  <2>5. CASE LiveForward(b)
    <3>1. ASSUME ~CbGoto(b, "quarantine")
          PROVE  \E pc \in {"enqueue", "terminal"} : \E op, out :
                   cb' = [cb EXCEPT ![b].pc = pc, ![b].op = op, ![b].out = out]
      <4>1. PICK result \in Outcomes \cup {"retry"} :
              cb' = IF result = "retry"
                    THEN [cb EXCEPT ![b].pc = "enqueue", ![b].op = "ingest", ![b].out = ""]
                    ELSE [cb EXCEPT ![b].pc = "terminal", ![b].op = OutcomeOp(result),
                                    ![b].out = result]
        BY <2>5, <3>1 DEF LiveForward
      <4> QED
        BY <4>1
    <3> QED
      BY <2>2, <2>3, <3>1
  <2>6. CASE LiveQuarantine(b)
    <3>1. PICK result \in {"quarantined", "retry"} :
            cb' = [cb EXCEPT ![b].pc = IF result = "retry" THEN "enqueue" ELSE "terminal",
                             ![b].op = "quarantine",
                             ![b].out = IF result = "retry" THEN "" ELSE result]
      BY <2>6 DEF LiveQuarantine
    <3>2. CASE result = "retry"
      <4>1. cb' = [cb EXCEPT ![b].pc = "enqueue", ![b].op = "quarantine", ![b].out = ""]
        BY <3>1, <3>2
      <4> QED
        BY <2>3, <4>1
    <3>3. CASE result # "retry"
      <4>1. cb' = [cb EXCEPT ![b].pc = "terminal", ![b].op = "quarantine", ![b].out = result]
        BY <3>1, <3>3
      <4> QED
        BY <2>3, <4>1
    <3> QED
      BY <3>2, <3>3
  <2> QED
    BY <1>6, <2>4, <2>5, <2>6
<1>7. CASE ResumeAcked(b)
  BY <1>2, <1>0, <1>7 DEF ResumeAcked, CbAt
<1>8. CASE ResumeDelete(b)
  BY <1>2, <1>0, <1>8 DEF ResumeDelete, CbAt
<1>9. CASE CompleteTerminal(b)
  <2>1. wk' = wk /\ targets' = targets /\ cb[b].pc = "cterm"
    BY <1>9 DEF CompleteTerminal, CbAt
  <2>2. CASE CbDone(b)
    BY <1>2, <1>0, <2>1, <2>2
  <2>3. CASE CbGoto(b, "cdelete")
    BY <1>2, <1>0, <2>1, <2>3, CbWent DEF Completing
  <2>4. CASE cb[b].st # "acked" /\ CbGoto(b, "cintent")
    BY <1>2, <1>0, <2>1, <2>4, CbWent DEF Completing
  <2> QED
    BY <1>9, <2>2, <2>3, <2>4 DEF CompleteTerminal
<1>10. CASE CompleteAck(b)
  <2>1. wk' = wk /\ targets' = targets /\ cb[b].pc = "cack" /\ cb[b].st # "acked"
    BY <1>10 DEF CompleteAck, CbAt, OwesOnce
  <2>2. CbGoto(b, "cmark") \/ CbGoto(b, "cunack")
    BY <1>10 DEF CompleteAck
  <2> QED
    BY <1>2, <1>0, <2>1, <2>2, CbWent DEF Completing
<1>11. CASE CompleteUnack(b)
  BY <1>2, <1>0, <1>11 DEF CompleteUnack, CbAt, CbFault
<1>12. CASE CompleteMark(b)
  <2>1. wk' = wk /\ targets' = targets /\ cb[b].pc = "cmark" /\ CbGoto(b, "cdelete")
    BY <1>12 DEF CompleteMark, CbAt
  <2> QED
    BY <1>2, <1>0, <2>1, CbWent DEF Completing
<1>13. CASE CompleteDelete(b)
  <2>1. /\ wk' = wk /\ CbAt(b, "cdelete") /\ CbGoto(b, "cacked")
        /\ targets' = IF cb[b].st = "acked" THEN targets
                      ELSE [targets EXCEPT ![b] = @ \ {CbKey(b)}]
    BY <1>13 DEF CompleteDelete
  <2>2. /\ \A c \in Bridges \ {b} : cb'[c] = cb[c] /\ targets'[c] = targets[c]
        /\ cb'[b].pc = "cacked" /\ targets'[b] \subseteq targets[b]
        /\ cb[b].st # "acked" => CbKey(b) \notin targets'[b]
    BY <1>1, <2>1, CbWent
  <2> QED
    BY <2>1, <2>2 DEF CbTurns, CbOwes, Completing, CbHoldsProcessing, CbAt
<1>14. CASE LiveTerminal(b)
  BY <1>2, <1>0, <1>14 DEF LiveTerminal, CbAt
<1>15. CASE LiveAck(b)
  BY <1>2, <1>0, <1>15 DEF LiveAck, CbAt
<1>16. CASE LiveAcked(b)
  BY <1>2, <1>0, <1>16 DEF LiveAcked
<1> QED
  BY <1>3, <1>4, <1>5, <1>6, <1>7, <1>8, <1>9, <1>10, <1>11, <1>12, <1>13, <1>14, <1>15, <1>16
     DEF CallbackStep

(* Where a worker goes, the row in its hand goes with it.                     *)
WkGoes(b, pc) ==
  /\ \A c \in Bridges \ {b} : wk'[c] = wk[c]
  /\ wk'[b].pc = pc /\ wk'[b].d = wk[b].d /\ WkKey(b)' = WkKey(b)
LEMMA WkWent ==
  ASSUME IInv, NEW b \in Bridges, NEW pc, NEW x,
         \/ WkGoto(b, pc)
         \/ wk' = [wk EXCEPT ![b].pc = pc, ![b].out = x]
         \/ wk' = [wk EXCEPT ![b].pc = pc, ![b].acked = x]
         \/ wk' = [wk EXCEPT ![b].pc = pc, ![b].sent = x]
  PROVE  WkGoes(b, pc)
<1>1. wk \in [Bridges -> WkRecord] /\ wk[b] \in WkRecord
  BY WkInHand
<1>2. CASE WkGoto(b, pc)
  BY <1>1, <1>2 DEF WkGoto, WkRecord, WkKey, WkGoes
<1>3. CASE wk' = [wk EXCEPT ![b].pc = pc, ![b].out = x]
  <2>1. wk'[b].pc = pc /\ wk'[b].d = wk[b].d /\ wk'[b].op = wk[b].op
    BY <1>1, <1>3 DEF WkRecord
  <2> QED
    BY <1>1, <1>3, <2>1 DEF WkKey, WkGoes
<1>4. CASE wk' = [wk EXCEPT ![b].pc = pc, ![b].acked = x]
  <2>1. wk'[b].pc = pc /\ wk'[b].d = wk[b].d /\ wk'[b].op = wk[b].op
    BY <1>1, <1>4 DEF WkRecord
  <2> QED
    BY <1>1, <1>4, <2>1 DEF WkKey, WkGoes
<1>5. CASE wk' = [wk EXCEPT ![b].pc = pc, ![b].sent = x]
  <2>1. wk'[b].pc = pc /\ wk'[b].d = wk[b].d /\ wk'[b].op = wk[b].op
    BY <1>1, <1>5 DEF WkRecord
  <2> QED
    BY <1>1, <1>5, <2>1 DEF WkKey, WkGoes
<1> QED
  BY <1>2, <1>3, <1>4, <1>5

(* The worker's steps, which take up no target but one it finds.              *)
LEMMA WorkerTurns ==
  ASSUME IInv, NEW b \in Bridges, OwesOnce(b), WorkerStep(b)
  PROVE  WkTurns(b)
<1>1. /\ wk \in [Bridges -> WkRecord] /\ wk[b] \in WkRecord
      /\ targets \in [Bridges -> SUBSET Keys] /\ cb' = cb /\ phase' = phase
  BY ZenonT(60), WkInHand
  DEF WorkerStep, PollDue, ClaimRow, ClaimNothing, LookUp, RetryPost, RetryTerminal,
     FenceRow, AckIntent, RetryAck, RetryUnack, MarkAcknowledged, SettleAcked, DeleteRow,
     RescheduleClaimed, ReleaseClaim
<1>2. ASSUME \A c \in Bridges \ {b} : wk'[c] = wk[c], targets' = targets,
             wk[b].pc \notin {"idle", "mark"},
             wk'[b].pc \notin {"ack", "send", "unsent", "mark"},
             WkHoldsProcessing(b)' => WkHoldsProcessing(b) \/ ~CbHoldsProcessing(b)
      PROVE  WkTurns(b)
  BY <1>1, <1>2 DEF WkTurns
<1>3. ASSUME NEW pc, WkGoes(b, pc), targets' = targets, wk[b].pc \notin {"idle", "mark"},
             pc \notin {"ack", "send", "unsent", "mark"},
             pc \in {"settle", "delete", "retire", "stale", "unacked"} =>
               WkHoldsProcessing(b) \/ ~CbHoldsProcessing(b)
      PROVE  WkTurns(b)
  BY <1>2, <1>3 DEF WkHoldsProcessing, WkGoes
<1>4. CASE PollDue(b)
  <2>1. WkGoes(b, "claim")
    BY <1>4, WkWent DEF PollDue
  <2> QED
    BY <1>1, <1>4, <2>1 DEF WkGoes, WkTurns, PollDue, WkAt, WkHoldsProcessing
<1>5. ASSUME NEW k \in Keys, ClaimRow(b, k)
      PROVE  WkTurns(b)
  <2>1. (\A c \in Bridges \ {b} : wk'[c] = wk[c]) /\ wk'[b].pc = "look"
    BY <1>1, <1>5 DEF ClaimRow, IdleWk
  <2> QED
    BY <1>2, <1>5, <2>1 DEF ClaimRow, WkAt, WkHoldsProcessing
<1>6. CASE ClaimNothing(b)
  BY <1>3, <1>6, WkWent DEF ClaimNothing, WkAt
<1>7. CASE LookUp(b)
  <2>1. targets' = targets /\ wk[b].pc = "look"
    BY <1>7 DEF LookUp, WkAt
  <2>2. \/ \E out : wk' = [wk EXCEPT ![b].pc = "terminal", ![b].out = out]
        \/ WkGoto(b, "terminal") \/ WkGoto(b, "post") \/ WkGoto(b, "release")
    BY <1>7 DEF LookUp, WkGoto
  <2>3. WkGoes(b, "terminal") \/ WkGoes(b, "post") \/ WkGoes(b, "release")
    BY <2>2, WkWent
  <2> QED
    BY <1>3, <2>1, <2>3
<1>8. CASE RetryPost(b)
  <2>1. targets' = targets /\ wk[b].pc = "post"
    BY <1>8 DEF RetryPost, WkAt
  <2>2. \/ \E out : wk' = [wk EXCEPT ![b].pc = "terminal", ![b].out = out]
        \/ WkGoto(b, "resched")
    BY <1>8 DEF RetryPost, WkGoto
  <2>3. WkGoes(b, "terminal") \/ WkGoes(b, "resched")
    BY <2>2, WkWent
  <2> QED
    BY <1>3, <2>1, <2>3
<1>9. CASE RetryTerminal(b)
  <2>1. targets' = targets /\ wk[b].pc = "terminal"
    BY <1>9 DEF RetryTerminal, WkAt
  <2>2. \/ \E acked : wk' = [wk EXCEPT ![b].pc = "fence", ![b].acked = acked]
        \/ WkGoto(b, "release")
    BY <1>9 DEF RetryTerminal
  <2>3. WkGoes(b, "fence") \/ WkGoes(b, "release")
    BY <2>2, WkWent
  <2> QED
    BY <1>3, <2>1, <2>3
<1>10. CASE FenceRow(b)
  <2>1. targets' = targets /\ wk[b].pc = "fence" /\ ~CbHoldsProcessing(b)
    BY <1>10 DEF FenceRow, WkAt
  <2>2. CASE WkGoto(b, "release") \/ WkGoto(b, "settle") \/ WkGoto(b, "retire")
    BY <1>3, <2>1, <2>2, WkWent
  <2>3. CASE WkKey(b) \in targets[b] /\ WkGoto(b, "ack")
    <3>1. WkGoes(b, "ack")
      BY <2>3, WkWent
    <3> QED
      BY <1>1, <2>1, <2>3, <3>1 DEF WkGoes, WkTurns
  <2> QED
    BY <1>10, <2>2, <2>3 DEF FenceRow
<1>11. CASE AckIntent(b)
  <2>1. targets' = targets /\ wk[b].pc = "ack"
    BY <1>11 DEF AckIntent, WkAt
  <2>2. CASE WkGoto(b, "unacked") \/ WkGoto(b, "stale") \/ WkGoto(b, "release")
    BY <1>3, <2>1, <2>2, WkWent DEF WkHoldsProcessing
  <2>3. CASE cb[b].pc = "idle" /\ WkGoto(b, "send")
    <3>1. WkGoes(b, "send")
      BY <2>3, WkWent
    <3> QED
      BY <1>1, <2>1, <2>3, <3>1 DEF WkGoes, WkTurns, WkHoldsProcessing
  <2> QED
    BY <1>11, <2>2, <2>3 DEF AckIntent
<1>12. CASE RetryAck(b)
  <2>1. targets' = targets /\ wk[b].pc = "send"
    BY <1>12 DEF RetryAck, WkAt
  <2>2. WkGoes(b, "mark") \/ WkGoes(b, "unsent")
    BY <1>12, WkWent DEF RetryAck
  <2> QED
    BY <1>1, <2>1, <2>2 DEF WkGoes, WkTurns, WkHoldsProcessing
<1>13. CASE RetryUnack(b)
  BY <1>3, <1>13, WkWent DEF RetryUnack, WkAt, WkHoldsProcessing
<1>14. CASE MarkAcknowledged(b)
  <2>1. wk[b].pc = "mark" /\ WkGoes(b, "settle")
    BY <1>14, WkWent DEF MarkAcknowledged, WkAt
  <2>2. /\ \A c \in Bridges \ {b} : targets'[c] = targets[c]
        /\ targets'[b] = targets[b] \ {WkKey(b)}
    BY <1>1, <1>14 DEF MarkAcknowledged
  <2> QED
    BY <1>1, <2>1, <2>2 DEF WkGoes, WkTurns, WkHoldsProcessing
<1>15. CASE SettleAcked(b)
  BY <1>3, <1>15, WkWent DEF SettleAcked, WkAt, WkHoldsProcessing
<1>16. CASE DeleteRow(b)
  <2>1. wk[b].pc \in {"delete", "retire", "stale"} /\ WkGoes(b, "release")
    BY <1>16, WkWent DEF DeleteRow
  <2>2. \/ targets' = targets
        \/ targets' = [targets EXCEPT ![b] = @ \ {WkKey(b)}]
    BY <1>16 DEF DeleteRow
  <2>3. /\ \A c \in Bridges \ {b} : targets'[c] = targets[c]
        /\ targets'[b] \subseteq targets[b]
    BY <1>1, <2>2
  <2> QED
    BY <1>1, <2>1, <2>3 DEF WkGoes, WkTurns, WkHoldsProcessing
<1>17. CASE RescheduleClaimed(b)
  BY <1>3, <1>17, WkWent DEF RescheduleClaimed
<1>18. CASE ReleaseClaim(b)
  <2>1. (\A c \in Bridges \ {b} : wk'[c] = wk[c]) /\ wk'[b].pc = "idle"
    BY <1>1, <1>18 DEF ReleaseClaim, IdleWk
  <2> QED
    BY <1>2, <1>18, <2>1 DEF ReleaseClaim, WkAt, WkHoldsProcessing
<1> QED
  BY <1>4, <1>5, <1>6, <1>7, <1>8, <1>9, <1>10, <1>11, <1>12, <1>13, <1>14, <1>15, <1>16, <1>17,
     <1>18 DEF WorkerStep

(* A step of the callback that adds a target for the delivery in its hand,    *)
(* which has none yet, and leaves it to the worker or completes it itself.    *)
CbTakes(b, key) ==
  /\ cb[b].pc \in {"defer", "enqueue", "resume"} /\ wk' = wk
  /\ key[2] = cb[b].d /\ targets'[b] \subseteq targets[b] \cup {key}
  /\ \A c \in Bridges \ {b} : cb'[c] = cb[c] /\ targets'[c] = targets[c]
  /\ \/ cb'[b].pc = "idle"
     \/ /\ cb'[b].pc = "cterm" /\ cb'[b].d = cb[b].d /\ CbKey(b)' = key
        /\ cb[b].pc = "resume" /\ ~WkHoldsProcessing(b)

LEMMA CbTook ==
  ASSUME IInv, UNCHANGED minted, NEW b \in Bridges, OwesOnce(b), NEW key, CbTakes(b, key)
  PROVE  OwesOnce(b)' /\ \A d \in Known : Owes(b, d)' => Owes(b, d)
<1>1. Known' = Known /\ WkKey(b)' = WkKey(b) /\ wk'[b] = wk[b] /\ cb[b].d \in Known
  BY CbInHand DEF Known, CbTakes, WkKey
<1>2. CbOwes(b) /\ cb[b].pc \notin Completing /\ ~CbHoldsProcessing(b)
  BY DEF CbTakes, CbOwes, Completing, CbHoldsProcessing
<1>3. \A k \in targets[b] : k[2] # cb[b].d /\ ~Spent(b, k)
  BY <1>2 DEF OwesOnce, Spent, Completing, CbOwes
<1>4. \A k \in targets'[b] : k \in targets[b] \/ (k = key /\ k[2] = cb[b].d)
  BY DEF CbTakes
<1>5. \A d \in Known : Owes(b, d)' => Owes(b, d)
  <2>1. CbOwes(b)' => cb'[b].d = cb[b].d
    BY DEF CbTakes, CbOwes
  <2> QED
    BY <1>1, <1>2, <1>3, <1>4, <2>1 DEF Owes, WkOwes
<1>6. wk[b].pc \notin {"send", "unsent", "mark"} /\ (wk[b].pc = "ack" => wk[b].d # cb[b].d)
  BY <1>2 DEF OwesOnce, CbOwes
<1>7. OwesOnce(b)'
  <2>1. /\ \A k \in targets'[b] : k[2] \in Known'
        /\ \A k, l \in targets'[b] : k[2] = l[2] => k = l
    BY <1>1, <1>3, <1>4 DEF OwesOnce
  <2>2. \A k \in targets'[b] : k[2] = cb'[b].d =>
          /\ CbOwes(b)' => cb'[b].pc \in Completing
          /\ cb'[b].pc \in Completing => k = CbKey(b)'
    BY <1>3, <1>4 DEF CbTakes, CbOwes, Completing
  <2>3. \A k \in targets'[b] :
          k[2] = wk'[b].d /\ wk'[b].pc \in {"ack", "send", "mark"} => k = WkKey(b)'
    BY <1>1, <1>4, <1>6 DEF OwesOnce
  <2>4. cb'[b].pc \in {"cintent", "cack", "cunack", "cmark"} => cb'[b].st # "acked"
    BY DEF CbTakes
  <2>5. /\ wk'[b].pc \in {"send", "unsent", "mark"} => cb'[b].pc = "idle"
        /\ wk'[b].pc = "ack" /\ CbOwes(b)' => cb'[b].d # wk'[b].d
    BY <1>1, <1>6 DEF CbTakes, CbOwes
  <2>6. CbHoldsProcessing(b)' => ~WkHoldsProcessing(b)'
    BY <1>1 DEF CbTakes, CbHoldsProcessing, WkHoldsProcessing
  <2> QED
    BY <2>1, <2>2, <2>3, <2>4, <2>5, <2>6 DEF OwesOnce
<1> QED
  BY <1>5, <1>7

(* The callback steps that may take up a target.                              *)
LEMMA CallbackTakes ==
  ASSUME IInv, NEW b \in Bridges, OwesOnce(b),
         DeferUnapproved(b) \/ LiveEnqueue(b) \/ ResumeRow(b)
  PROVE  CbTurns(b) \/ \E key : CbTakes(b, key)
<1>1. /\ cb \in [Bridges -> CbRecord] /\ cb[b] \in CbRecord
      /\ targets \in [Bridges -> SUBSET Keys] /\ wk' = wk
  BY CbInHand DEF DeferUnapproved, LiveEnqueue, ResumeRow
<1>2. ASSUME NEW op, NEW completed, NEW awaiting, Enqueue(b, op, completed, awaiting),
             CbDone(b), cb[b].pc \in {"defer", "enqueue"}
      PROVE  \E key : CbTakes(b, key)
  <2>1. PICK key : key = <<op, cb[b].d>>
    OBVIOUS
  <2>2. /\ \A c \in Bridges \ {b} : cb'[c] = cb[c]
        /\ cb'[b].pc = "idle"
    BY <1>2, CbWent
  <2>3. \/ targets' = [targets EXCEPT ![b] = @ \cup {key}]
        \/ targets' = [targets EXCEPT ![b] = @ \ {key}]
    BY <1>2, <2>1 DEF Enqueue, WithTarget
  <2>4. /\ targets'[b] \subseteq targets[b] \cup {key}
        /\ \A c \in Bridges \ {b} : targets'[c] = targets[c]
    BY <1>1, <2>3
  <2> QED
    BY <1>1, <1>2, <2>1, <2>2, <2>4 DEF CbTakes
<1>3. CASE DeferUnapproved(b) \/ LiveEnqueue(b)
  <2>1. CbDone(b) /\ cb[b].pc \in {"defer", "enqueue"}
    BY <1>3 DEF DeferUnapproved, LiveEnqueue, CbAt
  <2>2. \E op, completed, awaiting : Enqueue(b, op, completed, awaiting)
    BY <1>3 DEF DeferUnapproved, LiveEnqueue
  <2> QED
    BY <1>2, <2>1, <2>2
<1>4. CASE ResumeRow(b)
  <2> DEFINE d == cb[b].d
             found == {op \in Ops : rows[<<op, d>>] # None}
             done  == {op \in found : rows[<<op, d>>].completed}
  <2>1. cb[b].pc = "resume" /\ ~WkHoldsProcessing(b)
    BY ZenonT(60), <1>4 DEF ResumeRow, CbAt
  <2>2. CASE (CbGoto(b, "forward") \/ CbDone(b)) /\ targets' = targets
    <3>1. /\ \A c \in Bridges \ {b} : cb'[c] = cb[c]
          /\ cb'[b].pc \in {"forward", "idle"}
          /\ cb'[b].pc = "forward" => cb'[b].d = cb[b].d
      BY <2>2, CbWent
    <3> QED
      BY <1>1, <2>1, <2>2, <3>1 DEF CbTurns, CbOwes, Completing, CbHoldsProcessing
  <2>3. ASSUME NEW op, NEW key, key = <<op, d>>, targets' = WithTarget(b, key),
               \/ \E out, st : cb' = [cb EXCEPT ![b].pc = "cterm", ![b].op = op,
                                                ![b].out = out, ![b].st = st]
               \/ CbDone(b)
        PROVE  CbTakes(b, key)
    <3>1. /\ targets'[b] \subseteq targets[b] \cup {key}
          /\ \A c \in Bridges \ {b} : targets'[c] = targets[c]
      BY <1>1, <2>3 DEF WithTarget
    <3>2. CASE CbDone(b)
      <4>1. cb'[b].pc = "idle" /\ \A c \in Bridges \ {b} : cb'[c] = cb[c]
        BY <3>2, CbWent
      <4> QED
        BY <1>1, <2>1, <2>3, <3>1, <4>1 DEF CbTakes
    <3>3. ASSUME NEW out, NEW st,
                 cb' = [cb EXCEPT ![b].pc = "cterm", ![b].op = op, ![b].out = out, ![b].st = st]
          PROVE  CbTakes(b, key)
      <4>1. PICK r : r = [cb[b] EXCEPT !.pc = "cterm", !.op = op, !.out = out, !.st = st]
        OBVIOUS
      <4>2. r.pc = "cterm" /\ r.op = op /\ r.d = cb[b].d
        BY <1>1, <4>1 DEF CbRecord
      <4>3. cb' = [cb EXCEPT ![b] = r]
        BY <1>1, <3>3, <4>1
      <4>4. cb'[b] = r /\ \A c \in Bridges \ {b} : cb'[c] = cb[c]
        BY <1>1, <4>3
      <4> QED
        BY <1>1, <2>1, <2>3, <3>1, <4>2, <4>4 DEF CbTakes, CbKey
    <3> QED
      BY <2>3, <3>2, <3>3
  <2>4. ASSUME NEW op \in Ops, targets' = WithTarget(b, <<op, d>>),
               cb' = IF op \in done /\ <<op, d>> \notin Inflight(b)
                     THEN [cb EXCEPT ![b].pc = "cterm", ![b].op = op,
                                     ![b].out = rows[<<op, d>>].outcome,
                                     ![b].st = IF rows[<<op, d>>].acknowledged
                                               THEN "acked" ELSE "terminal"]
                     ELSE [cb EXCEPT ![b] = IdleCb]
        PROVE  \E key : CbTakes(b, key)
    <3>1. \/ \E out, st : cb' = [cb EXCEPT ![b].pc = "cterm", ![b].op = op,
                                           ![b].out = out, ![b].st = st]
          \/ CbDone(b)
      BY <2>4 DEF CbDone
    <3> QED
      BY <2>3, <2>4, <3>1
  <2>5. CASE CbGoto(b, "forward") /\ UNCHANGED <<db, targets>>
    BY <2>2, <2>5
  <2>6. CASE CbFault(b)
    BY SMTT(60), <2>2, <2>6 DEF CbFault
  <2>7. ASSUME ~(CbGoto(b, "forward") /\ UNCHANGED <<db, targets>>), ~CbFault(b)
        PROVE  \E op \in Ops :
                 /\ targets' = WithTarget(b, <<op, d>>)
                 /\ cb' = IF op \in done /\ <<op, d>> \notin Inflight(b)
                          THEN [cb EXCEPT ![b].pc = "cterm", ![b].op = op,
                                          ![b].out = rows[<<op, d>>].outcome,
                                          ![b].st = IF rows[<<op, d>>].acknowledged
                                                    THEN "acked" ELSE "terminal"]
                          ELSE [cb EXCEPT ![b] = IdleCb]
    BY ZenonT(60), <1>4, <2>7 DEF ResumeRow
  <2> QED
    BY <2>4, <2>5, <2>6, <2>7
<1> QED
  BY SMTT(60), <1>3, <1>4

(* Faults are only ever counted up, so a run that is orderly was orderly.     *)
StepFaults == NoFault \/ \E k \in FaultKinds : Fault(k)
LEMMA FaultsStay ==
  ASSUME IInv, StepFaults
  PROVE  \A j \in FaultKinds : faults'[j] = 0 => faults[j] = 0
<1>1. faults \in [FaultKinds -> Nat]
  BY DEF IInv, TypeOK
<1> QED
  BY <1>1 DEF StepFaults, NoFault, Fault

LEMMA NextFaults ==
  ASSUME [Next]_vars PROVE StepFaults
<1>1. CASE UNCHANGED vars
  BY <1>1 DEF vars, StepFaults, NoFault
<1>2. CASE Environment
  BY <1>2 DEF Environment, Publish, ReceivePuback, DropConnection, LoseSession, Crash,
     SubackRefused, StepFaults, NoFault, FaultKinds
<1>3. ASSUME NEW b \in Bridges, SessionStep(b) \/ IgnoreMessage(b) PROVE StepFaults
  BY <1>3 DEF SessionStep, OnConnect, RetryActivation, ResumeSession, OnDisconnect,
     IgnoreMessage, StepFaults, NoFault, FaultKinds
<1>4. ASSUME NEW b \in Bridges, CallbackStep(b) PROVE StepFaults
  <2>1. CASE \/ OnMessage(b) \/ ResumeTerminal(b) \/ ResumeIntent(b) \/ ResumeAck(b)
             \/ ResumeUnack(b) \/ ResumeAcked(b) \/ ResumeDelete(b)
    BY <2>1 DEF OnMessage, ResumeTerminal, ResumeIntent, ResumeAck, ResumeUnack, ResumeAcked,
       ResumeDelete, CbFault, StepFaults, NoFault, FaultKinds
  <2>2. CASE \/ CompleteTerminal(b) \/ CompleteAck(b) \/ CompleteUnack(b) \/ CompleteMark(b)
             \/ CompleteDelete(b) \/ LiveTerminal(b) \/ LiveAck(b) \/ LiveAcked(b)
    BY <2>2 DEF CompleteTerminal, CompleteAck, CompleteUnack, CompleteMark, CompleteDelete,
       LiveTerminal, LiveAck, LiveAcked, CbFault, StepFaults, NoFault, FaultKinds
  <2>3. ASSUME NEW p, NEW r, Forward(p, r) \/ PostQuarantine(p, r) PROVE StepFaults
    BY <2>3 DEF Forward, PostQuarantine, StepFaults, FaultKinds
  <2>4. CASE LiveForward(b) \/ LiveQuarantine(b)
    BY <2>3, <2>4 DEF LiveForward, LiveQuarantine, StepFaults
  <2>5. CASE DeferUnapproved(b) \/ LiveEnqueue(b)
    BY <2>5 DEF DeferUnapproved, LiveEnqueue, Enqueue, StepFaults, NoFault, FaultKinds
  <2>6. CASE ResumeRow(b)
    BY <2>6 DEF ResumeRow, CbFault, StepFaults, NoFault, FaultKinds
  <2> QED
    BY <1>4, <2>1, <2>2, <2>4, <2>5, <2>6 DEF CallbackStep
<1>5. ASSUME NEW b \in Bridges, WorkerStep(b) PROVE StepFaults
  <2>1. CASE \/ PollDue(b) \/ ClaimNothing(b) \/ LookUp(b) \/ RetryTerminal(b) \/ FenceRow(b)
             \/ AckIntent(b) \/ RetryAck(b)
    BY <2>1 DEF PollDue, ClaimNothing, LookUp, RetryTerminal, FenceRow, AckIntent, RetryAck,
       StepFaults, NoFault, FaultKinds
  <2>2. CASE \/ RetryUnack(b) \/ MarkAcknowledged(b) \/ SettleAcked(b) \/ DeleteRow(b)
             \/ RescheduleClaimed(b) \/ ReleaseClaim(b)
    BY <2>2 DEF RetryUnack, MarkAcknowledged, SettleAcked, DeleteRow, RescheduleClaimed,
       ReleaseClaim, StepFaults, NoFault, FaultKinds
  <2>3. ASSUME NEW k \in Keys, ClaimRow(b, k) PROVE StepFaults
    BY <2>3 DEF ClaimRow, StepFaults, NoFault, FaultKinds
  <2>4. ASSUME NEW p, NEW r, Forward(p, r) \/ PostQuarantine(p, r) PROVE StepFaults
    BY <2>4 DEF Forward, PostQuarantine, StepFaults, FaultKinds
  <2>5. CASE RetryPost(b)
    BY <2>4, <2>5 DEF RetryPost, StepFaults
  <2> QED
    BY <1>5, <2>1, <2>2, <2>3, <2>5 DEF WorkerStep
<1> QED
  BY <1>1, <1>2, <1>3, <1>4, <1>5 DEF Next

(* What the backend has it keeps.                                             *)
LEMMA NextGrows ==
  ASSUME IInv, [Next]_vars PROVE StoreGrows
<1>1. CASE UNCHANGED backend
  BY <1>1, SameBackendGrows
<1>2. ASSUME NEW b \in Bridges, LiveForward(b) \/ LiveQuarantine(b) \/ RetryPost(b)
      PROVE  StoreGrows
  BY <1>1, <1>2, ResultsGrow DEF LiveForward, LiveQuarantine, RetryPost, backend
<1>3. CASE UNCHANGED vars \/ Environment
  BY <1>1, <1>3 DEF vars, Environment, Publish, ReceivePuback, DropConnection, LoseSession, Crash,
     SubackRefused
<1>4. ASSUME NEW b \in Bridges, SessionStep(b) \/ IgnoreMessage(b) PROVE StoreGrows
  BY SMTT(60), <1>1, <1>4 DEF SessionStep, OnConnect, RetryActivation, ResumeSession, OnDisconnect,
     IgnoreMessage
<1>5. ASSUME NEW b \in Bridges, CallbackStep(b) PROVE StoreGrows
  BY ZenonT(60), <1>1, <1>2, <1>5
  DEF CallbackStep, OnMessage, DeferUnapproved, ResumeTerminal, ResumeRow,
     ResumeIntent, ResumeAck, ResumeUnack, ResumeAcked, ResumeDelete, CompleteTerminal,
     CompleteAck, CompleteUnack, CompleteMark, CompleteDelete, LiveTerminal, LiveAck, LiveAcked,
     LiveEnqueue
<1>6. ASSUME NEW b \in Bridges, WorkerStep(b) PROVE StoreGrows
  BY ZenonT(60), <1>1, <1>2, <1>6
  DEF WorkerStep, PollDue, ClaimRow, ClaimNothing, LookUp, RetryTerminal,
     FenceRow, AckIntent, RetryAck, RetryUnack, MarkAcknowledged, SettleAcked, DeleteRow,
     RescheduleClaimed, ReleaseClaim
<1> QED
  BY <1>3, <1>4, <1>5, <1>6 DEF Next

(* The steps of the threads but a new message: what they leave alone, and the *)
(* PUBACK that some of them send.                                             *)
ThreadStep(b) == (CallbackStep(b) /\ ~OnMessage(b)) \/ WorkerStep(b)
Sends(b, d) ==
  /\ SendAck(b, d)
  /\ \/ LiveAck(b) /\ CbGoto(b, "acked") /\ d = cb[b].d
     \/ ResumeAck(b) /\ CbGoto(b, "racked") /\ d = cb[b].d
     \/ CompleteAck(b) /\ CbGoto(b, "cmark") /\ d = cb[b].d
     \/ RetryAck(b) /\ wk' = [wk EXCEPT ![b].pc = "mark", ![b].sent = TRUE] /\ d = wk[b].d
LEMMA ThreadLeaves ==
  ASSUME NEW b \in Bridges, ThreadStep(b)
  PROVE  /\ UNCHANGED <<session, inflight, wire, conn, published, released, packet, minted, phase>>
         /\ \/ UNCHANGED <<ackQ, pubacked>>
            \/ \E d : Sends(b, d) /\ UNCHANGED backend
<1>1. ASSUME SetState(cb[b].d, "acked", cb[b].out) \/ UNCHANGED db \/
             (\E s, d, o : SetState(d, s, o))
      PROVE  UNCHANGED <<packet, minted>>
  BY <1>1 DEF SetState, db
<1>2. CASE ResumeAck(b) \/ CompleteAck(b) \/ LiveAck(b)
  <2>1. UNCHANGED <<packet, minted, phase, backend>>
    BY <1>2 DEF ResumeAck, CompleteAck, LiveAck, db
  <2>2. NoAck \/ Sends(b, cb[b].d)
    BY <1>2 DEF ResumeAck, CompleteAck, LiveAck, Sends
  <2> QED
    BY <2>1, <2>2 DEF NoAck, broker, Sends, SendAck
<1>3. CASE RetryAck(b)
  <2>1. UNCHANGED <<packet, minted, phase, backend>>
    BY <1>3 DEF RetryAck, db
  <2>2. NoAck \/ Sends(b, wk[b].d)
    BY <1>3 DEF RetryAck, Sends
  <2> QED
    BY <2>1, <2>2 DEF NoAck, broker, Sends, SendAck
<1>4. CASE CallbackStep(b) /\ ~OnMessage(b) /\ ~(ResumeAck(b) \/ CompleteAck(b) \/ LiveAck(b))
  <2>1. UNCHANGED <<broker, pubacked, phase>>
    BY ZenonT(60), <1>4 DEF CallbackStep, DeferUnapproved, ResumeTerminal, ResumeRow,
     ResumeIntent, ResumeUnack, ResumeAcked, ResumeDelete, CompleteTerminal,
     CompleteUnack, CompleteMark, CompleteDelete, LiveForward, LiveQuarantine, LiveTerminal,
     LiveAcked, LiveEnqueue
  <2>2. UNCHANGED <<packet, minted>>
    <3>1. CASE DeferUnapproved(b) \/ LiveEnqueue(b)
      BY <3>1 DEF DeferUnapproved, LiveEnqueue, Enqueue, db
    <3>2. CASE ResumeTerminal(b) \/ ResumeRow(b) \/ ResumeIntent(b) \/ ResumeUnack(b)
      BY <3>2 DEF ResumeTerminal, ResumeRow, ResumeIntent, ResumeUnack, MarkAttempted, CbFault, db
    <3>3. CASE ResumeAcked(b) \/ ResumeDelete(b) \/ CompleteTerminal(b)
      BY <1>1, <3>3 DEF ResumeAcked, ResumeDelete, CompleteTerminal, db
    <3>4. CASE CompleteUnack(b) \/ CompleteMark(b) \/ CompleteDelete(b)
      BY <3>4 DEF CompleteUnack, CompleteMark, CompleteDelete, CbFault, db
    <3>5. CASE LiveForward(b) \/ LiveQuarantine(b) \/ LiveTerminal(b) \/ LiveAcked(b)
      BY ZenonT(60), <1>1, <3>5 DEF LiveForward, LiveQuarantine, LiveTerminal, LiveAcked, db
    <3> QED
      BY <1>4, <3>1, <3>2, <3>3, <3>4, <3>5 DEF CallbackStep
  <2> QED
    BY SMTT(60), <2>1, <2>2 DEF broker
<1>5. CASE WorkerStep(b) /\ ~RetryAck(b)
  <2>1. UNCHANGED <<broker, pubacked, phase>>
    BY ZenonT(60), <1>5
    DEF WorkerStep, PollDue, ClaimRow, ClaimNothing, LookUp, RetryPost, RetryTerminal,
     FenceRow, AckIntent, RetryUnack, MarkAcknowledged, SettleAcked, DeleteRow,
     RescheduleClaimed, ReleaseClaim
  <2>2. UNCHANGED <<packet, minted>>
    BY ZenonT(60), <1>1, <1>5
    DEF WorkerStep, PollDue, ClaimRow, ClaimNothing, LookUp, RetryPost,
     RetryTerminal, FenceRow, AckIntent, RetryUnack, MarkAcknowledged, SettleAcked, DeleteRow,
     RescheduleClaimed, ReleaseClaim, db
  <2> QED
    BY <2>1, <2>2 DEF broker
<1> QED
  BY <1>2, <1>3, <1>4, <1>5 DEF ThreadStep

(* What a step of a bridge's threads may do to what the bridge owes.          *)
LEMMA ThreadOwes ==
  ASSUME IInv, IdsInv, NEW b \in Bridges, ThreadStep(b), Orderly', StepFaults
  PROVE  /\ CbTurns(b) \/ (\E key : CbTakes(b, key)) \/ WkTurns(b)
         /\ \A c \in Bridges : OwesOnce(c)'
         /\ \A c \in Bridges, d \in Known : Owes(c, d)' => Owes(c, d)
<1>1. UNCHANGED minted /\ OwesOnce(b)
  BY ThreadLeaves DEF IdsInv
<1>2. CbTurns(b) \/ (\E key : CbTakes(b, key)) \/ WkTurns(b)
  <2>1. CASE WorkerStep(b)
    BY <1>1, <2>1, WorkerTurns
  <2>2. CASE DeferUnapproved(b) \/ LiveEnqueue(b) \/ ResumeRow(b)
    BY <1>1, <2>2, CallbackTakes
  <2>3. ASSUME CompleteMark(b) PROVE CbGoto(b, "cdelete")
    <3>1. SUFFICES ASSUME Fault("db") PROVE FALSE
      BY <2>3 DEF CompleteMark
    <3>2. faults \in [FaultKinds -> Nat]
      BY DEF IInv, TypeOK
    <3>3. faults'["db"] # 0 /\ faults'["crash"] = faults["crash"]
      BY <3>1, <3>2 DEF Fault, FaultKinds
    <3>4. faults["crash"] = 0
      BY <3>3 DEF Orderly
    <3> QED
      BY <2>3, <3>4 DEF IdsInv, FirstConnection, CompleteMark, CbAt, CbHoldsProcessing
  <2> QED
    BY <1>1, <2>1, <2>2, <2>3, CallbackTurns DEF ThreadStep
<1>3. OwesOnce(b)' /\ \A d \in Known : Owes(b, d)' => Owes(b, d)
  BY <1>1, <1>2, CbTurned, CbTook, WkTurned
<1>4. ASSUME NEW c \in Bridges, c # b
      PROVE  cb'[c] = cb[c] /\ wk'[c] = wk[c] /\ targets'[c] = targets[c]
  BY <1>2, <1>4 DEF CbTurns, CbTakes, WkTurns
<1>5. ASSUME NEW c \in Bridges, c # b
      PROVE  OwesOnce(c)' /\ \A d : Owes(c, d)' = Owes(c, d)
  BY <1>1, <1>4, <1>5, OthersOwe DEF IdsInv
<1> QED
  BY <1>2, <1>3, <1>5

(* A PUBACK leaves for a delivery that was owed, and then is not.             *)
LEMMA SentIsOwed ==
  ASSUME IInv, IdsInv, NEW b \in Bridges, NEW d, Sends(b, d)
  PROVE  d \in Known /\ StoredDelivery(d) /\ Owes(b, d) /\ ~Owes(b, d)'
<1>1. OwesOnce(b)
  BY DEF IdsInv
<1>2. CASE /\ d = cb[b].d
           /\ \/ ResumeAck(b) /\ CbGoto(b, "racked")
              \/ LiveAck(b) /\ CbGoto(b, "acked")
  <2>1. /\ cb[b].pc \in {"rack", "ack"} /\ d = cb[b].d /\ UNCHANGED <<wk, targets>>
    BY <1>2 DEF ResumeAck, LiveAck, CbAt
  <2>2. cb'[b].pc \in {"racked", "acked"} /\ cb'[b].d = d
    BY <1>2, <2>1, CbWent
  <2>3. d \in Known /\ StoredDelivery(d)
    BY <2>1, StandsStored DEF IInv, SafeInv, CbSafe
  <2>4. Owes(b, d)
    BY <2>1 DEF Owes, CbOwes
  <2>5. \A k \in targets[b] : k[2] # d
    BY <1>1, <2>1 DEF OwesOnce, CbOwes, Completing
  <2>6. ~(WkOwes(b) /\ wk[b].d = d)
    BY <1>1, <2>1 DEF OwesOnce, CbOwes, WkOwes
  <2> QED
    BY <2>1, <2>2, <2>3, <2>4, <2>5, <2>6 DEF Owes, CbOwes, WkOwes
<1>3. CASE CompleteAck(b) /\ CbGoto(b, "cmark") /\ d = cb[b].d
  <2>1. /\ cb[b].pc = "cack" /\ d = cb[b].d /\ UNCHANGED <<wk, targets>>
    BY <1>3 DEF CompleteAck, CbAt
  <2>2. cb'[b].pc = "cmark" /\ cb'[b].d = d /\ CbKey(b)' = CbKey(b)
    BY <1>3, <2>1, CbWent
  <2>3. d \in Known /\ StoredDelivery(d)
    BY <2>1, StandsStored DEF IInv, SafeInv, CbSafe
  <2>4. Owes(b, d)
    BY <2>1 DEF Owes, CbOwes
  <2>5. \A k \in targets[b] : k[2] = d => k = CbKey(b)
    BY <1>1, <2>1 DEF OwesOnce, Completing
  <2>6. ~(WkOwes(b) /\ wk[b].d = d)
    BY <1>1, <2>1 DEF OwesOnce, CbOwes, WkOwes
  <2> QED
    BY <2>1, <2>2, <2>3, <2>4, <2>5, <2>6 DEF Owes, CbOwes, WkOwes, Spent
<1>4. CASE RetryAck(b) /\ wk' = [wk EXCEPT ![b].pc = "mark", ![b].sent = TRUE] /\ d = wk[b].d
  <2>1. /\ wk[b].pc = "send" /\ UNCHANGED <<cb, targets>>
    BY <1>4 DEF RetryAck, WkAt
  <2>2. wk'[b].pc = "mark" /\ wk'[b].d = d /\ WkKey(b)' = WkKey(b)
    BY <1>4, WkWent DEF WkGoes
  <2>3. d \in Known /\ StoredDelivery(d)
    BY <1>4, <2>1, StandsStored DEF IInv, SafeInv, WkSafe
  <2>4. Owes(b, d)
    BY <1>4, <2>1 DEF Owes, WkOwes
  <2>5. \A k \in targets[b] : k[2] = d => k = WkKey(b)
    BY <1>1, <1>4, <2>1 DEF OwesOnce
  <2>6. cb[b].pc = "idle"
    BY <1>1, <2>1 DEF OwesOnce
  <2> QED
    BY <2>1, <2>2, <2>3, <2>4, <2>5, <2>6 DEF Owes, CbOwes, WkOwes, Spent
<1>5. \/ /\ d = cb[b].d
         /\ \/ ResumeAck(b) /\ CbGoto(b, "racked")
            \/ LiveAck(b) /\ CbGoto(b, "acked")
      \/ CompleteAck(b) /\ CbGoto(b, "cmark") /\ d = cb[b].d
      \/ RetryAck(b) /\ wk' = [wk EXCEPT ![b].pc = "mark", ![b].sent = TRUE] /\ d = wk[b].d
  BY DEF Sends
<1> QED
  BY <1>2, <1>3, <1>4, <1>5

(* Every step of the threads but a new message keeps the ids apart.           *)
LEMMA ThreadIds ==
  ASSUME IInv, IdsInv, NEW b \in Bridges, ThreadStep(b), Orderly', StepFaults, StoreGrows
  PROVE  IdsInv'
<1>1. /\ UNCHANGED <<session, inflight, wire, conn, packet, minted, phase>>
      /\ \/ UNCHANGED <<ackQ, pubacked>>
         \/ \E d : Sends(b, d) /\ UNCHANGED backend
  BY ThreadLeaves
<1>2. /\ CbTurns(b) \/ (\E key : CbTakes(b, key)) \/ WkTurns(b)
      /\ \A c \in Bridges : OwesOnce(c)'
      /\ \A c \in Bridges, d \in Known : Owes(c, d)' => Owes(c, d)
  BY ThreadOwes
<1>3. IdsApart'
  <2>1. CASE UNCHANGED ackQ
    BY <1>1, <1>2, <2>1, ThreadsKeepIds DEF IdsInv
  <2>2. ASSUME NEW e, Sends(b, e), UNCHANGED backend PROVE IdsApart'
    <3>1. e \in Known /\ StoredDelivery(e) /\ Owes(b, e) /\ ~Owes(b, e)'
      BY <2>2, SentIsOwed
    <3>2. PICK d \in Known : d = e
      BY <3>1
    <3>3. SendAck(b, d) /\ StoredDelivery(d) /\ Owes(b, d) /\ ~Owes(b, d)'
      BY <2>2, <3>1, <3>2 DEF Sends
    <3> QED
      BY <1>1, <1>2, <2>2, <3>3, AckKeepsIds DEF IdsInv
  <2> QED
    BY <1>1, <2>1, <2>2
<1>4. OnlyConnected'
  <2>1. conn' = None => wire' = <<>> /\ ackQ' = <<>>
    <3>1. b # None
      BY BridgeAssumption
    <3> QED
      BY <1>1, <3>1 DEF IdsInv, OnlyConnected, Sends, SendAck
  <2>2. \A c \in Bridges : phase'[c] # "ready" => wk'[c].pc = "idle"
    <3>1. ASSUME NEW c \in Bridges, wk'[c] # wk[c] PROVE phase[c] = "ready"
      BY <1>2, <3>1 DEF CbTurns, CbTakes, WkTurns, IdsInv, OnlyConnected
    <3> QED
      BY <1>1, <3>1 DEF IdsInv, OnlyConnected
  <2> QED
    BY <1>1, <2>1, <2>2 DEF IdsInv, OnlyConnected
<1>5. FirstConnection'
  <2>1. ASSUME NEW c \in Bridges, cb'[c].pc = "resume" \/ CbHoldsProcessing(c)'
        PROVE  cb[c].pc = "resume" \/ CbHoldsProcessing(c)
    BY <1>2, <2>1 DEF CbTurns, CbTakes, WkTurns, CbHoldsProcessing
  <2>2. faults'["crash"] = 0 => faults["crash"] = 0
    BY FaultsStay DEF FaultKinds
  <2> QED
    BY <1>1, <2>1, <2>2 DEF IdsInv, FirstConnection
<1> QED
  BY <1>2, <1>3, <1>4, <1>5 DEF IdsInv

(* What is left of a queue whose head is taken.                               *)
LEMMA TailOf ==
  ASSUME NEW S, NEW q \in Seq(S), q # <<>>
  PROVE  /\ \A i \in DOMAIN Tail(q) :
              i \in Nat /\ i + 1 \in DOMAIN q /\ i + 1 # 1 /\ Tail(q)[i] = q[i + 1]
         /\ 1 \in DOMAIN q /\ Head(q) = q[1]
OBVIOUS

LEMMA WireLeft ==
  ASSUME IInv, WireApart, wire # <<>>, wire' = Tail(wire), UNCHANGED inflight
  PROVE  /\ WireApart' /\ Head(wire) \in Publication
         /\ \A i \in DOMAIN wire' : \E j \in DOMAIN wire : wire'[i] = wire[j]
         /\ inflight[Head(wire).mid] = Head(wire).msg
         /\ \E j \in DOMAIN wire : wire[j] = Head(wire)
         /\ \A i \in DOMAIN wire' : wire'[i].mid # Head(wire).mid
<1>1. wire \in Seq(Publication) /\ Head(wire) \in Publication
  BY NextMessage DEF IInv, TypeOK, BrokerTypeOK
<1>2. /\ \A i \in DOMAIN wire' :
           i \in Nat /\ i + 1 \in DOMAIN wire /\ i + 1 # 1 /\ wire'[i] = wire[i + 1]
      /\ 1 \in DOMAIN wire /\ Head(wire) = wire[1]
  BY <1>1, TailOf
<1>3. WireApart'
  <2>1. ASSUME NEW i \in DOMAIN wire', NEW j \in DOMAIN wire', wire'[i].mid = wire'[j].mid
        PROVE  i = j
    <3>1. i + 1 = j + 1 /\ i \in Nat /\ j \in Nat
      BY <1>2, <2>1 DEF WireApart
    <3> QED
      BY <3>1
  <2>2. \A i \in DOMAIN wire' : inflight'[wire'[i].mid] = wire'[i].msg
    BY <1>2 DEF WireApart
  <2> QED
    BY <2>1, <2>2 DEF WireApart
<1>4. \A i \in DOMAIN wire' : wire'[i].mid # Head(wire).mid
  BY <1>2 DEF WireApart
<1> QED
  BY <1>1, <1>2, <1>3, <1>4 DEF WireApart

(* on_message takes a packet from the wire to the callback, which owes its    *)
(* PUBACK from then on.                                                       *)
Takes(b, p, n) ==
  /\ conn = b /\ wire # <<>> /\ wire' = Tail(wire) /\ p = Head(wire)
  /\ cb[b].pc = "idle" /\ ~WkHoldsProcessing(b)
  /\ UNCHANGED <<session, inflight, ackQ, conn, phase, wk, faults, backend>>
  /\ Known \subseteq Known' /\ n \in Known' /\ Known' \subseteq Known \cup {n}
  /\ \A d \in Known : packet'[d] = packet[d]
  /\ packet'[n].mid = p.mid /\ packet'[n].payload = PayloadOf[p.msg]
  /\ cb'[b].d = n /\ cb'[b].pc \in {"defer", "resume", "forward"}
  /\ cb'[b].pc = "resume" => p.dup
  /\ \A c \in Bridges \ {b} : cb'[c] = cb[c] /\ targets'[c] = targets[c]
  /\ targets'[b] \subseteq targets[b]

LEMMA TakenIds ==
  ASSUME IInv, IdsInv, NEW b \in Bridges, NEW p, NEW n, Takes(b, p, n)
  PROVE  IdsInv'
<1>1. /\ WireApart' /\ p \in Publication /\ inflight[p.mid] = p.msg
      /\ \A i \in DOMAIN wire' : \E j \in DOMAIN wire : wire'[i] = wire[j]
      /\ \A i \in DOMAIN wire' : wire'[i].mid # p.mid
      /\ \E j \in DOMAIN wire : wire[j] = p
  BY WireLeft DEF Takes, IdsInv, IdsApart
<1>2. AcksApart'
  BY <1>1 DEF Takes, IdsInv, IdsApart, AcksApart, Stored, backend
<1>3. \A i \in DOMAIN ackQ : ackQ[i] # p.mid
  BY <1>1 DEF IdsInv, IdsApart, AcksApart
<1>4. \A d \in Known : Owes(b, d) => OwedHeld(d)' /\ packet[d].mid # p.mid
  BY <1>1 DEF Takes, IdsInv, IdsApart, OwedApart, OwedHeld
<1>5. OwedHeld(n)'
  <2>1. p.msg # None
    BY <1>1, BridgeAssumption DEF Publication
  <2> QED
    BY <1>1, <1>3, <2>1 DEF Takes, OwedHeld
<1>6. wk[b].pc \notin {"ack", "send", "unsent", "mark"}
  BY DEF Takes, WkHoldsProcessing
<1>7. \A k \in targets[b] : k[2] \in Known /\ ~Spent(b, k) /\ Owes(b, k[2]) /\ k[2] # n
  <2>1. ASSUME NEW k \in targets[b]
        PROVE  k[2] \in Known /\ ~Spent(b, k) /\ Owes(b, k[2])
    BY <1>6 DEF Takes, Spent, Owes, IdsInv, OwesOnce
  <2> QED
    BY <1>4, <2>1 DEF Takes
<1>8. \A d \in Known' : Owes(b, d)' => d = n \/ (d \in Known /\ Owes(b, d))
  BY <1>6, <1>7 DEF Takes, Owes, CbOwes, WkOwes
<1>9. OwedApart'
  <2> SUFFICES ASSUME NEW c \in Bridges, conn' = c
               PROVE  /\ \A d \in Known' : Owes(c, d)' => OwedHeld(d)'
                      /\ \A d, e \in Known' :
                           Owes(c, d)' /\ Owes(c, e)' /\ packet'[d].mid = packet'[e].mid => d = e
    BY DEF OwedApart
  <2>1. c = b
    BY DEF Takes
  <2>2. \A d \in Known' : Owes(c, d)' => OwedHeld(d)'
    BY <1>4, <1>5, <1>8, <2>1
  <2>3. ASSUME NEW d \in Known', NEW e \in Known', Owes(c, d)', Owes(c, e)',
               packet'[d].mid = packet'[e].mid
        PROVE  d = e
    BY <1>4, <1>8, <2>1, <2>3 DEF Takes, IdsInv, IdsApart, OwedApart
  <2> QED
    BY <2>2, <2>3
<1>10. ASSUME NEW c \in Bridges PROVE OwesOnce(c)'
  <2>1. CASE c # b
    <3>1. cb'[c] = cb[c] /\ wk'[c] = wk[c] /\ targets'[c] = targets[c] /\ Known \subseteq Known'
      BY <2>1 DEF Takes
    <3> QED
      BY <3>1 DEF IdsInv, OwesOnce, Spent, CbKey, WkKey, CbOwes, CbHoldsProcessing,
                  WkHoldsProcessing
  <2>2. CASE c = b
    <3>1. OwesOnce(b) /\ Known \subseteq Known' /\ wk' = wk /\ targets'[b] \subseteq targets[b]
          /\ cb'[b].d = n /\ cb'[b].pc \in {"defer", "resume", "forward"}
      BY DEF Takes, IdsInv
    <3>2. /\ \A k \in targets'[b] : k[2] \in Known'
          /\ \A k, l \in targets'[b] : k[2] = l[2] => k = l
          /\ \A k \in targets'[b] : k[2] # cb'[b].d
      BY <1>7, <3>1 DEF OwesOnce
    <3> QED
      BY <1>6, <2>2, <3>1, <3>2 DEF OwesOnce, CbHoldsProcessing
  <2> QED
    BY <2>1, <2>2
<1>11. OnlyConnected'
  <2>1. b # None
    BY BridgeAssumption
  <2> QED
    BY <2>1 DEF Takes, IdsInv, OnlyConnected
<1>12. FirstConnection'
  <2>1. ASSUME faults'["crash"] = 0
        PROVE  /\ \A i \in DOMAIN wire' : ~wire'[i].dup
               /\ \A c \in Bridges : cb'[c].pc # "resume" /\ ~CbHoldsProcessing(c)'
    <3>1. ~p.dup /\ \A i \in DOMAIN wire' : ~wire'[i].dup
      BY <1>1, <2>1 DEF Takes, IdsInv, FirstConnection
    <3> QED
      BY <2>1, <3>1 DEF Takes, IdsInv, FirstConnection, CbHoldsProcessing
  <2>2. conn' # None
    BY BridgeAssumption DEF Takes
  <2> QED
    BY <2>1, <2>2 DEF FirstConnection
<1> QED
  BY <1>1, <1>2, <1>9, <1>10, <1>11, <1>12 DEF IdsInv, IdsApart

LEMMA MessageIds ==
  ASSUME IInv, IdsInv, NEW b \in Bridges, OnMessage(b)
  PROVE  IdsInv'
<1>1. PICK p \in Publication : p = Head(wire)
  BY NextMessage DEF OnMessage
<1>2. /\ conn = b /\ wire # <<>> /\ wire' = Tail(wire)
      /\ cb[b].pc = "idle" /\ ~WkHoldsProcessing(b)
      /\ UNCHANGED <<session, inflight, ackQ, conn, phase, wk, faults, backend>>
  BY DEF OnMessage, CallbackFree
<1>3. cb \in [Bridges -> CbRecord] /\ targets \in [Bridges -> SUBSET Keys]
  BY CbInHand
<1>4. ASSUME NEW d \in Same(b, p), UNCHANGED <<db, targets>>,
             cb' = [cb EXCEPT ![b] =
                      [pc |-> NextPc(b, TRUE), d |-> d, dup |-> TRUE,
                       st |-> gens[d].state, out |-> gens[d].outcome,
                       op |-> OutcomeOp(gens[d].outcome)]]
      PROVE  IdsInv'
  <2>1. /\ d \in Deliveries /\ gens[d] # None /\ packet[d].mid = p.mid
        /\ p.dup /\ packet[d].payload = PayloadOf[p.msg]
    BY DEF Same, Superseded
  <2>2. d \in Known /\ Known' = Known
    BY <1>4, <2>1 DEF IInv, SafeInv, GensSafe, Known, db
  <2>3. /\ cb'[b].pc \in {"defer", "resume"} /\ cb'[b].d = d
        /\ \A c \in Bridges \ {b} : cb'[c] = cb[c]
    BY <1>3, <1>4 DEF NextPc
  <2>4. Takes(b, p, d)
    BY <1>1, <1>2, <1>4, <2>1, <2>2, <2>3 DEF Takes, db
  <2> QED
    BY <2>4, TakenIds
<1>5. CASE /\ minted + 1 \in Deliveries /\ MintDelivery(b, p, minted + 1)
           /\ cb' = [cb EXCEPT ![b] =
                       [IdleCb EXCEPT !.pc = NextPc(b, p.dup), !.d = minted + 1,
                                      !.dup = p.dup]]
  <2>1. PICK n \in Deliveries : n = minted + 1 /\ MintDelivery(b, p, n)
    BY <1>5
  <2>0. minted \in Nat /\ packet \in [Deliveries -> Packet \cup {None}]
    BY Bounds DEF IInv, TypeOK, DbTypeOK
  <2>2. /\ minted' = n
        /\ packet' = [packet EXCEPT ![n] =
                        [mid |-> p.mid, payload |-> PayloadOf[p.msg], epoch |-> sessEpoch[b]]]
        /\ targets' = [targets EXCEPT ![b] = @ \ (Ops \X Superseded(b, p))]
    BY <2>1 DEF MintDelivery
  <2>3. /\ Known \subseteq Known' /\ n \in Known' /\ Known' \subseteq Known \cup {n}
        /\ \A d \in Known : d # n
    BY <2>0, <2>1, <2>2 DEF Known
  <2>4. /\ \A d \in Known : packet'[d] = packet[d]
        /\ packet'[n].mid = p.mid /\ packet'[n].payload = PayloadOf[p.msg]
    BY <2>0, <2>2, <2>3, KnownDeliveries
  <2>5. /\ targets'[b] \subseteq targets[b]
        /\ \A c \in Bridges \ {b} : targets'[c] = targets[c]
    BY <1>3, <2>2
  <2>6. /\ cb'[b].d = n /\ cb'[b].pc = NextPc(b, p.dup)
        /\ \A c \in Bridges \ {b} : cb'[c] = cb[c]
    BY <1>3, <1>5, <2>1 DEF IdleCb
  <2>7. /\ cb'[b].pc \in {"defer", "resume", "forward"}
        /\ cb'[b].pc = "resume" => p.dup
    BY <2>6 DEF NextPc
  <2>8. Takes(b, p, n)
    BY <1>1, <1>2, <2>3, <2>4, <2>5, <2>6, <2>7 DEF Takes
  <2> QED
    BY <2>8, TakenIds
<1> QED
  BY <1>1, <1>4, <1>5 DEF OnMessage

(* A bridge that forgets targets owes no more than it did.                    *)
LEMMA Forgotten ==
  ASSUME UNCHANGED minted, NEW c, cb'[c] = cb[c], wk'[c] = wk[c], targets'[c] \subseteq targets[c],
         OwesOnce(c)
  PROVE  /\ OwesOnce(c)' /\ CbHoldsProcessing(c)' = CbHoldsProcessing(c)
         /\ \A d : Owes(c, d)' => Owes(c, d)
<1>1. \A k : Spent(c, k)' = Spent(c, k)
  BY DEF Spent, CbKey, WkKey
<1>2. \A d : Owes(c, d)' => Owes(c, d)
  BY <1>1 DEF Owes, CbOwes, WkOwes
<1>3. OwesOnce(c)'
  BY DEF OwesOnce, CbKey, WkKey, CbOwes, CbHoldsProcessing, WkHoldsProcessing, Known
<1> QED
  BY <1>2, <1>3 DEF CbHoldsProcessing

(* While the session goes on, its callbacks only forget targets.              *)
LEMMA SessionIds ==
  ASSUME IInv, IdsInv, UNCHANGED <<session, inflight, wire, ackQ, conn, packet, minted, cb, wk>>,
         NEW b \in Bridges, conn = b, phase[b] # "ready",
         \A c \in Bridges : targets'[c] \subseteq targets[c],
         \A c \in Bridges \ {b} : phase'[c] = phase[c],
         StoreGrows, StepFaults
  PROVE  IdsInv'
<1>1. \A c \in Bridges : /\ OwesOnce(c)' /\ CbHoldsProcessing(c)' = CbHoldsProcessing(c)
                         /\ \A d : Owes(c, d)' => Owes(c, d)
  BY Forgotten DEF IdsInv
<1>2. IdsApart'
  BY <1>1, ThreadsKeepIds DEF IdsInv
<1>3. OnlyConnected'
  BY DEF IdsInv, OnlyConnected
<1>4. FirstConnection'
  <2>1. faults'["crash"] = 0 => faults["crash"] = 0
    BY FaultsStay DEF FaultKinds
  <2> QED
    BY <1>1, <2>1 DEF IdsInv, FirstConnection
<1> QED
  BY <1>1, <1>2, <1>3, <1>4 DEF IdsInv

LEMMA BeginForgets ==
  ASSUME IInv, NEW b \in Bridges, NEW present, BeginSession(b, present)
  PROVE  /\ UNCHANGED <<packet, minted>> /\ targets'[b] = {}
         /\ \A c \in Bridges \ {b} : targets'[c] = targets[c]
BY CbInHand DEF BeginSession

(* What the broker sends again has its packet ids apart.                      *)
LEMMA ResentApart ==
  ASSUME IInv, NEW b, NEW w \in Resend(b)
  PROVE  /\ \A i, j \in DOMAIN w : w[i].mid = w[j].mid => i = j
         /\ \A i \in DOMAIN w : inflight[w[i].mid] = w[i].msg
<1>1. PICK s : /\ \A i, j \in DOMAIN s : s[i] = s[j] => i = j
               /\ w = [i \in DOMAIN s |-> [mid |-> s[i], msg |-> inflight[s[i]], dup |-> TRUE]]
  BY DEF Resend
<1> QED
  BY <1>1

(* A new connection starts with nothing owed.                                 *)
LEMMA ConnectIds ==
  ASSUME IInv, IdsInv, NEW b \in Bridges, OnConnect(b)
  PROVE  IdsInv'
<1>1. /\ conn = None /\ conn' = b /\ b # None /\ ackQ' = <<>> /\ cb[b].pc = "idle"
      /\ UNCHANGED <<inflight, cb, wk>>
      /\ wire' \in IF session THEN Resend(b) ELSE {<<>>}
  BY BridgeAssumption DEF OnConnect, CallbackFree
<1>2. /\ UNCHANGED <<packet, minted>> /\ targets'[b] = {}
      /\ \A c \in Bridges \ {b} : targets'[c] = targets[c] /\ phase'[c] = phase[c]
  <2>1. /\ \A c \in Bridges \ {b} : phase'[c] = phase[c]
    BY DEF OnConnect, IInv, TypeOK, MemoryTypeOK
  <2>2. CASE BeginSession(b, session)
    BY <2>1, <2>2, BeginForgets
  <2>3. CASE UNCHANGED db /\ targets' = [targets EXCEPT ![b] = {}]
    BY <2>1, <2>3, CbInHand DEF db
  <2> QED
    BY <2>2, <2>3 DEF OnConnect
<1>3. \A c \in Bridges : phase[c] = "off" /\ wk[c].pc = "idle"
  BY <1>1, BridgeAssumption DEF IdsInv, OnlyConnected
<1>4. \A c \in Bridges : OwesOnce(c)' /\ CbHoldsProcessing(c)' = CbHoldsProcessing(c)
  BY <1>1, <1>2, Forgotten DEF IdsInv
<1>5. \A d : ~Owes(b, d)'
  BY <1>1, <1>2, <1>3 DEF Owes, CbOwes, WkOwes
<1>6. OwedApart'
  BY <1>1, <1>5 DEF OwedApart
<1>7. WireApart'
  <2>1. CASE session
    BY <1>1, <2>1, ResentApart DEF WireApart
  <2>2. CASE ~session
    BY <1>1, <2>2 DEF WireApart
  <2> QED
    BY <2>1, <2>2
<1>8. AcksApart'
  BY <1>1 DEF AcksApart
<1>9. OnlyConnected'
  BY <1>1, <1>2, <1>3 DEF OnlyConnected
<1>10. FirstConnection'
  <2>1. faults'["crash"] = 0 => faults["crash"] = 0
    BY NextFaults, FaultsStay DEF FaultKinds, Next, SessionStep
  <2>2. faults'["crash"] = 0 => wire' = <<>>
    BY <1>1, <2>1 DEF IdsInv, FirstConnection
  <2> QED
    BY <1>1, <1>4, <2>1, <2>2 DEF IdsInv, FirstConnection
<1> QED
  BY <1>4, <1>6, <1>7, <1>8, <1>9, <1>10 DEF IdsInv, IdsApart

LEMMA SessionStepIds ==
  ASSUME IInv, IdsInv, NEW b \in Bridges, SessionStep(b) \/ SubackRefused(b)
  PROVE  IdsInv'
<1>1. StoreGrows /\ StepFaults
  BY NextFaults, NextGrows DEF Next, Environment
<1>2. /\ phase \in [Bridges -> {"off", "retryPresent", "retryClean", "pending", "ready"}]
      /\ targets \in [Bridges -> SUBSET Keys]
  BY DEF IInv, TypeOK, MemoryTypeOK
<1>3. CASE RetryActivation(b)
  <2>1. conn = b /\ phase[b] # "ready"
    BY <1>3 DEF RetryActivation, IdsInv, OnlyConnected
  <2>2. /\ UNCHANGED <<broker, cb, wk>> /\ \A c \in Bridges \ {b} : phase'[c] = phase[c]
    BY <1>2, <1>3 DEF RetryActivation
  <2>3. UNCHANGED <<packet, minted>> /\ \A c \in Bridges : targets'[c] \subseteq targets[c]
    BY <1>2, <1>3, BeginForgets DEF RetryActivation
  <2> QED
    BY <1>1, <2>1, <2>2, <2>3, SessionIds DEF broker
<1>4. CASE ResumeSession(b) \/ SubackRefused(b)
  <2>1. /\ conn = b /\ phase[b] # "ready" /\ UNCHANGED <<broker, cb, wk, packet, minted>>
        /\ targets' = targets \/ targets' = [targets EXCEPT ![b] = {}]
    BY <1>4 DEF ResumeSession, SubackRefused, db
  <2>2. /\ \A c \in Bridges \ {b} : phase'[c] = phase[c]
        /\ \A c \in Bridges : targets'[c] \subseteq targets[c]
    BY <1>2, <1>4, <2>1 DEF ResumeSession, SubackRefused
  <2> QED
    BY <1>1, <2>1, <2>2, SessionIds DEF broker
<1>5. CASE OnDisconnect(b)
  BY <1>5 DEF OnDisconnect, IdsInv, OnlyConnected
<1> QED
  BY <1>3, <1>4, <1>5, ConnectIds DEF SessionStep

(* A packet that on_message ignores leaves the wire, and is owed by nobody.   *)
LEMMA IgnoreIds ==
  ASSUME IInv, IdsInv, NEW b \in Bridges, IgnoreMessage(b)
  PROVE  IdsInv'
<1>1. /\ wire # <<>> /\ wire' = Tail(wire)
      /\ UNCHANGED <<session, inflight, ackQ, conn, packet, minted, phase, targets, cb, wk,
                     backend>>
  BY DEF IgnoreMessage, db, memory
<1>2. WireApart' /\ \A i \in DOMAIN wire' : \E j \in DOMAIN wire : wire'[i] = wire[j]
  BY <1>1, WireLeft DEF IdsInv, IdsApart
<1>3. \A c \in Bridges : /\ OwesOnce(c)' /\ CbHoldsProcessing(c)' = CbHoldsProcessing(c)
                         /\ \A d : Owes(c, d)' => Owes(c, d)
  BY <1>1, Forgotten DEF IdsInv
<1>4. AcksApart'
  BY <1>1, <1>2 DEF IdsInv, IdsApart, AcksApart, Stored, backend
<1>5. \A d : OwedHeld(d) => OwedHeld(d)'
  BY <1>1, <1>2 DEF OwedHeld
<1>6. Known' = Known
  BY <1>1 DEF Known
<1>7. OwedApart'
  <2> SUFFICES ASSUME NEW c \in Bridges, conn' = c
               PROVE  /\ \A d \in Known : Owes(c, d)' => OwedHeld(d)'
                      /\ \A d, e \in Known :
                           Owes(c, d)' /\ Owes(c, e)' /\ packet'[d].mid = packet'[e].mid => d = e
    BY <1>6 DEF OwedApart
  <2>1. conn = c
    BY <1>1
  <2> QED
    BY <1>1, <1>3, <1>5, <2>1 DEF IdsInv, IdsApart, OwedApart
<1>8. OnlyConnected'
  <2>1. conn = b /\ b # None
    BY BridgeAssumption DEF IgnoreMessage
  <2> QED
    BY <1>1, <2>1 DEF IdsInv, OnlyConnected
<1>9. FirstConnection'
  <2>1. faults'["crash"] = 0 => faults["crash"] = 0
    BY NextFaults, FaultsStay DEF FaultKinds, Next
  <2> QED
    BY <1>1, <1>2, <1>3, <2>1 DEF IdsInv, FirstConnection
<1> QED
  BY <1>2, <1>3, <1>4, <1>7, <1>8, <1>9 DEF IdsInv, IdsApart

(* What is on the wire is a message under a packet id.                        *)
LEMMA WireTyped ==
  ASSUME IInv, NEW i \in DOMAIN wire
  PROVE  wire[i].mid \in Mids /\ wire[i].msg \in Msgs /\ wire[i].msg # None
<1>1. wire[i] \in Publication
  BY DEF IInv, TypeOK, BrokerTypeOK
<1> QED
  BY <1>1, BridgeAssumption DEF Publication

(* The broker and the network; a process that stops.                          *)
LEMMA PublishIds ==
  ASSUME IInv, IdsInv, NEW m \in Msgs, Publish(m)
  PROVE  IdsInv'
<1>1. PICK mid \in Mids :
        /\ inflight[mid] = None /\ inflight' = [inflight EXCEPT ![mid] = m]
        /\ wire' = Append(wire, [mid |-> mid, msg |-> m, dup |-> FALSE])
  BY BridgeAssumption DEF Publish
<1>2. /\ conn # None /\ m # None
      /\ UNCHANGED <<session, ackQ, conn, packet, minted, phase, targets, cb, wk, backend, faults>>
  BY BridgeAssumption DEF Publish, db, memory
<1>3. /\ inflight \in [Mids -> Msgs \cup {None}] /\ wire \in Seq(Publication)
      /\ ackQ \in Seq(Mids)
      /\ [mid |-> mid, msg |-> m, dup |-> FALSE] \in Publication
  BY DEF IInv, TypeOK, BrokerTypeOK, Publication
<1>4. /\ Len(wire) \in Nat /\ DOMAIN wire = 1 .. Len(wire) /\ DOMAIN wire' = 1 .. Len(wire) + 1
      /\ wire'[Len(wire) + 1] = [mid |-> mid, msg |-> m, dup |-> FALSE]
      /\ \A i \in DOMAIN wire : wire'[i] = wire[i]
  BY <1>1, <1>3
<1>5. /\ \A i \in DOMAIN wire : wire[i].mid # mid
      /\ \A i \in DOMAIN ackQ : ackQ[i] # mid /\ ackQ[i] \in Mids
  <2>1. ASSUME NEW i \in DOMAIN wire PROVE wire[i].mid # mid
    BY <1>1, WireTyped DEF IdsInv, IdsApart, WireApart
  <2> QED
    BY <1>1, <1>3, <2>1 DEF IdsInv, IdsApart, AcksApart
<1>6. \A x \in Mids : x # mid => inflight'[x] = inflight[x]
  BY <1>1, <1>3
<1>7. inflight'[mid] = m
  BY <1>1, <1>3
<1>8. \A i \in DOMAIN wire' : i \in DOMAIN wire \/ i = Len(wire) + 1
  BY <1>4
<1>9. WireApart'
  <2>1. \A i, j \in DOMAIN wire' : wire'[i].mid = wire'[j].mid => i = j
    BY <1>4, <1>5, <1>8 DEF IdsInv, IdsApart, WireApart
  <2>2. \A i \in DOMAIN wire' : inflight'[wire'[i].mid] = wire'[i].msg
    BY <1>4, <1>5, <1>6, <1>7, <1>8, WireTyped DEF IdsInv, IdsApart, WireApart
  <2> QED
    BY <2>1, <2>2 DEF WireApart
<1>10. AcksApart'
  <2>1. \A i \in DOMAIN ackQ : inflight'[ackQ[i]] = inflight[ackQ[i]]
    BY <1>5, <1>6
  <2>2. \A i \in DOMAIN wire', j \in DOMAIN ackQ : wire'[i].mid # ackQ[j]
    BY <1>4, <1>5, <1>8 DEF IdsInv, IdsApart, AcksApart
  <2> QED
    BY <1>2, <2>1, <2>2 DEF IdsInv, IdsApart, AcksApart, Stored, backend
<1>11. \A c \in Bridges : /\ OwesOnce(c)' = OwesOnce(c)
                          /\ CbHoldsProcessing(c)' = CbHoldsProcessing(c)
                          /\ \A d : Owes(c, d)' = Owes(c, d)
  BY <1>2, OthersOwe
<1>12. ASSUME NEW d \in Known, OwedHeld(d) PROVE OwedHeld(d)'
  <2>1. packet[d].mid \in Mids /\ packet[d].mid # mid
    BY <1>1, <1>12, KnownPackets DEF OwedHeld
  <2>2. \A i \in DOMAIN wire' : wire'[i].mid # packet[d].mid
    BY <1>4, <1>8, <1>12, <2>1 DEF OwedHeld
  <2> QED
    BY <1>2, <1>6, <1>12, <2>1, <2>2 DEF OwedHeld
<1>13. OwedApart'
  <2>1. Known' = Known /\ packet' = packet /\ conn' = conn
    BY <1>2 DEF Known
  <2> SUFFICES ASSUME NEW c \in Bridges, conn' = c
               PROVE  /\ \A d \in Known : Owes(c, d)' => OwedHeld(d)'
                      /\ \A d, e \in Known :
                           Owes(c, d)' /\ Owes(c, e)' /\ packet'[d].mid = packet'[e].mid => d = e
    BY <2>1 DEF OwedApart
  <2> QED
    BY <1>11, <1>12, <2>1 DEF IdsInv, IdsApart, OwedApart
<1>14. OnlyConnected' /\ FirstConnection'
  <2>1. (\A i \in DOMAIN wire : ~wire[i].dup) => \A i \in DOMAIN wire' : ~wire'[i].dup
    BY <1>4, <1>8
  <2> QED
    BY <1>2, <1>11, <2>1 DEF IdsInv, OnlyConnected, FirstConnection
<1> QED
  BY <1>9, <1>10, <1>11, <1>13, <1>14 DEF IdsInv, IdsApart

LEMMA PubackIds ==
  ASSUME IInv, IdsInv, ReceivePuback
  PROVE  IdsInv' /\ \A m \in released' : m \in released \/ PayloadOf[m] \in Stored
<1>1. PICK mid \in Mids : mid = Head(ackQ)
  BY DEF ReceivePuback, IInv, TypeOK, BrokerTypeOK
<1>2. /\ ackQ # <<>> /\ ackQ' = Tail(ackQ) /\ inflight' = [inflight EXCEPT ![mid] = None]
      /\ released' = released \cup ({inflight[mid]} \ {None})
      /\ UNCHANGED <<session, wire, conn, packet, minted, phase, targets, cb, wk, backend, faults>>
  BY <1>1 DEF ReceivePuback, db, memory
<1>3. /\ inflight \in [Mids -> Msgs \cup {None}] /\ wire \in Seq(Publication)
      /\ ackQ \in Seq(Mids)
  BY DEF IInv, TypeOK, BrokerTypeOK
<1>4. /\ \A i \in DOMAIN ackQ' :
           i \in Nat /\ i + 1 \in DOMAIN ackQ /\ i + 1 # 1 /\ ackQ'[i] = ackQ[i + 1]
      /\ 1 \in DOMAIN ackQ /\ mid = ackQ[1] /\ \A i \in DOMAIN ackQ : ackQ[i] \in Mids
  BY <1>1, <1>2, <1>3, TailOf
<1>5. /\ \A i \in DOMAIN ackQ' : ackQ'[i] # mid
      /\ \A i \in DOMAIN wire : wire[i].mid # mid /\ wire[i].mid \in Mids
  BY <1>4, WireTyped DEF IdsInv, IdsApart, AcksApart
<1>6. \A x \in Mids : x # mid => inflight'[x] = inflight[x]
  BY <1>2, <1>3
<1>7. \A m \in released' : m \in released \/ PayloadOf[m] \in Stored
  BY <1>2, <1>4 DEF IdsInv, IdsApart, AcksApart
<1>8. WireApart'
  BY <1>2, <1>5, <1>6 DEF IdsInv, IdsApart, WireApart
<1>9. AcksApart'
  <2>1. ASSUME NEW i \in DOMAIN ackQ', NEW j \in DOMAIN ackQ', ackQ'[i] = ackQ'[j] PROVE i = j
    <3>1. i + 1 = j + 1 /\ i \in Nat /\ j \in Nat
      BY <1>4, <2>1 DEF IdsInv, IdsApart, AcksApart
    <3> QED
      BY <3>1
  <2>2. \A i \in DOMAIN ackQ' :
          inflight'[ackQ'[i]] # None /\ PayloadOf[inflight'[ackQ'[i]]] \in Stored
    BY <1>4, <1>5, <1>6 DEF IdsInv, IdsApart, AcksApart
  <2>3. \A i \in DOMAIN wire, j \in DOMAIN ackQ' : wire[i].mid # ackQ'[j]
    BY <1>4 DEF IdsInv, IdsApart, AcksApart
  <2> QED
    BY <1>2, <2>1, <2>2, <2>3 DEF AcksApart, Stored, backend
<1>10. \A c \in Bridges : /\ OwesOnce(c)' = OwesOnce(c)
                          /\ CbHoldsProcessing(c)' = CbHoldsProcessing(c)
                          /\ \A d : Owes(c, d)' = Owes(c, d)
  BY <1>2, OthersOwe
<1>11. ASSUME NEW d \in Known, OwedHeld(d) PROVE OwedHeld(d)'
  <2>1. packet[d].mid \in Mids /\ packet[d].mid # mid
    BY <1>4, <1>11, KnownPackets DEF OwedHeld
  <2>2. \A i \in DOMAIN ackQ' : ackQ'[i] # packet[d].mid
    BY <1>4, <1>11 DEF OwedHeld
  <2> QED
    BY <1>2, <1>6, <1>11, <2>1, <2>2 DEF OwedHeld
<1>12. OwedApart'
  <2>1. Known' = Known /\ packet' = packet /\ conn' = conn
    BY <1>2 DEF Known
  <2> SUFFICES ASSUME NEW c \in Bridges, conn' = c
               PROVE  /\ \A d \in Known : Owes(c, d)' => OwedHeld(d)'
                      /\ \A d, e \in Known :
                           Owes(c, d)' /\ Owes(c, e)' /\ packet'[d].mid = packet'[e].mid => d = e
    BY <2>1 DEF OwedApart
  <2> QED
    BY <1>10, <1>11, <2>1 DEF IdsInv, IdsApart, OwedApart
<1>13. OnlyConnected' /\ FirstConnection'
  BY <1>2, <1>10 DEF IdsInv, OnlyConnected, FirstConnection
<1> QED
  BY <1>7, <1>8, <1>9, <1>10, <1>12, <1>13 DEF IdsInv, IdsApart

LEMMA LoseIds ==
  ASSUME IInv, IdsInv, LoseSession
  PROVE  IdsInv'
<1>1. /\ conn = None /\ ~session'
      /\ UNCHANGED <<wire, ackQ, conn, packet, minted, phase, targets, cb, wk, backend>>
  BY DEF LoseSession, db, memory
<1>2. wire = <<>> /\ ackQ = <<>>
  BY <1>1 DEF IdsInv, OnlyConnected
<1>3. \A c \in Bridges : OwesOnce(c)' /\ CbHoldsProcessing(c)' = CbHoldsProcessing(c)
  BY <1>1, OthersOwe DEF IdsInv
<1>4. IdsApart'
  <2>1. wire' = <<>> /\ ackQ' = <<>> /\ conn' \notin Bridges
    BY <1>1, <1>2, BridgeAssumption
  <2> QED
    BY <2>1 DEF IdsApart, WireApart, AcksApart, OwedApart
<1>5. faults'["crash"] = 0 => faults["crash"] = 0
  BY NextFaults, FaultsStay DEF FaultKinds, Next, Environment
<1> QED
  BY <1>1, <1>3, <1>4, <1>5 DEF IdsInv, OnlyConnected, FirstConnection

LEMMA CrashIds ==
  ASSUME IInv, IdsInv, NEW b \in Bridges, Crash(b)
  PROVE  IdsInv'
<1>1. /\ phase \in [Bridges -> {"off", "retryPresent", "retryClean", "pending", "ready"}]
      /\ targets \in [Bridges -> SUBSET Keys] /\ faults \in [FaultKinds -> Nat]
      /\ cb \in [Bridges -> CbRecord] /\ wk \in [Bridges -> WkRecord]
  BY DEF IInv, TypeOK, MemoryTypeOK
<1>2. /\ phase' = [phase EXCEPT ![b] = "off"] /\ targets' = [targets EXCEPT ![b] = {}]
      /\ cb' = [cb EXCEPT ![b] = IdleCb] /\ wk' = [wk EXCEPT ![b] = IdleWk]
      /\ UNCHANGED <<packet, minted, session, inflight, backend>>
  BY DEF Crash
<1>3. /\ phase'[b] = "off" /\ targets'[b] = {} /\ cb'[b] = IdleCb /\ wk'[b] = IdleWk
      /\ \A c \in Bridges \ {b} : /\ phase'[c] = phase[c] /\ targets'[c] = targets[c]
                                  /\ cb'[c] = cb[c] /\ wk'[c] = wk[c]
  BY <1>1, <1>2
<1>0. IdleCb.pc = "idle" /\ IdleWk.pc = "idle"
  BY DEF IdleCb, IdleWk
<1>4. \/ conn = b /\ conn' = None /\ wire' = <<>> /\ ackQ' = <<>>
      \/ conn # b /\ UNCHANGED <<conn, wire, ackQ>>
  BY DEF Crash
<1>5. ASSUME NEW c \in Bridges
      PROVE  OwesOnce(c)' /\ \A d : Owes(c, d)' => Owes(c, d)
  <2>1. CASE c = b
    <3>1. targets'[c] = {} /\ cb'[c].pc = "idle" /\ wk'[c].pc = "idle"
      BY <1>0, <1>3, <2>1
    <3> QED
      BY <3>1 DEF OwesOnce, Owes, CbOwes, WkOwes, CbHoldsProcessing, Completing
  <2>2. CASE c # b
    BY <1>2, <1>3, <2>2, OthersOwe DEF IdsInv
  <2> QED
    BY <2>1, <2>2
<1>6. IdsApart'
  <2>1. CASE conn' = None /\ wire' = <<>> /\ ackQ' = <<>>
    <3>1. conn' \notin Bridges
      BY <2>1, BridgeAssumption
    <3> QED
      BY <2>1, <3>1 DEF IdsApart, WireApart, AcksApart, OwedApart
  <2>2. CASE UNCHANGED <<conn, wire, ackQ>>
    BY <1>2, <1>5, <2>2, ThreadsKeepIds, SameBackendGrows DEF IdsInv
  <2> QED
    BY <1>4, <2>1, <2>2
<1>7. OnlyConnected'
  <2>1. wk'[b].pc = "idle"
    BY <1>0, <1>3
  <2>2. conn' = None => wire' = <<>> /\ ackQ' = <<>>
    BY <1>4 DEF IdsInv, OnlyConnected
  <2>3. ASSUME NEW c \in Bridges
        PROVE  /\ conn' # c => phase'[c] = "off"
               /\ phase'[c] # "ready" => wk'[c].pc = "idle"
    BY <1>3, <1>4, <2>1 DEF IdsInv, OnlyConnected
  <2> QED
    BY <2>2, <2>3 DEF OnlyConnected
<1>8. FirstConnection'
  <2>1. faults'["crash"] # 0
    BY <1>1 DEF Crash, Fault, FaultKinds
  <2> QED
    BY <2>1 DEF FirstConnection
<1> QED
  BY <1>5, <1>6, <1>7, <1>8 DEF IdsInv

-----------------------------------------------------------------------------
(* While a single message is published, an acknowledged delivery is its.      *)
SoleInv ==
  /\ released \subseteq published
  /\ \A x \in Mids : inflight[x] # None => inflight[x] \in published
  /\ \A i \in DOMAIN wire : wire[i].msg \in published
  /\ \A d \in Known : \E m \in published : packet[d].payload = PayloadOf[m]
  /\ (ackQ # <<>> \/ released # {}) => pubacked # {}

LEMMA NextSole ==
  ASSUME IInv, SoleInv, [Next]_vars
  PROVE  SoleInv'
<1>1. /\ inflight \in [Mids -> Msgs \cup {None}] /\ wire \in Seq(Publication)
      /\ ackQ \in Seq(Mids)
  BY DEF IInv, TypeOK, BrokerTypeOK
<1>2. ASSUME UNCHANGED <<packet, minted, inflight, published, released>>, UNCHANGED pubacked,
             \A i \in DOMAIN wire' : \E j \in DOMAIN wire : wire'[i] = wire[j],
             ackQ' # <<>> => ackQ # <<>>
      PROVE  SoleInv'
  BY <1>2 DEF SoleInv, Known
<1>3. ASSUME NEW b \in Bridges, ThreadStep(b) PROVE SoleInv'
  <2>1. UNCHANGED <<inflight, wire, published, released, packet, minted>>
    BY <1>3, ThreadLeaves
  <2>2. UNCHANGED <<ackQ, pubacked>> \/ pubacked' # {}
    BY <1>3, ThreadLeaves DEF Sends, SendAck
  <2> QED
    BY <2>1, <2>2 DEF SoleInv, Known
<1>4. ASSUME wire # <<>>, wire' = Tail(wire)
      PROVE  /\ \A i \in DOMAIN wire' : \E j \in DOMAIN wire : wire'[i] = wire[j]
             /\ \E j \in DOMAIN wire : wire[j] = Head(wire)
  BY <1>1, <1>4, TailOf
<1>5. ASSUME NEW b \in Bridges, OnMessage(b) PROVE SoleInv'
  <2>1. /\ wire # <<>> /\ wire' = Tail(wire)
        /\ UNCHANGED <<inflight, ackQ, published, released, pubacked>>
    BY <1>5 DEF OnMessage
  <2>2. CASE UNCHANGED <<packet, minted>>
    BY <1>2, <1>4, <2>1, <2>2
  <2>3. CASE minted + 1 \in Deliveries /\ MintDelivery(b, Head(wire), minted + 1)
    <3>1. PICK n \in Deliveries : n = minted + 1 /\ MintDelivery(b, Head(wire), n)
      BY <2>3
    <3>2. minted \in Nat /\ packet \in [Deliveries -> Packet \cup {None}]
      BY Bounds DEF IInv, TypeOK, DbTypeOK
    <3>3. /\ minted' = n
          /\ packet' = [packet EXCEPT ![n] =
                          [mid |-> Head(wire).mid, payload |-> PayloadOf[Head(wire).msg],
                           epoch |-> sessEpoch[b]]]
      BY <3>1 DEF MintDelivery
    <3>4. Known' \subseteq Known \cup {n} /\ \A d \in Known : d # n /\ packet'[d] = packet[d]
      BY <3>1, <3>2, <3>3, KnownDeliveries DEF Known
    <3>5. packet'[n].payload = PayloadOf[Head(wire).msg]
      BY <3>2, <3>3
    <3>6. Head(wire).msg \in published
      BY <1>4, <2>1 DEF SoleInv
    <3>7. \A d \in Known' : \E m \in published : packet'[d].payload = PayloadOf[m]
      BY <3>4, <3>5, <3>6 DEF SoleInv
    <3>8. \A i \in DOMAIN wire' : wire'[i].msg \in published
      BY <1>4, <2>1 DEF SoleInv
    <3> QED
      BY <2>1, <3>7, <3>8 DEF SoleInv
  <2> QED
    BY <1>5, <2>2, <2>3 DEF OnMessage, db
<1>6. ASSUME NEW b \in Bridges, SessionStep(b) \/ SubackRefused(b) PROVE SoleInv'
  <2>1. UNCHANGED <<packet, minted, inflight, published, released, pubacked>>
    BY <1>6, BeginForgets DEF SessionStep, SubackRefused, OnConnect, RetryActivation,
       ResumeSession, OnDisconnect, db, broker
  <2>2. CASE UNCHANGED <<wire, ackQ>>
    BY <1>2, <2>1, <2>2
  <2>3. CASE OnConnect(b)
    <3>1. ackQ' = <<>> /\ wire' \in IF session THEN Resend(b) ELSE {<<>>}
      BY <2>3 DEF OnConnect
    <3>2. \A i \in DOMAIN wire' : wire'[i].msg \in published
      <4>1. CASE session
        <5>1. /\ wire' \in Seq(Publication)
              /\ \A i \in DOMAIN wire' : inflight[wire'[i].mid] = wire'[i].msg
          BY <3>1, <4>1, ResentApart, ResendTyped
        <5>2. \A i \in DOMAIN wire' :
                wire'[i].mid \in Mids /\ wire'[i].msg # None
          <6>1. \A i \in DOMAIN wire' : wire'[i] \in Publication
            BY <5>1
          <6> QED
            BY <6>1, BridgeAssumption DEF Publication
        <5> QED
          BY <5>1, <5>2 DEF SoleInv
      <4>2. CASE ~session
        BY <3>1, <4>2
      <4> QED
        BY <4>1, <4>2
    <3> QED
      BY <2>1, <3>1, <3>2 DEF SoleInv, Known
  <2> QED
    BY <1>6, <2>2, <2>3 DEF SessionStep, SubackRefused, RetryActivation, ResumeSession,
       OnDisconnect, broker
<1>7. ASSUME NEW b \in Bridges, IgnoreMessage(b) PROVE SoleInv'
  BY <1>2, <1>4, <1>7 DEF IgnoreMessage, db
<1>8. ASSUME NEW m \in Msgs, Publish(m) PROVE SoleInv'
  <2>1. PICK mid \in Mids :
          /\ inflight' = [inflight EXCEPT ![mid] = m]
          /\ wire' = Append(wire, [mid |-> mid, msg |-> m, dup |-> FALSE])
    BY <1>8, BridgeAssumption DEF Publish
  <2>2. /\ published' = published \cup {m}
        /\ UNCHANGED <<packet, minted, ackQ, released, pubacked>>
    BY <1>8 DEF Publish, db
  <2>3. [mid |-> mid, msg |-> m, dup |-> FALSE] \in Publication
    BY DEF Publication
  <2>4. /\ Len(wire) \in Nat /\ DOMAIN wire = 1 .. Len(wire) /\ DOMAIN wire' = 1 .. Len(wire) + 1
        /\ wire'[Len(wire) + 1] = [mid |-> mid, msg |-> m, dup |-> FALSE]
        /\ \A i \in DOMAIN wire : wire'[i] = wire[i]
    BY <1>1, <2>1, <2>3
  <2>5. \A i \in DOMAIN wire' : i \in DOMAIN wire \/ wire'[i].msg = m
    BY <2>4
  <2>6. \A i \in DOMAIN wire' : wire'[i].msg \in published'
    BY <2>2, <2>4, <2>5 DEF SoleInv
  <2>7. \A x \in Mids : inflight'[x] # None => inflight'[x] \in published'
    BY <1>1, <2>1, <2>2 DEF SoleInv
  <2> QED
    BY <2>2, <2>6, <2>7 DEF SoleInv, Known
<1>9. CASE ReceivePuback
  <2>1. /\ ackQ # <<>> /\ Head(ackQ) \in Mids
        /\ released' = released \cup ({inflight[Head(ackQ)]} \ {None})
        /\ inflight' = [inflight EXCEPT ![Head(ackQ)] = None]
        /\ UNCHANGED <<packet, minted, wire, published, pubacked>>
    BY <1>1, <1>9 DEF ReceivePuback, db
  <2>2. \A x \in Mids : inflight'[x] # None => inflight'[x] = inflight[x]
    BY <1>1, <2>1
  <2>3. released' \subseteq published'
    BY <2>1 DEF SoleInv
  <2> QED
    BY <2>1, <2>2, <2>3 DEF SoleInv, Known
<1>10. CASE DropConnection \/ (\E b \in Bridges : Crash(b))
  <2>1. /\ UNCHANGED <<packet, minted, inflight, published, released, pubacked>>
        /\ (wire' = <<>> /\ ackQ' = <<>>) \/ UNCHANGED <<wire, ackQ>>
    BY <1>10 DEF DropConnection, Crash, db
  <2> QED
    BY <1>2, <2>1
<1>11. CASE LoseSession
  <2>1. /\ UNCHANGED <<packet, minted, wire, ackQ, published, released, pubacked>>
        /\ inflight' = [m \in Mids |-> None]
    BY <1>11 DEF LoseSession, db
  <2> QED
    BY <2>1 DEF SoleInv, Known
<1>12. CASE UNCHANGED vars
  BY <1>2, <1>12 DEF vars, db, broker
<1> QED
  BY <1>3, <1>5, <1>6, <1>7, <1>8, <1>9, <1>10, <1>11, <1>12
     DEF Next, Environment, ThreadStep

-----------------------------------------------------------------------------
(* The inductive invariant of what the broker releases.                       *)
ReleaseIInv == IInv /\ SoleInv /\ (Orderly => IdsInv /\ ReleasedAfterStore)

LEMMA InitRelease == Init => ReleaseIInv
<1> SUFFICES ASSUME Init PROVE ReleaseIInv
  OBVIOUS
<1>0. Known = {}
  BY DEF Init, Known
<1>1. /\ Known = {} /\ wire = <<>> /\ ackQ = <<>> /\ released = {} /\ conn = None
      /\ ~session /\ conn \notin Bridges
  BY <1>0, BridgeAssumption DEF Init
<1>2. \A x \in Mids : inflight[x] = None
  BY DEF Init
<1>3. \A b \in Bridges :
        /\ phase[b] = "off" /\ targets[b] = {} /\ cb[b].pc = "idle" /\ wk[b].pc = "idle"
  BY DEF Init, IdleCb, IdleWk
<1>4. SoleInv
  BY <1>1, <1>2 DEF SoleInv
<1>5. IdsInv
  <2>1. IdsApart
    BY <1>1 DEF IdsApart, WireApart, AcksApart, OwedApart
  <2>2. \A b \in Bridges : OwesOnce(b)
    BY <1>3 DEF OwesOnce, CbOwes, CbHoldsProcessing, Completing
  <2>3. OnlyConnected /\ FirstConnection
    BY <1>1, <1>3 DEF OnlyConnected, FirstConnection, CbHoldsProcessing
  <2> QED
    BY <2>1, <2>2, <2>3 DEF IdsInv
<1> QED
  BY <1>1, <1>4, <1>5, InitIInv DEF ReleaseIInv, ReleasedAfterStore

LEMMA NextRelease == ReleaseIInv /\ [Next]_vars => ReleaseIInv'
<1> SUFFICES ASSUME ReleaseIInv, [Next]_vars PROVE ReleaseIInv'
  OBVIOUS
<1>1. IInv' /\ SoleInv' /\ StoreGrows /\ StepFaults
  BY NextIInv, NextSole, NextGrows, NextFaults DEF ReleaseIInv
<1>2. ASSUME Orderly' PROVE IdsInv' /\ ReleasedAfterStore'
  <2>1. Orderly
    BY <1>1, <1>2, FaultsStay DEF Orderly, FaultKinds, ReleaseIInv
  <2>2. IInv /\ IdsInv /\ ReleasedAfterStore
    BY <2>1 DEF ReleaseIInv
  <2>3. ASSUME UNCHANGED released PROVE ReleasedAfterStore'
    BY <1>1, <2>2, <2>3 DEF ReleasedAfterStore, StoreGrows, Stored
  <2>4. CASE UNCHANGED vars
    <3>1. UNCHANGED <<session, inflight, wire, ackQ, conn, packet, minted, phase, targets, cb, wk,
                      faults, backend, released>>
      BY <2>4 DEF vars, db, broker, memory
    <3>2. \A c \in Bridges : /\ OwesOnce(c)' /\ CbHoldsProcessing(c)' = CbHoldsProcessing(c)
                             /\ \A d : Owes(c, d)' => Owes(c, d)
      BY <2>2, <3>1, Forgotten DEF IdsInv
    <3>3. IdsApart'
      BY <1>1, <2>2, <3>1, <3>2, ThreadsKeepIds DEF IdsInv
    <3> QED
      BY <2>2, <2>3, <3>1, <3>2, <3>3 DEF IdsInv, OnlyConnected, FirstConnection
  <2>5. CASE \E m \in Msgs : Publish(m)
    BY <2>2, <2>3, <2>5, PublishIds DEF Publish
  <2>6. CASE ReceivePuback
    <3>1. IdsInv' /\ \A m \in released' : m \in released \/ PayloadOf[m] \in Stored
      BY <2>2, <2>6, PubackIds
    <3> QED
      BY <1>1, <2>2, <3>1 DEF ReleasedAfterStore, StoreGrows, Stored
  <2>7. CASE DropConnection
    <3>1. faults \in [FaultKinds -> Nat]
      BY <2>2 DEF IInv, TypeOK
    <3> QED
      BY <1>2, <2>7, <3>1 DEF DropConnection, Fault, Orderly, FaultKinds
  <2>8. CASE LoseSession
    BY <2>2, <2>3, <2>8, LoseIds DEF LoseSession
  <2>9. ASSUME NEW b \in Bridges, Crash(b) PROVE IdsInv' /\ ReleasedAfterStore'
    BY <2>2, <2>3, <2>9, CrashIds DEF Crash
  <2>10. ASSUME NEW b \in Bridges, SessionStep(b) \/ SubackRefused(b)
         PROVE  IdsInv' /\ ReleasedAfterStore'
    <3>1. UNCHANGED released
      BY <2>10 DEF SessionStep, SubackRefused, OnConnect, RetryActivation, ResumeSession,
         OnDisconnect, broker
    <3> QED
      BY <2>2, <2>3, <2>10, <3>1, SessionStepIds
  <2>11. ASSUME NEW b \in Bridges, IgnoreMessage(b) PROVE IdsInv' /\ ReleasedAfterStore'
    BY <2>2, <2>3, <2>11, IgnoreIds DEF IgnoreMessage
  <2>12. ASSUME NEW b \in Bridges, OnMessage(b) PROVE IdsInv' /\ ReleasedAfterStore'
    BY <2>2, <2>3, <2>12, MessageIds DEF OnMessage
  <2>13. ASSUME NEW b \in Bridges, ThreadStep(b) PROVE IdsInv' /\ ReleasedAfterStore'
    BY <1>1, <1>2, <2>2, <2>3, <2>13, ThreadIds, ThreadLeaves
  <2> QED
    BY <2>4, <2>5, <2>6, <2>7, <2>8, <2>9, <2>10, <2>11, <2>12, <2>13
       DEF Next, Environment, ThreadStep
<1> QED
  BY <1>1, <1>2 DEF ReleaseIInv

(* The broker forgets no message that the backend does not have: as long as   *)
(* no connection drops, or no bridge that crashed fails to write, or while a  *)
(* single message is published.  Any number of bridges, crashes, refused      *)
(* subscriptions, lost sessions, leases and PUBACKs that cannot be sent.      *)
THEOREM ReleasesStored == Spec => []ReleasedIsStored
<1>1. Spec => []ReleaseIInv
  BY InitRelease, NextRelease, PTL DEF Spec
<1>2. ASSUME ReleaseIInv PROVE ReleasedIsStored
  <2>1. CASE Orderly
    BY <1>2, <2>1 DEF ReleaseIInv, ReleasedIsStored
  <2>2. ASSUME \A m \in published : published = {m} PROVE ReleasedAfterStore
    <3> SUFFICES ASSUME NEW m \in released PROVE PayloadOf[m] \in Stored
      BY DEF ReleasedAfterStore
    <3>1. m \in published /\ published = {m} /\ pubacked # {}
      BY <1>2, <2>2 DEF ReleaseIInv, SoleInv
    <3>2. PICK d \in pubacked : d \in Known /\ packet[d].payload \in Stored
      BY <1>2, <3>1 DEF ReleaseIInv, IInv, SafeInv, AcksSafe, AckAfterStore
    <3>3. packet[d].payload = PayloadOf[m]
      BY <1>2, <3>1, <3>2 DEF ReleaseIInv, SoleInv
    <3> QED
      BY <3>2, <3>3
  <2> QED
    BY <2>1, <2>2 DEF ReleasedIsStored
<1> QED
  BY <1>1, <1>2, PTL
=============================================================================
