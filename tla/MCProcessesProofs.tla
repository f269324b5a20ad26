-------------------------- MODULE MCProcessesProofs --------------------------
(***************************************************************************)
(* Proofs about the parts of MCProcesses.  ServerProcess, for every set of *)
(* requests: no thread works with a store that is closed, and a process    *)
(* that ended left nothing.  Maintenance, for any number of helpers,       *)
(* databases, backups and setbacks: a backup with a manifest is of one     *)
(* moment, so is what a restore drill reports as verified, and the start   *)
(* of a service that is down because of a backup is marked on disk or was  *)
(* asked of systemd.  Model inputs and waveform requests, for any devices, *)
(* models and bounds; and that the properties the run checks under one     *)
(* name hold of every behaviour of any stage.                              *)
(***************************************************************************)
EXTENDS MCProcesses, DeviceProofs

(* The server process.  The invariant says which stores are open and which *)
(* threads are off at each step of the opening and the closing; that nobody *)
(* is left who uses the store closed next is read off the two tables, Uses *)
(* and Closing.                                                            *)

AllStores == {"runtime", "socket", "snapshots", "history", "inference", "windows", "raw",
           "analysis", "quality", "alerts"}
AllOff == \A a \in Actors : actor[a] = "off"

ServerTypeOK ==
  /\ lifetime \in {"opening", "serving", "closing", "ended"}
  /\ step \in Nat /\ inferring \in BOOLEAN /\ fence \in BOOLEAN
  /\ open \subseteq AllStores /\ waiting \subseteq Requests /\ told \subseteq Threads
  /\ actor \in [Actors -> {"off", "idle", "busy"}]

(* The stores that are open before the k-th step of the opening, and those *)
(* that are left before the k-th step of the closing.                      *)
Opened(k) == {s \in AllStores : Wanted(s) /\ \E i \in 1..10 : i < k /\ s = Opening[i]}
Remaining(k) ==
  {s \in AllStores : Wanted(s) /\ \A j \in 1..13 : j < k => s \notin Closing[j].closes}

OpeningInv ==
  lifetime = "opening" =>
    /\ step \in 1..15 /\ ~fence /\ waiting = {}
    /\ open = Opened(step)
    /\ \A r \in Requests : actor[r] = "off"
    /\ step <= 10 => AllOff
ServingInv == lifetime = "serving" => ~fence /\ open = Remaining(1)
ClosingInv ==
  lifetime = "closing" =>
    /\ step \in 1..13 /\ fence
    /\ open \subseteq Remaining(step) /\ (AllOff \/ open = Remaining(step))
    /\ \A j \in 1..13 : j < step => \A a \in Closing[j].waits : actor[a] = "off"
EndedInv == lifetime = "ended" => open = {} /\ AllOff /\ (fence \/ waiting = {})
InferenceInv == actor["inference"] # "off" => inferring

ServerIInv ==
  ServerTypeOK /\ OpeningInv /\ ServingInv /\ ClosingInv /\ EndedInv /\ InferenceInv

-----------------------------------------------------------------------------
(* The tables                                                              *)

LEMMA OpeningTable ==
  /\ Len(Opening) = 10 /\ \A i \in 1..10 : Opening[i] \in AllStores
  /\ Opening[1] = "runtime" /\ Opening[2] = "socket"
  /\ \A s \in AllStores : \E i \in 1..10 : s = Opening[i]
<1>1. /\ Opening[1] = "runtime" /\ Opening[2] = "socket" /\ Opening[3] = "snapshots"
      /\ Opening[4] = "history" /\ Opening[5] = "inference" /\ Opening[6] = "windows"
      /\ Opening[7] = "raw" /\ Opening[8] = "analysis" /\ Opening[9] = "quality"
      /\ Opening[10] = "alerts" /\ Len(Opening) = 10
  BY DEF Opening
<1>2. \A i \in 1..10 : i \in {1, 2, 3, 4, 5, 6, 7, 8, 9, 10}
  OBVIOUS
<1>3. \A i \in 1..10 : Opening[i] \in AllStores
  <2> TAKE i \in 1..10
  <2> QED
    BY <1>1, <1>2 DEF AllStores
<1>4. \A s \in AllStores : \E i \in 1..10 : s = Opening[i]
  BY <1>1 DEF AllStores
<1> QED
  BY <1>1, <1>3, <1>4

LEMMA StartingTable ==
  /\ Len(Starting) = 5
  /\ \A i \in 1..5 : Starting[i] \in Threads
<1>1. /\ Starting[1] = "inference" /\ Starting[2] = "windows" /\ Starting[3] = "snapshots"
      /\ Starting[4] = "alert" /\ Starting[5] = "retention" /\ Len(Starting) = 5
  BY DEF Starting
<1>2. \A i \in 1..5 : i \in {1, 2, 3, 4, 5}
  OBVIOUS
<1> QED
  BY <1>1, <1>2 DEF Threads

LEMMA ClosingTable ==
  /\ Len(Closing) = 13
  /\ Closing[1] = Quiet({"retention"}, {}) /\ Closing[2] = Quiet({"alert"}, {})
  /\ Closing[3] = Quiet({}, {"socket"}) /\ Closing[4] = Quiet(Requests, {})
  /\ Closing[5] = Quiet({"delivery"}, {"alerts"})
  /\ Closing[6] = Quiet({"windows"}, {"windows"}) /\ Closing[7] = Quiet({}, {"raw"})
  /\ Closing[8] = Quiet({"snapshots"}, {"snapshots"})
  /\ Closing[9] = Quiet({"inference"}, {"inference"})
  /\ Closing[10] = Quiet({}, {"history"}) /\ Closing[11] = Quiet({}, {"quality"})
  /\ Closing[12] = Quiet({}, {"analysis"}) /\ Closing[13] = Quiet({}, {"runtime"})
BY DEF Closing

LEMMA ThirteenSteps ==
  ASSUME NEW j \in 1..13
  PROVE  j \in {1, 2, 3, 4, 5, 6, 7, 8, 9, 10, 11, 12, 13}
OBVIOUS

(* What the threads use.                                                   *)
LEMMA UsesTable ==
  /\ \A a \in Actors : Uses(a) \subseteq AllStores \ {"socket"}
  /\ \A a \in Actors : "inference" \in Uses(a) => inferring \/ a = "inference"
  /\ Uses("alert") = {"runtime", "snapshots", "alerts"}
  /\ Uses("delivery") = {"runtime", "alerts", "raw", "snapshots"}
  /\ Uses("windows") = {"windows", "runtime"}
  /\ Uses("snapshots") = {"snapshots", "runtime"}
  /\ Uses("inference") = {"inference"}
  /\ Uses("retention") \subseteq {"runtime", "quality", "analysis", "windows", "raw", "inference"}
<1>1. /\ Uses("alert") = {"runtime", "snapshots", "alerts"}
      /\ Uses("delivery") = {"runtime", "alerts", "raw", "snapshots"}
      /\ Uses("windows") = {"windows", "runtime"}
      /\ Uses("snapshots") = {"snapshots", "runtime"}
      /\ Uses("inference") = {"inference"}
  BY DEF Uses
<1>2. /\ Uses("retention") \subseteq
           {"runtime", "quality", "analysis", "windows", "raw", "inference"}
      /\ "inference" \in Uses("retention") => inferring
  BY DEF Uses
<1>3. ASSUME NEW r \in Requests
      PROVE  Uses(r) \subseteq AllStores \ {"socket"} /\ ("inference" \in Uses(r) => inferring)
  <2>1. Uses(r) = {"runtime", "history", "quality", "analysis", "windows", "raw",
                   "snapshots", "alerts"} \cup (IF inferring THEN {"inference"} ELSE {})
    BY RequestsAreNoWorkers DEF Uses, Threads
  <2> QED
    BY <2>1 DEF AllStores
<1> QED
  BY <1>1, <1>2, <1>3 DEF Actors, Threads, AllStores

(* Whoever uses a store is waited for before the store is closed.          *)
LEMMA UsersAreAwaited ==
  ASSUME NEW j \in 1..13, NEW a \in Actors, NEW s \in Closing[j].closes, s \in Uses(a)
  PROVE  \E i \in 1..13 : i <= j /\ a \in Closing[i].waits
<1>1. a \in Requests \cup {"retention", "alert", "windows", "snapshots", "inference", "delivery"}
  BY DEF Actors, Threads
<1>2. /\ Closing[1].waits = {"retention"} /\ Closing[2].waits = {"alert"}
      /\ Closing[4].waits = Requests /\ Closing[5].waits = {"delivery"}
      /\ Closing[6].waits = {"windows"} /\ Closing[8].waits = {"snapshots"}
      /\ Closing[9].waits = {"inference"}
  BY ClosingTable DEF Quiet
<1>3. /\ Closing[1].closes = {} /\ Closing[2].closes = {} /\ Closing[3].closes = {"socket"}
      /\ Closing[4].closes = {} /\ Closing[5].closes = {"alerts"}
      /\ Closing[6].closes = {"windows"} /\ Closing[7].closes = {"raw"}
      /\ Closing[8].closes = {"snapshots"} /\ Closing[9].closes = {"inference"}
      /\ Closing[10].closes = {"history"} /\ Closing[11].closes = {"quality"}
      /\ Closing[12].closes = {"analysis"} /\ Closing[13].closes = {"runtime"}
  BY ClosingTable DEF Quiet
<1>4. s # "socket" /\ j > 4
  BY <1>3, ThirteenSteps, UsesTable
<1>5. CASE a \in Requests
  BY <1>2, <1>4, <1>5
<1>6. CASE a = "retention"
  BY <1>2, <1>4, <1>6
<1>7. CASE a = "alert"
  BY <1>2, <1>4, <1>7
<1>8. CASE a = "delivery"
  BY <1>2, <1>4, <1>8
<1>9. CASE a = "windows"
  <2>1. j >= 6
    BY <1>3, <1>4, <1>9, ThirteenSteps, UsesTable
  <2> QED
    BY <1>2, <1>9, <2>1
<1>10. CASE a = "snapshots"
  <2>1. j >= 8
    BY <1>3, <1>4, <1>10, ThirteenSteps, UsesTable
  <2> QED
    BY <1>2, <1>10, <2>1
<1>11. CASE a = "inference"
  <2>1. j >= 9
    BY <1>3, <1>4, <1>11, ThirteenSteps, UsesTable
  <2> QED
    BY <1>2, <1>11, <2>1
<1> QED
  BY <1>1, <1>5, <1>6, <1>7, <1>8, <1>9, <1>10, <1>11

(* Every store is closed, and every thread waited for, before the end.     *)
LEMMA AllIsClosed ==
  /\ \A s \in AllStores : \E j \in 1..13 : s \in Closing[j].closes
  /\ \A a \in Actors : \E j \in 1..13 : a \in Closing[j].waits
  /\ \A j \in 1..13 : Closing[j].closes \subseteq AllStores /\ Closing[j].waits \subseteq Actors
<1>1. /\ Closing[3].closes = {"socket"} /\ Closing[5].closes = {"alerts"}
      /\ Closing[6].closes = {"windows"} /\ Closing[7].closes = {"raw"}
      /\ Closing[8].closes = {"snapshots"} /\ Closing[9].closes = {"inference"}
      /\ Closing[10].closes = {"history"} /\ Closing[11].closes = {"quality"}
      /\ Closing[12].closes = {"analysis"} /\ Closing[13].closes = {"runtime"}
  BY ClosingTable DEF Quiet
<1>2. /\ Closing[1].waits = {"retention"} /\ Closing[2].waits = {"alert"}
      /\ Closing[4].waits = Requests /\ Closing[5].waits = {"delivery"}
      /\ Closing[6].waits = {"windows"} /\ Closing[8].waits = {"snapshots"}
      /\ Closing[9].waits = {"inference"}
  BY ClosingTable DEF Quiet
<1>3. \A s \in AllStores : \E j \in 1..13 : s \in Closing[j].closes
  BY <1>1 DEF AllStores
<1>4. \A a \in Actors : \E j \in 1..13 : a \in Closing[j].waits
  BY <1>2 DEF Actors, Threads
<1>5. ASSUME NEW j \in 1..13
      PROVE  Closing[j].closes \subseteq AllStores /\ Closing[j].waits \subseteq Actors
  <2> USE ClosingTable DEF Quiet, AllStores, Actors, Threads
  <2>1. CASE j \in {1, 2, 3, 4, 5}
    BY <2>1
  <2>2. CASE j \in {6, 7, 8, 9}
    BY <2>2
  <2>3. CASE j \in {10, 11, 12, 13}
    BY <2>3
  <2> QED
    BY <2>1, <2>2, <2>3, ThirteenSteps
<1> QED
  BY <1>3, <1>4, <1>5

-----------------------------------------------------------------------------
(* The stores                                                              *)

LEMMA OpenedAll == \A k \in Nat : k > 10 => Opened(k) = Remaining(1)
<1> TAKE k \in Nat
<1> HAVE k > 10
<1>1. \A s \in AllStores : \E i \in 1..10 : i < k /\ s = Opening[i]
  BY OpeningTable
<1>2. \A j \in 1..13 : ~(j < 1)
  OBVIOUS
<1> QED
  BY <1>1, <1>2 DEF Opened, Remaining

(* The closing step in turn takes its stores off those that remain.        *)
LEMMA RemainingNext ==
  ASSUME NEW k \in 1..13
  PROVE  Remaining(k + 1) = Remaining(k) \ Closing[k].closes
<1>1. \A j \in 1..13 : j < k + 1 <=> j < k \/ j = k
  OBVIOUS
<1> QED
  BY <1>1 DEF Remaining

(* Whoever has not been waited for finds what it uses among what remains.  *)
LEMMA UsesRemain ==
  ASSUME InferenceInv, NEW k \in 1..13, NEW a \in Actors, actor[a] # "off",
         \A j \in 1..13 : j < k => \A b \in Closing[j].waits : actor[b] = "off"
  PROVE  Uses(a) \subseteq Remaining(k)
<1> SUFFICES ASSUME NEW s \in Uses(a) PROVE s \in Remaining(k)
  OBVIOUS
<1>1. s \in AllStores /\ Wanted(s)
  BY UsesTable DEF InferenceInv, Wanted
<1>2. ASSUME NEW j \in 1..13, j < k, s \in Closing[j].closes PROVE FALSE
  <2>1. PICK i \in 1..13 : i <= j /\ a \in Closing[i].waits
    BY <1>2, UsersAreAwaited
  <2>2. i < k
    BY <1>2, <2>1
  <2> QED
    BY <2>1, <2>2
<1> QED
  BY <1>1, <1>2 DEF Remaining

LEMMA InvHolds == ServerIInv => ServerHolds
<1> SUFFICES ASSUME ServerIInv PROVE ServerHolds
  OBVIOUS
<1> USE DEF ServerIInv
<1>1. UsesAreOpen
  <2> SUFFICES ASSUME NEW a \in Actors, actor[a] = "busy" PROVE Uses(a) \subseteq open
    BY DEF UsesAreOpen
  <2>1. CASE lifetime = "opening"
    <3>1. step > 10 /\ step \in Nat
      BY <2>1 DEF OpeningInv, AllOff, ServerTypeOK
    <3>2. open = Remaining(1)
      BY <2>1, <3>1, OpenedAll DEF OpeningInv
    <3>3. Uses(a) \subseteq Remaining(1)
      BY UsesRemain
    <3> QED
      BY <3>2, <3>3
  <2>2. CASE lifetime = "serving"
    BY <2>2, UsesRemain DEF ServingInv
  <2>3. CASE lifetime = "closing"
    <3>1. Uses(a) \subseteq Remaining(step)
      BY <2>3, UsesRemain DEF ClosingInv
    <3> QED
      BY <2>3, <3>1 DEF ClosingInv, AllOff
  <2>4. CASE lifetime = "ended"
    BY <2>4 DEF EndedInv, AllOff
  <2> QED
    BY <2>1, <2>2, <2>3, <2>4 DEF ServerTypeOK
<1>2. EndsClean
  BY DEF EndsClean, EndedInv, AllOff
<1> QED
  BY <1>1, <1>2 DEF ServerHolds
-----------------------------------------------------------------------------
(* The steps                                                               *)

LEMMA ServerInitially == ServerInit => ServerIInv
<1> SUFFICES ASSUME ServerInit PROVE ServerIInv
  OBVIOUS
<1>1. Opened(1) = {}
  BY DEF Opened
<1>2. ServerTypeOK /\ AllOff
  BY DEF ServerInit, ServerTypeOK, AllOff
<1>3. OpeningInv
  BY <1>1, <1>2 DEF ServerInit, OpeningInv, AllOff, Actors
<1>4. InferenceInv
  BY <1>2 DEF AllOff, InferenceInv, Actors, Threads
<1> QED
  BY <1>2, <1>3, <1>4 DEF ServerInit, ServerIInv, ServingInv, ClosingInv, EndedInv

LEMMA OpenNextInv == ASSUME ServerIInv, OpenNext PROVE ServerIInv'
<1> USE DEF ServerIInv, OpenNext
<1>1. /\ step \in 1..10 /\ open = Opened(step) /\ AllOff /\ ~fence /\ waiting = {}
      /\ Opening[step] \in AllStores
  BY OpeningTable DEF OpeningInv
<1>2. open' = Opened(step)'
  <2>1. step' = step + 1 /\ \A i \in 1..10 : i < step + 1 <=> i < step \/ i = step
    BY <1>1
  <2>2. \A s : Wanted(s)' = Wanted(s)
    BY DEF Wanted
  <2>3. open' = Opened(step) \cup {s \in {Opening[step]} : Wanted(s)}
    BY <1>1
  <2>4. open' = {s \in AllStores : Wanted(s) /\ \E i \in 1..10 : i < step + 1 /\ s = Opening[i]}
    BY <1>1, <2>1, <2>3 DEF Opened
  <2> QED
    BY <2>1, <2>2, <2>4 DEF Opened
<1>3. OpeningInv'
  BY <1>1, <1>2 DEF OpeningInv, AllOff
<1>4. ServerTypeOK' /\ InferenceInv'
  BY <1>1 DEF ServerTypeOK, InferenceInv
<1> QED
  BY <1>3, <1>4 DEF ServingInv, ClosingInv, EndedInv

LEMMA StartNextInv == ASSUME ServerIInv, StartNext PROVE ServerIInv'
<1> USE DEF ServerIInv, StartNext
<1>1. /\ step \in 11..15 /\ open = Opened(step) /\ ~fence /\ waiting = {}
      /\ \A r \in Requests : actor[r] = "off"
  BY OpeningTable DEF OpeningInv
<1>2. PICK t \in Threads : actor' = IF Wanted(t) THEN [actor EXCEPT ![t] = "idle"] ELSE actor
  <2>1. step - 10 \in 1..5
    BY <1>1
  <2> QED
    BY <2>1, OpeningTable, StartingTable
<1>3. /\ actor' \in [Actors -> {"off", "idle", "busy"}]
      /\ \A r \in Requests : actor'[r] = "off"
      /\ InferenceInv'
  <2>1. /\ t \in Actors /\ \A r \in Requests : r # t /\ r \in Actors
        /\ actor \in [Actors -> {"off", "idle", "busy"}] /\ inferring' = inferring
    BY RequestsAreNoWorkers DEF ServerTypeOK, Actors
  <2>2. CASE Wanted(t)
    <3>1. actor' = [actor EXCEPT ![t] = "idle"]
      BY <1>2, <2>2
    <3>2. InferenceInv'
      BY <2>1, <2>2, <3>1 DEF InferenceInv, Wanted
    <3> QED
      BY <1>1, <2>1, <3>1, <3>2
  <2>3. CASE ~Wanted(t)
    <3>1. actor' = actor
      BY <1>2, <2>3
    <3>2. InferenceInv'
      BY <3>1 DEF InferenceInv, ServerTypeOK
    <3> QED
      BY <1>1, <2>1, <3>1, <3>2
  <2> QED
    BY <2>2, <2>3
<1>4. \/ lifetime' = "serving" /\ step' = 0
      \/ lifetime' = "opening" /\ step' = step + 1 /\ step + 1 \in 11..15
  <2>1. IF step - 10 = 5 THEN lifetime' = "serving" /\ step' = 0
        ELSE step' = step + 1 /\ lifetime' = "opening"
    BY OpeningTable, StartingTable
  <2> QED
    BY <1>1, <2>1
<1>5. ServerTypeOK'
  BY <1>1, <1>3, <1>4 DEF ServerTypeOK
<1>6. /\ open' = Remaining(1)' /\ \A n \in Nat : n > 10 => Opened(n)' = Remaining(1)'
  <2>1. open = Remaining(1)
    BY <1>1, OpenedAll
  <2>2. Remaining(1)' = Remaining(1) /\ \A n : Opened(n)' = Opened(n)
    BY DEF Remaining, Opened, Wanted
  <2> QED
    BY <2>1, <2>2, OpenedAll
<1>7. OpeningInv' /\ ServingInv'
  BY SMTT(60), <1>1, <1>3, <1>4, <1>6 DEF OpeningInv, ServingInv
<1> QED
  BY <1>3, <1>4, <1>5, <1>7 DEF ClosingInv, EndedInv

LEMMA OpeningFailsInv == ASSUME ServerIInv, OpeningFails PROVE ServerIInv'
<1> USE DEF ServerIInv, OpeningFails
<1>1. /\ step \in 1..15 /\ ~fence /\ waiting = {} /\ open = Opened(step)
      /\ step <= 10 => AllOff
  BY DEF OpeningInv
<1>2. AllOff' = AllOff /\ Remaining(1)' = Remaining(1)
  BY DEF AllOff, Remaining, Wanted
<1>3. open \subseteq Remaining(1) /\ (step > 10 => open = Remaining(1))
  <2>1. Opened(step) \subseteq Remaining(1)
    <3>1. \A j \in 1..13 : ~(j < 1)
      OBVIOUS
    <3> QED
      BY <3>1 DEF Opened, Remaining
  <2> QED
    BY <1>1, <2>1, OpenedAll
<1>4. CASE "socket" \in open
  <2>1. ClosingInv'
    BY <1>1, <1>2, <1>3, <1>4 DEF ClosingInv
  <2> QED
    BY <1>1, <1>4, <2>1 DEF ServerTypeOK, OpeningInv, ServingInv, EndedInv, InferenceInv
<1>5. CASE "socket" \notin open
  <2>1. AllOff
    <3>1. Remaining(1) = {s \in AllStores : Wanted(s)}
      BY DEF Remaining
    <3>2. "socket" \in Remaining(1)
      BY <3>1 DEF AllStores, Wanted
    <3> QED
      BY <1>1, <1>3, <1>5, <3>2
  <2>2. EndedInv'
    BY <1>1, <1>2, <1>5, <2>1 DEF EndedInv
  <2> QED
    BY <1>5, <2>2 DEF ServerTypeOK, OpeningInv, ServingInv, ClosingInv, InferenceInv, AllStores
<1> QED
  BY <1>4, <1>5

(* A step of a request or a worker changes neither the stores nor how far  *)
(* the process is; nobody who was waited for comes back.                   *)
LEMMA ThreadStep ==
  ASSUME ServerIInv, UNCHANGED <<lifetime, step, inferring, open, fence, told>>,
         actor' \in [Actors -> {"off", "idle", "busy"}], waiting' \subseteq Requests,
         (~fence /\ lifetime = "serving") \/
           \A a \in Actors : actor[a] = "off" => actor'[a] = "off",
         lifetime \notin {"serving", "closing"} => waiting' \subseteq waiting,
         actor'["inference"] # "off" => actor["inference"] # "off"
  PROVE  ServerIInv'
<1> USE DEF ServerIInv
<1>1. ServerTypeOK' /\ InferenceInv' /\ ServingInv'
  <2>1. Remaining(1)' = Remaining(1)
    BY DEF Remaining, Wanted
  <2> QED
    BY <2>1 DEF ServerTypeOK, InferenceInv, ServingInv
<1>2. CASE lifetime = "serving"
  BY <1>1, <1>2 DEF OpeningInv, ClosingInv, EndedInv
<1>3. CASE lifetime # "serving"
  <2>1. \A a \in Actors : actor[a] = "off" => actor'[a] = "off"
    BY <1>3
  <2>2. AllOff => AllOff'
    BY <2>1 DEF AllOff
  <2>3. Opened(step)' = Opened(step) /\ Remaining(step)' = Remaining(step)
    BY DEF Opened, Remaining, Wanted
  <2>4. OpeningInv'
    BY <2>1, <2>2, <2>3 DEF OpeningInv, Actors
  <2>5. ClosingInv'
    BY <2>1, <2>2, <2>3, AllIsClosed DEF ClosingInv
  <2>6. EndedInv'
    BY <2>2 DEF EndedInv
  <2> QED
    BY <1>1, <2>4, <2>5, <2>6
<1> QED
  BY <1>2, <1>3

LEMMA HandlerInv ==
  ASSUME ServerIInv, NEW r \in Requests, Accept(r) \/ ProcessRequest(r)
  PROVE  ServerIInv'
<1> USE DEF ServerIInv
<1>1. /\ r \in Actors /\ r # "inference" /\ actor \in [Actors -> {"off", "idle", "busy"}]
      /\ waiting \subseteq Requests /\ "inference" \in Actors
  BY RequestsAreNoWorkers DEF ServerTypeOK, Actors, Threads
<1>2. CASE Accept(r)
  BY <1>1, <1>2, ThreadStep DEF Accept
<1>3. CASE ProcessRequest(r)
  <2>1. CASE fence
    <3>1. actor' = actor /\ waiting' \subseteq waiting
      BY <1>3, <2>1 DEF ProcessRequest, Admitted
    <3> QED
      BY <1>1, <1>3, <3>1, ThreadStep DEF ProcessRequest
  <2>2. CASE ~fence
    <3>1. lifetime = "serving"
      BY <1>3, <2>2 DEF ProcessRequest, ServerTypeOK, OpeningInv, ClosingInv, EndedInv
    <3>2. /\ actor' = [actor EXCEPT ![r] = "idle"] /\ waiting' = waiting \ {r}
          /\ UNCHANGED <<lifetime, step, inferring, open, fence, told>>
      BY <1>3, <2>2 DEF ProcessRequest, Admitted
    <3> QED
      BY <1>1, <2>2, <3>1, <3>2, ThreadStep
  <2> QED
    BY <2>1, <2>2 DEF ServerTypeOK
<1> QED
  BY <1>2, <1>3

LEMMA WorkInv ==
  ASSUME ServerIInv, NEW a \in Actors, Begin(a) \/ EndWork(a) \/ Leave(a)
  PROVE  ServerIInv'
<1> USE DEF ServerIInv
<1>1. /\ actor \in [Actors -> {"off", "idle", "busy"}] /\ waiting \subseteq Requests
      /\ "inference" \in Actors
  BY DEF ServerTypeOK, Actors, Threads
<1>2. PICK to \in {"off", "idle", "busy"} : actor' = [actor EXCEPT ![a] = to]
  BY DEF Begin, EndWork, Leave
<1>3. actor[a] # "off"
  BY DEF Begin, EndWork, Leave
<1>4. UNCHANGED <<lifetime, step, inferring, open, fence, waiting, told>>
  BY DEF Begin, EndWork, Leave
<1> QED
  BY <1>1, <1>2, <1>3, <1>4, ThreadStep

(* A delivery is handed over by an alert tick, which finds all stores open, *)
(* and is waited for after it.                                             *)
LEMMA DeliverInv == ASSUME ServerIInv, Deliver PROVE ServerIInv'
<1> USE DEF ServerIInv
<1>1. /\ actor \in [Actors -> {"off", "idle", "busy"}] /\ waiting \subseteq Requests
      /\ "inference" \in Actors /\ "alert" \in Actors /\ "delivery" \in Actors
      /\ "delivery" \notin Requests
  BY RequestsAreNoWorkers DEF ServerTypeOK, Actors, Threads
<1>2. /\ actor' = [actor EXCEPT !["delivery"] = "busy"] /\ actor["alert"] = "busy"
      /\ UNCHANGED <<lifetime, step, inferring, open, fence, waiting, told>>
  BY DEF Deliver
<1>3. ServerTypeOK' /\ InferenceInv' /\ ~AllOff
  BY <1>1, <1>2 DEF ServerTypeOK, InferenceInv, AllOff
<1>4. Opened(step)' = Opened(step) /\ Remaining(step)' = Remaining(step)
      /\ Remaining(1)' = Remaining(1)
  BY <1>2 DEF Opened, Remaining, Wanted
<1>5. OpeningInv' /\ ServingInv'
  BY <1>1, <1>2, <1>3, <1>4 DEF OpeningInv, ServingInv, Actors
<1>6. EndedInv'
  BY <1>2, <1>3 DEF EndedInv
<1>7. ClosingInv'
  <2> SUFFICES ASSUME lifetime = "closing" PROVE ClosingInv'
    BY <1>2 DEF ClosingInv
  <2>1. step <= 2
    <3>1. Closing[2].waits = {"alert"}
      BY ClosingTable DEF Quiet
    <3> QED
      BY <1>2, <3>1 DEF ClosingInv
  <2>2. Closing[1].waits = {"retention"}
    BY ClosingTable DEF Quiet
  <2>3. \A j \in 1..13 : j < step => \A a \in Closing[j].waits : actor'[a] = "off"
    <3>1. \A j \in 1..13 : j < step => j = 1
      BY <2>1 DEF ClosingInv
    <3> QED
      BY <1>1, <1>2, <2>2, <3>1 DEF ClosingInv, Actors, Threads
  <2> QED
    BY <1>2, <1>3, <1>4, <2>3 DEF ClosingInv
<1> QED
  BY <1>3, <1>5, <1>6, <1>7

LEMMA TerminateInv == ASSUME ServerIInv, Terminate PROVE ServerIInv'
<1> USE DEF ServerIInv, Terminate
<1>1. Remaining(step)' = Remaining(1)
  BY DEF Remaining, Wanted
<1> QED
  BY <1>1 DEF ServerTypeOK, OpeningInv, ServingInv, ClosingInv, EndedInv, InferenceInv

LEMMA TellNextInv == ASSUME ServerIInv, TellNext PROVE ServerIInv'
<1> USE DEF ServerIInv, TellNext
<1>1. Remaining(step)' = Remaining(step) /\ AllOff' = AllOff
  BY DEF Remaining, Wanted, AllOff
<1>2. ServerTypeOK' /\ InferenceInv'
  BY DEF ServerTypeOK, InferenceInv, Stopped
<1> QED
  BY <1>1, <1>2 DEF OpeningInv, ServingInv, ClosingInv, EndedInv

(* The last step has waited for everybody and closes what remains.         *)
LEMMA CloseNextInv == ASSUME ServerIInv, CloseNext PROVE ServerIInv'
<1> USE DEF ServerIInv, CloseNext
<1>1. PICK k \in 1..13 : k = step
  BY DEF ClosingInv
<1>2. /\ open \subseteq Remaining(k) /\ (AllOff \/ open = Remaining(k)) /\ fence
      /\ \A j \in 1..13 : j < k => \A a \in Closing[j].waits : actor[a] = "off"
      /\ open' = open \ Closing[k].closes
      /\ \A a \in Closing[k].waits : actor[a] = "off"
  BY <1>1 DEF ClosingInv
<1>3. open' \subseteq Remaining(k + 1) /\ (AllOff \/ open' = Remaining(k + 1))
  BY <1>2, RemainingNext
<1>4. \A j \in 1..13 : j < k + 1 => \A a \in Closing[j].waits : actor[a] = "off"
  BY <1>2
<1>5. AllOff' = AllOff /\ \A n : Remaining(n)' = Remaining(n)
  BY DEF AllOff, Remaining, Wanted
<1>6. ServerTypeOK' /\ InferenceInv'
  BY <1>1, ClosingTable DEF ServerTypeOK, InferenceInv
<1>7. CASE k = 13
  <2>1. Remaining(14) = {}
    BY AllIsClosed DEF Remaining
  <2>2. open' = {} /\ AllOff /\ lifetime' = "ended"
    BY <1>1, <1>3, <1>4, <1>7, <2>1, AllIsClosed, ClosingTable DEF AllOff
  <2> QED
    BY <1>2, <1>5, <1>6, <2>2 DEF OpeningInv, ServingInv, ClosingInv, EndedInv
<1>8. CASE k # 13
  <2>1. lifetime' = "closing" /\ step' = k + 1 /\ k + 1 \in 1..13
    BY <1>1, <1>8, ClosingTable
  <2> QED
    BY <1>2, <1>3, <1>4, <1>5, <1>6, <2>1 DEF OpeningInv, ServingInv, ClosingInv, EndedInv
<1> QED
  BY <1>7, <1>8
-----------------------------------------------------------------------------
LEMMA ServerStep == ServerIInv /\ [ServerNext]_serverVars => ServerIInv'
<1> SUFFICES ASSUME ServerIInv, [ServerNext]_serverVars PROVE ServerIInv'
  OBVIOUS
<1>1. CASE UNCHANGED serverVars
  BY <1>1 DEF serverVars, ServerIInv, ServerTypeOK, OpeningInv, ServingInv, ClosingInv,
              EndedInv, InferenceInv, AllOff, Opened, Remaining, Wanted
<1>2. CASE ServerNext
  BY <1>2, OpenNextInv, StartNextInv, OpeningFailsInv, HandlerInv, WorkInv, DeliverInv,
     TerminateInv, TellNextInv, CloseNextInv DEF ServerNext
<1> QED
  BY <1>1, <1>2

(* The inductive invariant: which stores are open and which threads are off *)
(* at every step of the opening and the closing.                           *)
THEOREM ServerInvariance == ServerSpec => []ServerIInv
BY ServerInitially, ServerStep, PTL DEF ServerSpec

(* Whenever the creation fails and whenever SIGTERM comes, no request, no  *)
(* worker and no delivery works with a store that has been closed, and a   *)
(* process that has ended has left no store open and no thread running.    *)
THEOREM ServerIsHeld == ServerSpec => []ServerHolds
BY ServerInvariance, InvHolds, PTL

-----------------------------------------------------------------------------
(* Backups and restore drills.                                             *)

Resting == {"idle", "killed"}
Copying == {"check", "copy", "recheck"}
Locked == {"locked", "marked", "stopped", "restart", "unmark"} \cup Copying
Pcs == Locked \cup Resting \cup {"found", "post", "resuming", "unlinking"}

Starts == {"none", "queued", "failed"}

Content == Nat \cup {Decayed}
Folder == [files : Seq(Content), manifest : Seq(Content) \cup {Nothing}, of : [1..Stores -> Nat]]
Drill == [source : Nat, files : Seq(Content)]

MaintenanceTypeOK ==
  /\ apart \in BOOLEAN /\ service \in {"active", "inactive"} /\ start \in Starts
  /\ databases \in [1..Stores -> Nat]
  /\ lock \in Helpers \cup {NoOne} /\ marker \in Helpers \cup {NoOne}
  /\ pc \in [Helpers -> Pcs] /\ folder \in [Helpers -> Nat]
  /\ backups \in Seq(Folder)
  /\ drill \in Drill /\ restored \subseteq Drill
  /\ setbacks \in Nat

(* From the lock to its release a helper holds it.                         *)
LockInv == \A h \in Helpers : pc[h] \in Locked => lock = h

(* The folder that is filled: the databases do not change while the service *)
(* is down, and only the last copy may be of another moment, until it is   *)
(* looked whether the service is down still.                               *)
Alike(b) == \A d \in 1..Len(b.files) : b.files[d] = b.of[d]
Filling(h, b) ==
  /\ b.manifest = Nothing /\ Len(b.files) <= Stores
  /\ pc[h] = "copy" => Len(b.files) < Stores
  /\ service = "inactive" => databases = b.of
  /\ pc[h] # "recheck" \/ service = "inactive" => Alike(b)
FolderInv ==
  \A h \in Helpers : pc[h] \in Copying =>
    folder[h] \in DOMAIN backups /\ Filling(h, backups[folder[h]])

(* A backup with its manifest, and the drills of it.                       *)
Complete(b) == b.manifest # Nothing
ManifestInv ==
  \A b \in DOMAIN backups : Complete(backups[b]) =>
    backups[b].manifest = backups[b].of /\ Len(backups[b].files) = Stores
DrillInv ==
  /\ drill # NoDrill => drill.source \in DOMAIN backups /\ Complete(backups[drill.source])
  /\ \A result \in restored :
       result.source \in DOMAIN backups /\ result.files = backups[result.source].of

(* Backups that are kept apart, and the restart that is owed: it is marked, *)
(* or systemd was asked for it, before the marker goes.                    *)
ApartInv ==
  apart => \A g, h \in Helpers : g # h => pc[g] \in Resting \/ pc[h] \in Resting
MarkerInv ==
  apart =>
    /\ service = "inactive" => marker # NoOne \/ start # "none"
    /\ \A h \in Helpers :
         /\ pc[h] = "marked" => marker # NoOne
         /\ pc[h] = "unmark" => service = "active"
         /\ pc[h] = "unlinking" => service = "active" \/ start # "none"

MaintenanceIInv ==
  /\ MaintenanceTypeOK /\ LockInv /\ FolderInv
  /\ ManifestInv /\ DrillInv /\ ApartInv /\ MarkerInv

-----------------------------------------------------------------------------
(* The control of the helpers                                              *)

LEMMA NoOneIsNoHelper == NoOne \notin Helpers
BY MaintenanceConstants DEF Helpers

LEMMA OneLocked ==
  ASSUME LockInv, NEW g \in Helpers, NEW h \in Helpers, pc[g] \in Locked, pc[h] \in Locked
  PROVE  g = h
BY DEF LockInv

(* What a step of one helper may do to the lock, the service and the marker.*)
LockMoves(h, to) ==
  \/ lock' = lock /\ (to \in Locked => pc[h] \in Locked)
  \/ Release(h) /\ to \notin Locked
  \/ lock = NoOne /\ lock' = h
ServiceMoves(h, to) ==
  /\ \/ UNCHANGED <<service, start>>
     \/ service' = service /\ start' = "queued"
     \/ service' = "active" /\ start' = "none"
     \/ service' = "inactive" /\ start' = "none" /\ pc[h] = "marked" /\ marker' = marker
  /\ to = "unmark" => service' = "active"
  /\ to = "unlinking" => service' = "active" \/ start' # "none"
MarkerMoves(h, to) ==
  /\ \/ marker' = marker
     \/ marker' # NoOne
     \/ pc[h] \in {"unmark", "unlinking"} /\ to # "marked" /\ UNCHANGED <<service, start>>
  /\ to = "marked" => marker' # NoOne
Joins(h, to) == to \in Resting \/ pc[h] \notin Resting \/ (apart => Alone(h))
Moves(h, to) ==
  /\ pc' = [pc EXCEPT ![h] = to] /\ apart' = apart
  /\ LockMoves(h, to) /\ ServiceMoves(h, to) /\ MarkerMoves(h, to) /\ Joins(h, to)

LEMMA MovesInv ==
  ASSUME MaintenanceTypeOK, LockInv, ApartInv, MarkerInv,
         NEW h \in Helpers, NEW to \in Pcs, Moves(h, to)
  PROVE  LockInv' /\ ApartInv' /\ MarkerInv'
<1>1. /\ pc'[h] = to /\ \A g \in Helpers : g # h => pc'[g] = pc[g]
      /\ apart' = apart
  BY DEF Moves, MaintenanceTypeOK
<1>2. LockInv'
  <2> SUFFICES ASSUME NEW g \in Helpers, pc'[g] \in Locked PROVE lock' = g
    BY DEF LockInv
  <2>1. LockMoves(h, to)
    BY DEF Moves
  <2>2. CASE g = h
    BY <1>1, <2>1, <2>2 DEF LockMoves, LockInv
  <2>3. CASE g # h
    <3>1. lock = g /\ g # NoOne
      BY <1>1, <2>3, NoOneIsNoHelper DEF LockInv
    <3> QED
      BY <2>1, <2>3, <3>1 DEF LockMoves, Release
  <2> QED
    BY <2>2, <2>3
<1>3. ApartInv'
  <2> SUFFICES ASSUME apart, NEW g \in Helpers, NEW f \in Helpers, g # f
               PROVE  pc'[g] \in Resting \/ pc'[f] \in Resting
    BY <1>1 DEF ApartInv
  <2>1. \A e \in Helpers \ {h} : to \in Resting \/ pc[e] \in Resting
    BY DEF ApartInv, Moves, Joins, Alone, Resting
  <2> QED
    BY <1>1, <2>1 DEF ApartInv
<1>4. MarkerInv'
  <2> SUFFICES ASSUME apart PROVE MarkerInv'
    BY <1>1 DEF MarkerInv
  <2>1. ServiceMoves(h, to) /\ MarkerMoves(h, to)
    BY DEF Moves
  <2>2. \A g \in Helpers \ {h} : pc[h] \in Resting \/ pc[g] \in Resting
    BY DEF ApartInv
  <2>3. service' = "inactive" => marker' # NoOne \/ start' # "none"
    BY <2>1 DEF MarkerInv, ServiceMoves, MarkerMoves, MaintenanceTypeOK
  <2>4. \A g \in Helpers : pc'[g] = "marked" => marker' # NoOne
    BY <1>1, <2>1, <2>2 DEF MarkerInv, MarkerMoves, Resting
  <2>5. \A g \in Helpers : pc'[g] = "unmark" => service' = "active"
    BY <1>1, <2>1, <2>2 DEF MarkerInv, ServiceMoves, Resting
  <2>6. \A g \in Helpers : pc'[g] = "unlinking" => service' = "active" \/ start' # "none"
    BY <1>1, <2>1, <2>2 DEF MarkerInv, ServiceMoves, Resting
  <2> QED
    BY <2>3, <2>4, <2>5, <2>6 DEF MarkerInv
<1> QED
  BY <1>2, <1>3, <1>4

(* A step that leaves databases and backups alone and brings nobody to the *)
(* copies leaves the folders that are filled as they are: the service is   *)
(* stopped by the holder of the lock only, and that is who copies.         *)
LEMMA StillFilling ==
  ASSUME FolderInv, UNCHANGED <<databases, backups, folder>>,
         \A h \in Helpers : pc'[h] \in Copying => pc'[h] = pc[h],
         \/ service' = service \/ service' = "active" \/ \A h \in Helpers : pc[h] \notin Copying
  PROVE  FolderInv'
<1> SUFFICES ASSUME NEW h \in Helpers, pc'[h] \in Copying
             PROVE  folder[h] \in DOMAIN backups /\ Filling(h, backups[folder[h]])'
  BY DEF FolderInv
<1>1. pc'[h] = pc[h] /\ folder[h] \in DOMAIN backups /\ Filling(h, backups[folder[h]])
  BY DEF FolderInv
<1> QED
  BY <1>1 DEF Filling, Alike

LEMMA SameBackups ==
  ASSUME ManifestInv, DrillInv, UNCHANGED <<backups, drill, restored>>
  PROVE  ManifestInv' /\ DrillInv'
BY SMTT(60) DEF ManifestInv, DrillInv, Complete

(* The steps of a helper that do not copy.                                 *)
Controls(h) ==
  \/ Discover(h) \/ Lock(h) \/ Mark(h) \/ Stop(h) \/ RestartService(h) \/ Unmark(h)
  \/ CallResume(h) \/ Resume(h) \/ ResumeStart(h) \/ ResumeUnlink(h) \/ Kill(h)

LEMMA ControlsMove ==
  ASSUME MaintenanceTypeOK, LockInv, MarkerInv, NEW h \in Helpers, Controls(h)
  PROVE  /\ \E to \in Pcs \ Copying : Moves(h, to)
         /\ service' = service \/ service' = "active" \/ pc[h] = "marked"
         /\ UNCHANGED <<scene, backups, folder>>
         /\ setbacks' \in Nat
         /\ service' \in {"active", "inactive"} /\ start' \in Starts /\ lock' \in Helpers \cup {NoOne}
         /\ marker' \in Helpers \cup {NoOne}
<1> DEFINE Goal == /\ \E to \in Pcs \ Copying : Moves(h, to)
                   /\ service' = service \/ service' = "active" \/ pc[h] = "marked"
                   /\ UNCHANGED <<scene, backups, folder>>
                   /\ setbacks' \in Nat
                   /\ service' \in {"active", "inactive"} /\ start' \in Starts /\ lock' \in Helpers \cup {NoOne}
                   /\ marker' \in Helpers \cup {NoOne}
<1> USE DEF Goto, GiveUp, Release, Afterwards, Moves, LockMoves, ServiceMoves, MarkerMoves,
            Joins, Locked, Copying, Resting, Pcs, Starts, RunService, HaltService, scene
<1>0. MaintenanceTypeOK
  OBVIOUS
<1>00. (Setback => setbacks' \in Nat) /\ (NoSetback => setbacks' \in Nat)
  BY <1>0 DEF MaintenanceTypeOK, Setback, NoSetback
<1> USE <1>0, <1>00 DEF MaintenanceTypeOK
<1>1. CASE Discover(h)
  <2>1. pc[h] = "idle" /\ (apart => Alone(h))
    BY <1>1 DEF Discover
  <2>2. CASE service = "active"
    <3>1. Moves(h, "found")
      BY <1>1, <2>1, <2>2 DEF Discover
    <3> QED
      BY <1>1, <2>2, <3>1 DEF Discover
  <2>3. CASE service # "active"
    <3>1. Moves(h, Afterwards(h))
      BY <1>1, <2>1, <2>3 DEF Discover
    <3> QED
      BY <1>1, <2>3, <3>1 DEF Discover
  <2> QED
    BY <2>2, <2>3
<1>2. CASE Lock(h)
  <2>1. CASE lock = NoOne /\ service = "active"
    <3>1. Moves(h, "locked")
      BY <1>2, <2>1 DEF Lock
    <3> QED
      BY <1>2, <2>1, <3>1 DEF Lock
  <2>2. CASE ~(lock = NoOne /\ service = "active")
    <3>1. Moves(h, Afterwards(h))
      BY <1>2, <2>2 DEF Lock
    <3> QED
      BY <1>2, <2>2, <3>1 DEF Lock
  <2> QED
    BY <2>1, <2>2
<1>3. CASE Mark(h)
  <2>1. CASE marker = NoOne /\ marker' = Marked(h) /\ Goto(h, "marked") /\ NoSetback /\ lock' = lock
    <3>1. Moves(h, "marked") /\ marker' = h
      BY <1>3, <2>1, NoOneIsNoHelper DEF Mark, Marked
    <3> QED
      BY <1>3, <2>1, <3>1 DEF Mark
  <2>2. CASE GiveUp(h) /\ marker' = marker
    <3>1. Moves(h, Afterwards(h))
      BY <1>3, <2>2 DEF Mark
    <3> QED
      BY <1>3, <2>2, <3>1 DEF Mark
  <2> QED
    BY <1>3, <2>1, <2>2 DEF Mark
<1>4. CASE Stop(h)
  <2>1. CASE HaltService /\ Goto(h, "stopped") /\ NoSetback
    <3>1. Moves(h, "stopped")
      BY <1>4, <2>1 DEF Stop
    <3> QED
      BY <1>4, <2>1, <3>1 DEF Stop
  <2>2. CASE (HaltService \/ UNCHANGED <<service, start>>) /\ Goto(h, "restart") /\ Setback
    <3>1. Moves(h, "restart")
      BY <1>4, <2>2 DEF Stop
    <3> QED
      BY <1>4, <2>2, <3>1 DEF Stop
  <2> QED
    BY <1>4, <2>1, <2>2 DEF Stop
<1>5. CASE RestartService(h)
  <2>1. CASE RunService /\ Goto(h, "unmark") /\ NoSetback /\ UNCHANGED lock
    <3>1. Moves(h, "unmark")
      BY <1>5, <2>1 DEF RestartService
    <3> QED
      BY <1>5, <2>1, <3>1 DEF RestartService
  <2>2. CASE Setback /\ GiveUp(h) /\ UNCHANGED <<service, start>>
    <3>1. Moves(h, Afterwards(h))
      BY <1>5, <2>2 DEF RestartService
    <3> QED
      BY <1>5, <2>2, <3>1 DEF RestartService
  <2> QED
    BY <1>5, <2>1, <2>2 DEF RestartService
<1>6. CASE Unmark(h)
  <2>1. Moves(h, Afterwards(h))
    BY <1>6 DEF Unmark
  <2> QED
    BY <1>6, <2>1 DEF Unmark
<1>7. CASE CallResume(h)
  <2>1. Moves(h, "post")
    BY <1>7 DEF CallResume
  <2> QED
    BY <1>7, <2>1 DEF CallResume
<1>8. CASE Resume(h)
  <2>1. Moves(h, IF Unresumed(h) THEN "resuming" ELSE "idle")
    BY <1>8 DEF Resume
  <2> QED
    BY <1>8, <2>1 DEF Resume
<1>9. CASE ResumeStart(h)
  <2>1. CASE start' = "queued" /\ Goto(h, "unlinking") /\ NoSetback
    <3>1. Moves(h, "unlinking")
      BY <1>9, <2>1 DEF ResumeStart
    <3> QED
      BY <1>9, <2>1, <3>1 DEF ResumeStart
  <2>2. CASE Setback /\ Goto(h, "idle") /\ start' \in {start, "queued"}
    <3>1. Moves(h, "idle")
      BY <1>9, <2>2 DEF ResumeStart
    <3> QED
      BY <1>9, <2>2, <3>1 DEF ResumeStart
  <2> QED
    BY <1>9, <2>1, <2>2 DEF ResumeStart
<1>10. CASE ResumeUnlink(h)
  <2>1. Moves(h, "idle")
    BY <1>10 DEF ResumeUnlink
  <2> QED
    BY <1>10, <2>1 DEF ResumeUnlink
<1>11. CASE Kill(h)
  <2> DEFINE where == CASE pc[h] \in {"post", "resuming", "unlinking"} -> "idle"
                        [] h \in Units -> "post"
                        [] OTHER -> "killed"
  <2>0. where \in {"idle", "post", "killed"}
    OBVIOUS
  <2>1. PICK to \in {"idle", "post", "killed"} : pc' = [pc EXCEPT ![h] = to]
    <3>1. pc' = [pc EXCEPT ![h] = where]
      BY <1>11, Zenon DEF Kill
    <3> QED
      BY <2>0, <3>1
  <2>2. Moves(h, to)
    BY <1>11, <2>1 DEF Kill
  <2> QED
    BY <1>11, <2>2 DEF Kill
<1> QED
  BY <1>1, <1>2, <1>3, <1>4, <1>5, <1>6, <1>7, <1>8, <1>9, <1>10, <1>11 DEF Controls

-----------------------------------------------------------------------------
(* The folders                                                             *)

LEMMA ConstantsTyped == Stores \in Nat /\ Stores >= 1
BY MaintenanceConstants

LEMMA OneWritten ==
  ASSUME backups \in Seq(Folder), NEW i \in DOMAIN backups, NEW b \in Folder,
         backups' = [backups EXCEPT ![i] = b]
  PROVE  /\ backups' \in Seq(Folder) /\ DOMAIN backups' = DOMAIN backups
         /\ backups'[i] = b /\ \A j \in DOMAIN backups : j # i => backups'[j] = backups[j]
BY ExceptSeq

(* Who fills a folder is alone with it.                                    *)
LEMMA OneFills ==
  ASSUME LockInv, NEW g \in Helpers, NEW h \in Helpers, pc[h] \in Copying \cup {"stopped"},
         pc'[g] \in Copying, \A e \in Helpers : e # h => pc'[e] = pc[e]
  PROVE  g = h
BY OneLocked DEF Locked

(* A step of the helper that copies, on the folder it fills.               *)
LEMMA FillsOne ==
  ASSUME MaintenanceTypeOK, LockInv, ManifestInv, DrillInv,
         NEW h \in Helpers, pc[h] \in Copying, NEW to \in Pcs, pc' = [pc EXCEPT ![h] = to],
         NEW i \in DOMAIN backups, i = folder[h], backups[i].manifest = Nothing,
         NEW b \in Folder, b.of = backups[i].of, backups' = [backups EXCEPT ![i] = b],
         Complete(b) => b.manifest = b.of /\ Len(b.files) = Stores,
         to \in Copying => Filling(h, b)',
         UNCHANGED <<folder, drill, restored>>
  PROVE  backups' \in Seq(Folder) /\ FolderInv' /\ ManifestInv' /\ DrillInv'
<1>1. /\ backups' \in Seq(Folder) /\ DOMAIN backups' = DOMAIN backups
      /\ backups'[i] = b /\ \A j \in DOMAIN backups : j # i => backups'[j] = backups[j]
  BY OneWritten DEF MaintenanceTypeOK
<1>2. pc'[h] = to /\ \A e \in Helpers : e # h => pc'[e] = pc[e]
  BY DEF MaintenanceTypeOK
<1>3. FolderInv'
  <2> SUFFICES ASSUME NEW g \in Helpers, pc'[g] \in Copying
               PROVE  folder[g]' \in DOMAIN backups' /\ Filling(g, backups[folder[g]])'
    BY DEF FolderInv
  <2>1. g = h
    BY <1>2, OneFills
  <2> QED
    BY <1>1, <1>2, <2>1
<1>4. ManifestInv'
  BY <1>1 DEF ManifestInv, Complete
<1>5. DrillInv'
  BY <1>1 DEF DrillInv, Complete
<1> QED
  BY <1>1, <1>3, <1>4, <1>5

(* The copies are within the lock; the control does not leave it before.   *)
LEMMA CopyMoves ==
  ASSUME MaintenanceTypeOK, NEW h \in Helpers, pc[h] \in Copying \cup {"stopped"},
         NEW to \in Copying \cup {"restart"}, pc' = [pc EXCEPT ![h] = to],
         UNCHANGED <<apart, service, start, lock, marker>>
  PROVE  Moves(h, to)
BY DEF Moves, LockMoves, ServiceMoves, MarkerMoves, Joins, Copying, Locked, Resting

LEMMA MakeFolderInv ==
  ASSUME MaintenanceIInv, NEW h \in Helpers, MakeFolder(h) PROVE MaintenanceIInv'
<1> USE DEF MaintenanceIInv
<1>1. PICK to \in {"check", "restart"} : pc' = [pc EXCEPT ![h] = to]
  BY DEF MakeFolder, Goto
<1>2. /\ UNCHANGED <<scene, service, start, lock, marker, setbacks>> /\ pc[h] = "stopped"
      /\ UNCHANGED <<apart, databases, drill, restored>>
  BY DEF MakeFolder, NoSetback, scene
<1>3. LockInv' /\ ApartInv' /\ MarkerInv'
  <2>1. Moves(h, to)
    BY <1>1, <1>2, CopyMoves DEF Copying
  <2> QED
    BY <2>1, MovesInv DEF Pcs, Locked, Copying
<1>4. pc' \in [Helpers -> Pcs] /\ \A e \in Helpers : e # h => pc'[e] = pc[e]
  BY <1>1 DEF MaintenanceTypeOK, Pcs, Locked, Copying
<1>5. CASE UNCHANGED <<backups, folder>> /\ pc' = [pc EXCEPT ![h] = "restart"]
  <2>1. FolderInv'
    <3>1. \A g \in Helpers : pc'[g] \in Copying => pc'[g] = pc[g]
      BY <1>4, <1>5 DEF Copying, MaintenanceTypeOK
    <3> QED
      BY <1>2, <1>5, <3>1, StillFilling
  <2>2. ManifestInv' /\ DrillInv'
    BY <1>2, <1>5, SameBackups
  <2>3. MaintenanceTypeOK'
    BY <1>2, <1>4, <1>5 DEF MaintenanceTypeOK
  <2> QED
    BY <1>3, <2>1, <2>2, <2>3
<1>6. CASE /\ backups' = Append(backups, [files |-> <<>>, manifest |-> Nothing, of |-> databases])
           /\ folder' = [folder EXCEPT ![h] = Len(backups) + 1]
           /\ pc' = [pc EXCEPT ![h] = "check"]
  <2> DEFINE b == [files |-> <<>>, manifest |-> Nothing, of |-> databases]
             n == Len(backups)
  <2>1. b \in Folder /\ n \in Nat
    BY DEF MaintenanceTypeOK, Folder
  <2>2. /\ backups' \in Seq(Folder) /\ DOMAIN backups' = 1..(n + 1)
        /\ DOMAIN backups = 1..n
        /\ backups'[n + 1] = b /\ \A j \in 1..n : backups'[j] = backups[j]
    BY <1>6, <2>1, AppendProperties DEF MaintenanceTypeOK
  <2>3. FolderInv'
    <3> SUFFICES ASSUME NEW g \in Helpers, pc'[g] \in Copying
                 PROVE  folder[g]' \in DOMAIN backups' /\ Filling(g, backups[folder[g]])'
      BY DEF FolderInv
    <3>1. g = h
      BY <1>2, <1>4, OneFills
    <3>2. folder'[h] = n + 1 /\ n + 1 \in 1..(n + 1)
      BY <1>6, <2>1 DEF MaintenanceTypeOK
    <3>3. pc'[h] = "check"
      BY <1>6 DEF MaintenanceTypeOK
    <3>4. backups'[folder'[h]].of = databases' /\ backups'[folder'[h]].manifest = Nothing
          /\ backups'[folder'[h]].files = <<>>
      BY <1>2, <2>2, <3>2
    <3>5. Filling(h, backups[folder[h]])'
      <4>1. Len(<<>>) = 0 /\ 0 <= Stores
        BY ConstantsTyped
      <4>2. Alike(backups[folder[h]])'
        BY <3>4, <4>1 DEF Alike
      <4> QED
        BY <3>3, <3>4, <4>1, <4>2 DEF Filling
    <3> QED
      BY <2>2, <3>1, <3>2, <3>5
  <2>4. ManifestInv'
    BY <2>1, <2>2 DEF ManifestInv, Complete
  <2>5. DrillInv'
    BY <1>2, <2>1, <2>2 DEF DrillInv, Complete
  <2>6. MaintenanceTypeOK'
    BY <1>2, <1>4, <1>6, <2>1, <2>2 DEF MaintenanceTypeOK
  <2> QED
    BY <1>3, <2>3, <2>4, <2>5, <2>6
<1> QED
  BY <1>5, <1>6 DEF MakeFolder, Goto

(* A look at the service, before and after a copy.                         *)
LEMMA LookInv ==
  ASSUME MaintenanceIInv, NEW h \in Helpers, Check(h) \/ Recheck(h) PROVE MaintenanceIInv'
<1> USE DEF MaintenanceIInv
<1>1. PICK to \in Copying \cup {"restart"} : pc' = [pc EXCEPT ![h] = to]
  BY DEF Check, Recheck, Goto, Copying
<1>2. /\ UNCHANGED <<service, start, lock, marker, backups, folder, setbacks>> /\ pc[h] \in Copying
      /\ UNCHANGED <<apart, databases, drill, restored>>
  BY DEF Check, Recheck, scene, Copying
<1>3. LockInv' /\ ApartInv' /\ MarkerInv'
  <2>1. Moves(h, to)
    BY <1>1, <1>2, CopyMoves
  <2> QED
    BY <2>1, MovesInv DEF Pcs, Locked
<1>4. /\ pc' \in [Helpers -> Pcs] /\ \A e \in Helpers : e # h => pc'[e] = pc[e]
      /\ pc'[h] = to
  BY <1>1 DEF MaintenanceTypeOK, Pcs, Locked
<1>5. FolderInv'
  <2> SUFFICES ASSUME NEW g \in Helpers, pc'[g] \in Copying
               PROVE  folder[g] \in DOMAIN backups /\ Filling(g, backups[folder[g]])'
    BY <1>2 DEF FolderInv
  <2>1. g = h
    BY <1>2, <1>4, OneFills
  <2>2. folder[h] \in DOMAIN backups /\ Filling(h, backups[folder[h]])
    BY <1>2 DEF FolderInv
  <2>3. service = "inactive" /\ pc'[h] \in {"check", "copy"}
    BY <1>1, <1>4, <2>1 DEF Check, Recheck, StillStopped, Goto, MaintenanceTypeOK, Copying
  <2>4. pc'[h] = "copy" => Len(backups[folder[h]].files) < Stores
    BY <1>1, <1>4, <2>1 DEF Check, Recheck, Copied, Goto, MaintenanceTypeOK
  <2>5. Filling(h, backups[folder[h]])'
    BY <1>2, <2>2, <2>3, <2>4 DEF Filling, Alike
  <2> QED
    BY <2>1, <2>2, <2>5
<1>6. ManifestInv' /\ DrillInv'
  BY <1>2, SameBackups
<1>7. MaintenanceTypeOK'
  BY <1>2, <1>4 DEF MaintenanceTypeOK
<1> QED
  BY <1>3, <1>5, <1>6, <1>7

(* The folder that is being filled, by the helper that fills it.           *)
LEMMA FilledFolder ==
  ASSUME MaintenanceIInv, NEW h \in Helpers, pc[h] \in Copying
  PROVE  \E i \in DOMAIN backups :
           /\ i = folder[h] /\ backups[i] \in Folder
           /\ backups[i].manifest = Nothing /\ Filling(h, backups[i])
BY ElementOfSeq, LenProperties DEF MaintenanceIInv, FolderInv, MaintenanceTypeOK, Filling

(* What a write to the folder leaves to show: its types and its contents.  *)
LEMMA WriteInv ==
  ASSUME MaintenanceIInv, NEW h \in Helpers, pc[h] \in Copying,
         NEW to \in Copying \cup {"restart"}, pc' = [pc EXCEPT ![h] = to],
         NEW i \in DOMAIN backups, i = folder[h], backups[i].manifest = Nothing,
         NEW b \in Folder, b.of = backups[i].of, backups' = [backups EXCEPT ![i] = b],
         Complete(b) => b.manifest = b.of /\ Len(b.files) = Stores,
         to \in Copying => Filling(h, b)',
         UNCHANGED <<scene, service, start, lock, marker, folder>>, setbacks' \in Nat
  PROVE  MaintenanceIInv'
<1> USE DEF MaintenanceIInv
<1>1. UNCHANGED <<apart, databases, drill, restored>> /\ to \in Pcs
  BY DEF scene, Pcs, Locked
<1>2. backups' \in Seq(Folder) /\ FolderInv' /\ ManifestInv' /\ DrillInv'
  BY <1>1, FillsOne
<1>3. LockInv' /\ ApartInv' /\ MarkerInv'
  <2>1. Moves(h, to)
    BY <1>1, CopyMoves
  <2> QED
    BY <1>1, <2>1, MovesInv
<1>4. MaintenanceTypeOK'
  BY <1>1, <1>2 DEF MaintenanceTypeOK
<1> QED
  BY <1>2, <1>3, <1>4

LEMMA SetbackTyped ==
  ASSUME setbacks \in Nat, Setback \/ NoSetback PROVE setbacks' \in Nat
BY DEF Setback, NoSetback

(* A copy made while the service was down is of the moment of the others.  *)
LEMMA CopyInv ==
  ASSUME MaintenanceIInv, NEW h \in Helpers, Copy(h) PROVE MaintenanceIInv'
<1>1. pc[h] = "copy" /\ pc[h] \in Copying /\ UNCHANGED <<scene, service, start, lock, marker, folder>>
  BY DEF Copy, Copying
<1>2. PICK i \in DOMAIN backups : /\ i = folder[h] /\ backups[i] \in Folder
                                  /\ backups[i].manifest = Nothing /\ Filling(h, backups[i])
  BY <1>1, FilledFolder
<1>3. setbacks' \in Nat
  BY SetbackTyped DEF Copy, MaintenanceIInv, MaintenanceTypeOK
<1>4. CASE /\ backups' = [backups EXCEPT ![folder[h]].files =
                            Append(@, databases[Copied(h) + 1])]
           /\ Goto(h, "recheck")
  <2> DEFINE files == backups[i].files
             new == Append(files, databases[Len(files) + 1])
  <2>1. PICK n \in Nat : n = Len(files) /\ n < Stores
    BY <1>1, <1>2, ConstantsTyped, LenProperties DEF Folder, Filling
  <2>2. PICK v \in Nat : v = databases[n + 1] /\ (service = "inactive" => v = backups[i].of[n + 1])
    <3>1. n + 1 \in 1..Stores
      BY <2>1, ConstantsTyped
    <3>2. databases[n + 1] \in Nat
      BY <3>1 DEF MaintenanceIInv, MaintenanceTypeOK
    <3>3. service = "inactive" => databases[n + 1] = backups[i].of[n + 1]
      BY <1>2 DEF Filling
    <3> QED
      BY <3>2, <3>3
  <2>3. /\ new \in Seq(Content) /\ Len(new) = n + 1 /\ new[n + 1] = v
        /\ \A d \in 1..n : new[d] = files[d]
    <3>1. files \in Seq(Content) /\ v \in Content
      BY <1>2 DEF Folder, Content
    <3> HIDE DEF files
    <3> QED
      BY <2>1, <2>2, <3>1, AppendProperties
  <2>4. PICK b \in Folder : b = [files |-> new, manifest |-> Nothing, of |-> backups[i].of]
    BY <1>2, <2>3 DEF Folder
  <2>5. backups' = [backups EXCEPT ![i] = b]
    <3>1. backups[i] = [files |-> files, manifest |-> Nothing, of |-> backups[i].of]
      BY <1>2 DEF Folder
    <3>2. b = [backups[i] EXCEPT !.files = new]
      <4> HIDE DEF files, new
      <4> QED
        BY <2>4, <3>1
    <3>3. backups' = [backups EXCEPT ![i].files = new]
      BY <1>2, <1>4 DEF Copied
    <3> HIDE DEF new
    <3> QED
      BY <3>2, <3>3
  <2>6. /\ b.manifest = Nothing /\ b.of = backups[i].of /\ Len(b.files) = n + 1
        /\ b.files[n + 1] = v /\ \A d \in 1..n : b.files[d] = files[d]
    <3> HIDE DEF files, new
    <3> QED
      BY <2>3, <2>4
  <2>7. service = "inactive" => databases = b.of /\ Alike(b)
    <3> SUFFICES ASSUME service = "inactive" PROVE databases = b.of /\ Alike(b)
      OBVIOUS
    <3>1. \A d \in 1..n : files[d] = backups[i].of[d]
      BY <1>1, <1>2, <2>1 DEF Filling, Alike
    <3> HIDE DEF files
    <3>2. \A d \in 1..(n + 1) : d \in 1..n \/ d = n + 1
      BY <2>1
    <3>3. Alike(b)
      BY <2>2, <2>6, <3>1, <3>2 DEF Alike
    <3> QED
      BY <1>2, <2>6, <3>3 DEF Filling
  <2>8. Filling(h, b)'
    <3>1. pc'[h] = "recheck" /\ n + 1 <= Stores
      BY <1>4, <2>1, ConstantsTyped DEF Goto, MaintenanceIInv, MaintenanceTypeOK
    <3>2. service' = service /\ databases' = databases
      BY <1>1 DEF scene
    <3> QED
      BY <2>6, <2>7, <3>1, <3>2 DEF Filling, Alike
  <2>9. "recheck" \in Copying \cup {"restart"} /\ pc' = [pc EXCEPT ![h] = "recheck"]
    BY <1>4 DEF Goto, Copying
  <2>10. ~Complete(b) /\ b.of = backups[i].of
    BY <2>6 DEF Complete
  <2> QED
    BY <1>1, <1>2, <1>3, <2>5, <2>8, <2>9, <2>10, WriteInv
<1>5. CASE UNCHANGED backups /\ Goto(h, "restart")
  <2>1. backups' = [backups EXCEPT ![i] = backups[i]]
    BY <1>5 DEF MaintenanceIInv, MaintenanceTypeOK
  <2>2. PICK b \in Folder : b = backups[i]
    BY <1>2
  <2>3. "restart" \in Copying \cup {"restart"} /\ pc' = [pc EXCEPT ![h] = "restart"]
    BY <1>5 DEF Goto
  <2>4. ~Complete(b) /\ b.of = backups[i].of /\ "restart" \notin Copying
    BY <1>2, <2>2 DEF Complete, Copying
  <2>5. backups' = [backups EXCEPT ![i] = b]
    BY <2>1, <2>2
  <2> QED
    BY <1>1, <1>2, <1>3, <2>3, <2>4, <2>5, WriteInv
<1> QED
  BY <1>4, <1>5 DEF Copy

(* "completion marker LAST": all databases were copied, as they were when  *)
(* the folder was made.                                                    *)
LEMMA WriteManifestInv ==
  ASSUME MaintenanceIInv, NEW h \in Helpers, WriteManifest(h) PROVE MaintenanceIInv'
<1>1. /\ pc[h] = "check" /\ pc[h] \in Copying
      /\ UNCHANGED <<scene, service, start, lock, marker, folder>> /\ Goto(h, "restart")
  BY DEF WriteManifest, Copying
<1>2. PICK i \in DOMAIN backups : /\ i = folder[h] /\ backups[i] \in Folder
                                  /\ backups[i].manifest = Nothing /\ Filling(h, backups[i])
  BY <1>1, FilledFolder
<1>3. setbacks' \in Nat
  BY SetbackTyped DEF WriteManifest, MaintenanceIInv, MaintenanceTypeOK
<1>6. /\ "restart" \in Copying \cup {"restart"} /\ pc' = [pc EXCEPT ![h] = "restart"]
      /\ "restart" \notin Copying
  BY <1>1 DEF Goto, Copying
<1>4. CASE backups' = [backups EXCEPT ![folder[h]].manifest = backups[folder[h]].files]
  <2>1. Len(backups[i].files) = Stores /\ Alike(backups[i])
    BY <1>1, <1>2 DEF WriteManifest, Copied, Filling
  <2>2. backups[i].files = backups[i].of
    <3>1. /\ backups[i].files \in [1..Stores -> Content]
          /\ backups[i].of \in [1..Stores -> Nat]
      BY <1>2, <2>1, LenProperties DEF Folder
    <3> QED
      BY <2>1, <3>1 DEF Alike
  <2>3. PICK b \in Folder : b = [backups[i] EXCEPT !.manifest = backups[i].files]
    BY <1>2 DEF Folder
  <2>4. b.manifest = backups[i].files /\ b.files = backups[i].files /\ b.of = backups[i].of
    BY <1>2, <2>3 DEF Folder
  <2>5. backups' = [backups EXCEPT ![i] = b]
    BY <1>2, <1>4, <2>3
  <2>6. b.manifest = b.of /\ Len(b.files) = Stores /\ b.of = backups[i].of
    BY <2>1, <2>2, <2>4
  <2> QED
    BY <1>1, <1>2, <1>3, <1>6, <2>5, <2>6, WriteInv
<1>5. CASE UNCHANGED backups
  <2>1. backups' = [backups EXCEPT ![i] = backups[i]]
    BY <1>5 DEF MaintenanceIInv, MaintenanceTypeOK
  <2>2. PICK b \in Folder : b = backups[i]
    BY <1>2
  <2>3. ~Complete(b) /\ b.of = backups[i].of
    BY <1>2, <2>2 DEF Complete
  <2>4. backups' = [backups EXCEPT ![i] = b]
    BY <2>1, <2>2
  <2> QED
    BY <1>1, <1>2, <1>3, <1>6, <2>3, <2>4, WriteInv
<1> QED
  BY <1>4, <1>5 DEF WriteManifest
-----------------------------------------------------------------------------
(* The host, the operator, the service, decay and the drills               *)

LEMMA ControlsInv ==
  ASSUME MaintenanceIInv, NEW h \in Helpers, Controls(h) PROVE MaintenanceIInv'
<1> USE DEF MaintenanceIInv
<1>1. PICK to \in Pcs \ Copying : Moves(h, to)
  BY ControlsMove
<1>2. /\ service' = service \/ service' = "active" \/ pc[h] = "marked"
      /\ UNCHANGED <<apart, databases, drill, restored, backups, folder>>
  BY ControlsMove DEF scene
<1>3. LockInv' /\ ApartInv' /\ MarkerInv'
  BY <1>1, MovesInv
<1>4. /\ \A g \in Helpers : pc'[g] = IF g = h THEN to ELSE pc[g]
      /\ pc' \in [Helpers -> Pcs]
  BY <1>1 DEF Moves, MaintenanceTypeOK
<1>5. FolderInv'
  <2>1. pc[h] = "marked" => \A g \in Helpers : pc[g] \notin Copying
    BY OneLocked DEF Locked, Copying
  <2> QED
    BY <1>1, <1>2, <1>4, <2>1, StillFilling
<1>6. ManifestInv' /\ DrillInv'
  BY <1>2, SameBackups
<1>7. MaintenanceTypeOK'
  BY <1>2, <1>4, ControlsMove DEF MaintenanceTypeOK
<1> QED
  BY <1>3, <1>5, <1>6, <1>7

LEMMA RebootHostInv == ASSUME MaintenanceIInv, RebootHost PROVE MaintenanceIInv'
<1> USE DEF MaintenanceIInv, RebootHost, RunService
<1>1. \A h \in Helpers : pc'[h] = "idle"
  OBVIOUS
<1>2. LockInv' /\ ApartInv' /\ MarkerInv' /\ FolderInv'
  BY <1>1 DEF LockInv, ApartInv, MarkerInv, FolderInv, Locked, Copying, Resting
<1>3. ManifestInv' /\ DrillInv'
  BY DEF ManifestInv, DrillInv, Complete
<1>4. NoDrill \in Drill
  BY EmptySeq DEF NoDrill, Drill
<1>5. MaintenanceTypeOK'
  BY <1>4, SetbackTyped DEF MaintenanceTypeOK, Pcs, Resting, Starts
<1> QED
  BY <1>2, <1>3, <1>5

LEMMA OperatorStartInv == ASSUME MaintenanceIInv, OperatorStart PROVE MaintenanceIInv'
<1> USE DEF MaintenanceIInv, OperatorStart, RunService
<1>1. UNCHANGED <<apart, databases, drill, restored>>
  BY DEF scene
<1>2. FolderInv' /\ ManifestInv' /\ DrillInv'
  BY <1>1, StillFilling, SameBackups
<1> QED
  BY <1>1, <1>2 DEF LockInv, ApartInv, MarkerInv, MaintenanceTypeOK, Starts

(* A start that fails is still known to have been asked for.               *)
LEMMA CarryOutStartInv == ASSUME MaintenanceIInv, CarryOutStart PROVE MaintenanceIInv'
<1> USE DEF MaintenanceIInv, CarryOutStart, RunService
<1>1. UNCHANGED <<apart, databases, drill, restored>>
  BY DEF scene
<1>2. FolderInv' /\ ManifestInv' /\ DrillInv'
  BY <1>1, StillFilling, SameBackups
<1> QED
  BY <1>1, <1>2 DEF LockInv, ApartInv, MarkerInv, MaintenanceTypeOK, Starts

LEMMA ServiceWritesInv ==
  ASSUME MaintenanceIInv, NEW d \in 1..Stores, ServiceWrites(d) PROVE MaintenanceIInv'
<1> USE DEF MaintenanceIInv, ServiceWrites
<1>1. databases' \in [1..Stores -> Nat]
  <2>1. PICK v \in 1..MaxWrites : databases' = [databases EXCEPT ![d] = v]
    OBVIOUS
  <2>2. v \in Nat
    BY MaintenanceConstants
  <2> QED
    BY <2>1, <2>2 DEF MaintenanceTypeOK
<1>2. FolderInv'
  BY DEF FolderInv, Filling, Alike
<1>3. ManifestInv' /\ DrillInv'
  BY SameBackups
<1> QED
  BY <1>1, <1>2, <1>3 DEF LockInv, ApartInv, MarkerInv, MaintenanceTypeOK

(* The digests of a manifest are not those of a file that has decayed; the *)
(* folder being filled has no manifest yet.                                *)
LEMMA DecayInv ==
  ASSUME MaintenanceIInv, NEW i \in DOMAIN backups, NEW d \in 1..Stores, Decay(i, d)
  PROVE  MaintenanceIInv'
<1> USE DEF MaintenanceIInv
<1>1. /\ UNCHANGED <<apart, databases, drill, restored>>
      /\ UNCHANGED <<service, start, lock, marker, pc, folder>>
      /\ Complete(backups[i]) /\ setbacks' \in Nat
  BY SetbackTyped DEF Decay, scene, Complete, MaintenanceTypeOK
<1>2. backups[i] \in Folder
  BY ElementOfSeq, LenProperties DEF MaintenanceTypeOK
<1>3. PICK files \in Seq(Content) :
        files = [backups[i].files EXCEPT ![d] = Decayed] /\ Len(files) = Len(backups[i].files)
  <2>1. backups[i].files \in Seq(Content) /\ d \in 1..Len(backups[i].files)
    BY <1>2, LenProperties DEF Decay, Folder
  <2>2. Decayed \in Content
    BY DEF Content
  <2>3. /\ [backups[i].files EXCEPT ![d] = Decayed] \in Seq(Content)
        /\ Len([backups[i].files EXCEPT ![d] = Decayed]) = Len(backups[i].files)
    BY <2>1, <2>2, ExceptSeq
  <2> QED
    BY <2>3
<1>4. PICK b \in Folder : b = [backups[i] EXCEPT !.files = files]
  BY <1>2 DEF Folder
<1>5. b.manifest = backups[i].manifest /\ b.of = backups[i].of /\ b.files = files
  BY <1>2, <1>4 DEF Folder
<1>6. backups' = [backups EXCEPT ![i] = b]
  BY <1>3, <1>4 DEF Decay
<1>7. /\ backups' \in Seq(Folder) /\ DOMAIN backups' = DOMAIN backups
      /\ backups'[i] = b /\ \A j \in DOMAIN backups : j # i => backups'[j] = backups[j]
  BY <1>6, OneWritten DEF MaintenanceTypeOK
<1>8. FolderInv'
  <2> SUFFICES ASSUME NEW h \in Helpers, pc[h] \in Copying
               PROVE  folder[h] \in DOMAIN backups /\ Filling(h, backups[folder[h]])'
    BY <1>1, <1>7 DEF FolderInv
  <2>1. folder[h] \in DOMAIN backups /\ Filling(h, backups[folder[h]])
    BY DEF FolderInv
  <2>2. folder[h] # i
    BY <1>1, <2>1 DEF Filling, Complete
  <2> QED
    BY <1>1, <1>7, <2>1, <2>2 DEF Filling, Alike
<1>9. \A j \in DOMAIN backups :
        /\ backups'[j].manifest = backups[j].manifest /\ backups'[j].of = backups[j].of
        /\ Len(backups'[j].files) = Len(backups[j].files)
  BY <1>3, <1>5, <1>7
<1>10. ManifestInv'
  BY <1>7, <1>9 DEF ManifestInv, Complete
<1>11. DrillInv'
  BY <1>1, <1>7, <1>9 DEF DrillInv, Complete
<1> QED
  BY <1>1, <1>7, <1>8, <1>10, <1>11 DEF LockInv, ApartInv, MarkerInv, MaintenanceTypeOK

LEMMA DrillStepInv ==
  ASSUME MaintenanceIInv, \/ \E b \in DOMAIN backups : BeginDrill(b)
                          \/ CopyBack \/ FinishDrill
  PROVE  MaintenanceIInv'
<1> USE DEF MaintenanceIInv
<1>1. UNCHANGED <<apart, databases, service, start, lock, marker, pc, backups, folder, setbacks>>
  BY DEF BeginDrill, CopyBack, FinishDrill
<1>2. drill' \in Drill /\ restored' \subseteq Drill /\ DrillInv'
  <2>1. ASSUME NEW i \in DOMAIN backups, BeginDrill(i)
        PROVE  drill' \in Drill /\ restored' \subseteq Drill /\ DrillInv'
    <3>1. i \in Nat
      BY LenProperties DEF MaintenanceTypeOK
    <3>2. /\ drill' = [source |-> i, files |-> <<>>] /\ restored' = restored
          /\ Complete(backups[i])
      BY <2>1 DEF BeginDrill, Verifies, Complete
    <3> QED
      BY <1>1, <3>1, <3>2, EmptySeq DEF DrillInv, Drill, Complete, MaintenanceTypeOK
  <2>2. CASE CopyBack
    <3> DEFINE n == Len(drill.files)
    <3>1. drill \in Drill /\ drill.source \in DOMAIN backups /\ Complete(backups[drill.source])
      BY <2>2 DEF CopyBack, DrillInv, MaintenanceTypeOK
    <3>2. backups[drill.source] \in Folder /\ Len(backups[drill.source].files) = Stores
      BY <3>1, ElementOfSeq, LenProperties DEF MaintenanceTypeOK, ManifestInv
    <3>3. n + 1 \in 1..Stores
      BY <2>2, <3>1, LenProperties, ConstantsTyped DEF CopyBack, Drill
    <3>4. backups[drill.source].files[n + 1] \in Content
      BY <3>2, <3>3, ElementOfSeq DEF Folder
    <3>5. drill' = [drill EXCEPT !.files = Append(@, backups[drill.source].files[n + 1])]
      BY <2>2 DEF CopyBack
    <3>6. drill.files \in Seq(Content) /\ drill.source \in Nat
      BY <3>1 DEF Drill
    <3>7. Append(drill.files, backups[drill.source].files[n + 1]) \in Seq(Content)
      BY <3>4, <3>6, AppendProperties
    <3>8. drill' \in Drill /\ drill'.source = drill.source
      BY <3>1, <3>5, <3>7 DEF Drill
    <3> QED
      BY <1>1, <2>2, <3>1, <3>8 DEF CopyBack, DrillInv, Complete, MaintenanceTypeOK
  <2>3. CASE FinishDrill
    <3>1. drill \in Drill /\ drill.source \in DOMAIN backups /\ Complete(backups[drill.source])
      BY <2>3 DEF FinishDrill, DrillInv, MaintenanceTypeOK
    <3>2. drill' = NoDrill /\ NoDrill \in Drill
      BY <2>3, EmptySeq DEF FinishDrill, NoDrill, Drill
    <3>3. \/ restored' = restored
          \/ restored' = restored \cup {drill} /\ drill.files = backups[drill.source].manifest
      BY <2>3 DEF FinishDrill, Accepted, Verifies
    <3>4. backups[drill.source].manifest = backups[drill.source].of
      BY <3>1 DEF ManifestInv
    <3> QED
      BY <1>1, <3>1, <3>2, <3>3, <3>4 DEF DrillInv, Complete, MaintenanceTypeOK
  <2> QED
    BY <2>1, <2>2, <2>3
<1>3. FolderInv' /\ ManifestInv'
  BY <1>1 DEF FolderInv, ManifestInv, Filling, Alike, Complete
<1> QED
  BY <1>1, <1>2, <1>3 DEF LockInv, ApartInv, MarkerInv, MaintenanceTypeOK
-----------------------------------------------------------------------------
LEMMA MaintenanceInitially == MaintenanceInit => MaintenanceIInv
<1> SUFFICES ASSUME MaintenanceInit PROVE MaintenanceIInv
  OBVIOUS
<1>1. NoDrill \in Drill /\ <<>> \in Seq(Folder) /\ DOMAIN <<>> = {}
  BY EmptySeq DEF NoDrill, Drill
<1>2. MaintenanceTypeOK
  BY <1>1 DEF MaintenanceInit, MaintenanceTypeOK, Pcs, Resting, Starts
<1>3. LockInv /\ FolderInv /\ ApartInv /\ MarkerInv
  BY DEF MaintenanceInit, LockInv, FolderInv, ApartInv, MarkerInv, Locked, Copying, Resting
<1>4. ManifestInv /\ DrillInv
  BY <1>1 DEF MaintenanceInit, ManifestInv, DrillInv
<1> QED
  BY <1>2, <1>3, <1>4 DEF MaintenanceIInv

LEMMA MaintenanceStep == MaintenanceIInv /\ [MaintenanceNext]_maintenanceVars => MaintenanceIInv'
<1> SUFFICES ASSUME MaintenanceIInv, [MaintenanceNext]_maintenanceVars PROVE MaintenanceIInv'
  OBVIOUS
<1>1. CASE UNCHANGED maintenanceVars
  BY <1>1 DEF maintenanceVars, MaintenanceIInv, MaintenanceTypeOK, LockInv, FolderInv, Filling,
              Alike, ManifestInv, DrillInv, Complete, ApartInv, MarkerInv
<1>2. CASE MaintenanceNext
  <2>1. ASSUME NEW h \in Helpers,
               Discover(h) \/ BackupStep(h) \/ CallResume(h) \/ ResumeStep(h) \/ Kill(h)
        PROVE  MaintenanceIInv'
    BY <2>1, ControlsInv, MakeFolderInv, LookInv, CopyInv, WriteManifestInv
       DEF BackupStep, ResumeStep, Controls
  <2> QED
    BY <1>2, <2>1, RebootHostInv, OperatorStartInv, CarryOutStartInv, ServiceWritesInv, DecayInv,
       DrillStepInv
       DEF MaintenanceNext
<1> QED
  BY <1>1, <1>2

(* The inductive invariant of backups, their marker and their drills.      *)
THEOREM MaintenanceInvariance == MaintenanceSpec => []MaintenanceIInv
BY MaintenanceInitially, MaintenanceStep, PTL DEF MaintenanceSpec

(* However helpers are killed, commands fail, files decay, the host restarts *)
(* and somebody starts the service, a backup with a manifest holds all     *)
(* databases as they were at one moment, so does what a drill reports as   *)
(* verified; and while a backup (of those that do not overlap) keeps the   *)
(* service down, its marker is on disk or systemd was asked for the start. *)
THEOREM BackupsAreHeld == MaintenanceSpec => []BackupsHold
<1>1. MaintenanceIInv => BackupsHold
  BY DEF MaintenanceIInv, BackupsHold, BackupsAreOneMoment, StopIsMarked, ManifestInv, DrillInv,
         MarkerInv, Complete
<1> QED
  BY <1>1, MaintenanceInvariance, PTL

-----------------------------------------------------------------------------
(* Model inputs: the inductive invariant.                                  *)

InputRow == [ordinal : Nat, model : Models, index : Nat, content : Contents,
             kind : {"raw", "prepared"}, prepared : BOOLEAN,
             status : {"queued", "warming_up", "not_evaluated", "inferred"}]

InputsTypeOK ==
  /\ gate \in Uploads \cup {Absent}
  /\ inputs \subseteq InputRow
  /\ streams \in [Models -> StreamRow \cup {Absent}]
  /\ ordinal \in Nat /\ taken \subseteq Uploads

(* What was taken lies at or before the watermark of its stream, and the    *)
(* device it came from can no longer be deleted.                            *)
TakenInv ==
  /\ taken # {} => known
  /\ known \/ gate # Absent => exists
  /\ \A w \in taken : /\ streams[w.model] # Absent /\ streams[w.model].context = w.kind
                      /\ w.index <= streams[w.model].last
  /\ AcceptedOnce

WasTaken(m, i) == \E w \in taken : w.model = m /\ w.index = i

RowsInv ==
  /\ \A r \in inputs : r.ordinal <= ordinal /\ WasTaken(r.model, r.index)
  /\ \A r, s \in inputs :
       r.ordinal = s.ordinal \/ (r.model = s.model /\ r.index = s.index) => r = s

(* The row the worker has read is first in the queue for as long as it is   *)
(* queued, and the group it read with it are windows that were taken.       *)
ReadInv ==
  worker # Absent =>
    /\ worker.row \in InputRow /\ worker.row.ordinal <= ordinal
    /\ \A r \in inputs : r.ordinal = worker.row.ordinal =>
                           r.model = worker.row.model /\ r.index = worker.row.index
    /\ \A q \in Queued : worker.row.ordinal <= q.ordinal
    /\ worker.group \subseteq InputRow
    /\ \A g \in worker.group :
         /\ g.model = worker.row.model /\ g.index \in Start(worker.row) .. worker.row.index
         /\ WasTaken(g.model, g.index)
    /\ \A g, h \in worker.group : g.index = h.index => g = h

InputsIInv == InputsTypeOK /\ TakenInv /\ RowsInv /\ ReadInv /\ VerdictsAreBacked

(* As many windows as the model takes, no two of one place, are all of them.*)
LEMMA GroupIsWhole ==
  ASSUME NEW row \in InputRow, NEW group \in SUBSET InputRow,
         row.index % Length = Length - 1, Cardinality(group) = Length,
         \A g \in group : g.index \in Start(row) .. row.index,
         \A g, h \in group : g.index = h.index => g = h
  PROVE  \A i \in Start(row) .. row.index : \E g \in group : g.index = i
<1> DEFINE places == Start(row) .. row.index
           f == [g \in group |-> g.index]
<1>1. row.index \in Nat /\ Length \in Nat \ {0} /\ Start(row) = row.index - (Length - 1)
  BY ModelInputsConstants DEF InputRow, Start
<1>2. IsFiniteSet(places) /\ Cardinality(places) = Length
  <2>1. Start(row) \in Int /\ row.index \in Int
    BY <1>1
  <2> HIDE DEF places
  <2>2. /\ IsFiniteSet(places)
        /\ Cardinality(places) = IF Start(row) > row.index THEN 0
                                 ELSE row.index - Start(row) + 1
    BY <2>1, FS_Interval DEF places
  <2> QED
    BY <1>1, <2>2
<1>3. f \in Injection(group, places)
  BY DEF Injection, IsInjective
<1> HIDE DEF places
<1>4. f \in Surjection(group, places)
  BY <1>2, <1>3, FS_Injection
<1>5. \A i \in places : \E g \in group : f[g] = i
  BY <1>4 DEF Surjection
<1> QED
  BY <1>5 DEF places

-----------------------------------------------------------------------------
(* Model inputs: the steps.                                                *)

LEMMA BeginUploadInv ==
  ASSUME InputsIInv, NEW w \in Uploads, BeginUpload(w) PROVE InputsIInv'
BY DEF InputsIInv, InputsTypeOK, TakenInv, RowsInv, ReadInv, VerdictsAreBacked, AcceptedOnce,
   WasTaken, Queued, BeginUpload

LEMMA UploadIs ==
  ASSUME NEW w \in Uploads
  PROVE  w.model \in Models /\ w.index \in Nat /\ w.content \in Contents
         /\ w.kind \in {"raw", "prepared"}
<1>1. MaxIndex \in Nat
  BY ModelInputsConstants
<1> QED
  BY <1>1 DEF Uploads

(* A window that is not taken leaves the tables as they are; one that is    *)
(* has a place, an ordinal and a watermark of its own.                      *)
LEMMA FinishUploadInv == ASSUME InputsIInv, FinishUpload PROVE InputsIInv'
<1>1. /\ gate # Absent /\ gate' = Absent /\ UNCHANGED <<exists, worker>> /\ exists
  BY DEF FinishUpload, InputsIInv, InputsTypeOK, TakenInv
<1>2. PICK w \in Uploads : w = gate
  BY <1>1 DEF InputsIInv, InputsTypeOK
<1>3. w.model \in Models /\ w.index \in Nat /\ w.content \in Contents
      /\ w.kind \in {"raw", "prepared"}
  BY UploadIs
<1>4. CASE UNCHANGED <<ordinal, inputs, streams, known, taken>>
  BY <1>1, <1>4 DEF InputsIInv, InputsTypeOK, TakenInv, RowsInv, ReadInv, VerdictsAreBacked,
     AcceptedOnce, WasTaken, Queued
<1> DEFINE new == [ordinal |-> ordinal + 1, model |-> w.model, index |-> w.index,
                   content |-> w.content, kind |-> w.kind, status |-> "queued",
                   prepared |-> FALSE]
           watermark == [context |-> w.kind, last |-> w.index]
<1>5. CASE /\ Previous(w) = {} /\ InSequence(w)
           /\ ordinal' = ordinal + 1 /\ inputs' = inputs \cup {new}
           /\ streams' = [streams EXCEPT ![w.model] = watermark]
           /\ known' = TRUE /\ taken' = taken \cup {w}
  <2>1. ordinal \in Nat /\ new \in InputRow /\ watermark \in StreamRow /\ watermark # Absent
    <3>1. ordinal \in Nat /\ ordinal + 1 \in Nat
      BY DEF InputsIInv, InputsTypeOK
    <3>2. new \in InputRow
      BY <1>3, <3>1 DEF InputRow
    <3>3. watermark \in StreamRow
      BY <1>3 DEF StreamRow
    <3> QED
      BY <3>1, <3>2, <3>3, AbsentIsNoStream
  <2>2. /\ new.ordinal = ordinal + 1 /\ new.model = w.model /\ new.index = w.index
        /\ new.status = "queued"
        /\ watermark.context = w.kind /\ watermark.last = w.index
    OBVIOUS
  <2> HIDE DEF new, watermark
  <2>3. InputsTypeOK'
    <3>1. ordinal' \in Nat /\ gate' \in Uploads \cup {Absent} /\ taken' \subseteq Uploads
      BY <1>1, <1>5, <2>1 DEF InputsIInv, InputsTypeOK
    <3>2. inputs' \subseteq InputRow
      BY <1>5, <2>1 DEF InputsIInv, InputsTypeOK
    <3>3. streams' \in [Models -> StreamRow \cup {Absent}]
      BY <1>5, <2>1 DEF InputsIInv, InputsTypeOK
    <3> QED
      BY <3>1, <3>2, <3>3 DEF InputsTypeOK
  <2>4. /\ streams'[w.model] = watermark
        /\ \A m \in Models \ {w.model} : streams'[m] = streams[m]
    BY <1>3, <1>5 DEF InputsIInv, InputsTypeOK
  <2>5. \A v \in taken : /\ v.model \in Models /\ v.index \in Nat
                         /\ v.model = w.model => v.kind = w.kind /\ v.index < w.index
    <3> TAKE v \in taken
    <3>1. v \in Uploads /\ v.model \in Models /\ v.index \in Nat
      BY UploadIs DEF InputsIInv, InputsTypeOK
    <3>2. ASSUME v.model = w.model PROVE v.kind = w.kind /\ v.index < w.index
      <4>1. /\ streams[w.model] # Absent /\ streams[w.model].context = v.kind
            /\ v.index <= streams[w.model].last
        BY <3>2 DEF InputsIInv, TakenInv
      <4>2. streams[w.model].last \in Nat
        BY <1>3, <4>1 DEF InputsIInv, InputsTypeOK, StreamRow
      <4>3. streams[w.model].context = w.kind /\ w.index > streams[w.model].last
        BY <1>5, <4>1 DEF InSequence
      <4> QED
        BY <1>3, <3>1, <4>1, <4>2, <4>3
    <3> QED
      BY <3>1, <3>2
  <2>6. TakenInv'
    <3>1. \A v \in taken' : /\ streams'[v.model] # Absent /\ streams'[v.model].context = v.kind
                            /\ v.index <= streams'[v.model].last
      <4> TAKE v \in taken'
      <4>1. CASE v = w
        BY <1>3, <2>1, <2>2, <2>4, <4>1
      <4>2. CASE v \in taken /\ v.model = w.model
        BY <1>3, <2>1, <2>2, <2>4, <2>5, <4>2
      <4>3. CASE v \in taken /\ v.model # w.model
        BY <2>4, <2>5, <4>3 DEF InputsIInv, TakenInv
      <4> QED
        BY <1>5, <4>1, <4>2, <4>3
    <3>2. AcceptedOnce'
      <4> SUFFICES ASSUME NEW u \in taken', NEW v \in taken', u.model = v.model
                   PROVE  u.kind = v.kind /\ (u.index = v.index => u = v)
        BY DEF AcceptedOnce
      <4>1. CASE u \in taken /\ v \in taken
        BY <4>1 DEF InputsIInv, TakenInv, AcceptedOnce
      <4>2. CASE u = w \/ v = w
        BY <1>3, <1>5, <2>5, <4>2
      <4> QED
        BY <1>5, <4>1, <4>2
    <3> QED
      BY <1>1, <1>5, <3>1, <3>2 DEF TakenInv
  <2>7. \A m, i : WasTaken(m, i) => WasTaken(m, i)'
    BY <1>5 DEF WasTaken
  <2>8. WasTaken(w.model, w.index)'
    BY <1>5 DEF WasTaken
  <2>9. \A r \in inputs : r.ordinal \in Nat /\ r.ordinal <= ordinal
                          /\ ~(r.model = w.model /\ r.index = w.index)
    BY <1>5 DEF InputsIInv, InputsTypeOK, RowsInv, InputRow, Previous
  <2>10. RowsInv'
    <3>1. \A r \in inputs' : r.ordinal <= ordinal' /\ WasTaken(r.model, r.index)'
      <4> TAKE r \in inputs'
      <4>1. CASE r \in inputs
        BY <1>5, <2>1, <2>7, <2>9, <4>1 DEF InputsIInv, RowsInv
      <4>2. CASE r = new
        BY <1>5, <2>1, <2>2, <2>8, <4>2
      <4> QED
        BY <1>5, <4>1, <4>2
    <3>2. ASSUME NEW r \in inputs', NEW s \in inputs',
                 r.ordinal = s.ordinal \/ (r.model = s.model /\ r.index = s.index)
          PROVE  r = s
      <4>1. CASE r \in inputs /\ s \in inputs
        BY <3>2, <4>1 DEF InputsIInv, RowsInv
      <4>2. CASE ~(r \in inputs /\ s \in inputs)
        BY <1>5, <2>1, <2>2, <2>9, <3>2, <4>2
      <4> QED
        BY <4>1, <4>2
    <3> QED
      BY <3>1, <3>2 DEF RowsInv
  <2>11. ReadInv'
    <3> SUFFICES ASSUME worker' # Absent
                 PROVE  /\ worker.row \in InputRow /\ worker.row.ordinal <= ordinal'
                        /\ \A r \in inputs' : r.ordinal = worker.row.ordinal =>
                             r.model = worker.row.model /\ r.index = worker.row.index
                        /\ \A q \in Queued' : worker.row.ordinal <= q.ordinal
                        /\ worker.group \subseteq InputRow
                        /\ \A g \in worker.group :
                             /\ g.model = worker.row.model
                             /\ g.index \in Start(worker.row) .. worker.row.index
                             /\ WasTaken(g.model, g.index)'
                        /\ \A g, h \in worker.group : g.index = h.index => g = h
      BY <1>1 DEF ReadInv
    <3>1. worker # Absent
      BY <1>1
    <3>2. worker.row \in InputRow /\ worker.row.ordinal \in Nat /\ worker.row.ordinal <= ordinal
      BY <3>1 DEF InputsIInv, ReadInv, InputRow
    <3>3. worker.row.ordinal <= ordinal' /\ worker.row.ordinal < new.ordinal
      BY <1>5, <2>1, <2>2, <3>2
    <3>4. \A r \in inputs' : r.ordinal = worker.row.ordinal =>
            r.model = worker.row.model /\ r.index = worker.row.index
      BY <1>5, <2>1, <2>2, <3>1, <3>2, <3>3 DEF InputsIInv, ReadInv
    <3>5. \A q \in Queued' : worker.row.ordinal <= q.ordinal
      BY <1>5, <2>1, <2>2, <3>1, <3>2, <3>3 DEF InputsIInv, ReadInv, Queued
    <3> QED
      BY <2>7, <3>1, <3>2, <3>3, <3>4, <3>5 DEF InputsIInv, ReadInv
  <2>12. VerdictsAreBacked'
    <3> SUFFICES ASSUME NEW r \in inputs', r.status = "inferred"
                 PROVE  /\ r.index % Length = Length - 1
                        /\ \A i \in Start(r) .. r.index : WasTaken(r.model, i)'
      BY DEF VerdictsAreBacked, WasTaken
    <3>1. r \in inputs
      BY <1>5, <2>2
    <3>2. /\ r.index % Length = Length - 1
          /\ \A i \in Start(r) .. r.index : WasTaken(r.model, i)
      BY <3>1 DEF InputsIInv, VerdictsAreBacked, WasTaken
    <3> QED
      BY <2>7, <3>2
  <2> QED
    BY <2>3, <2>6, <2>10, <2>11, <2>12 DEF InputsIInv
<1> QED
  BY <1>2, <1>4, <1>5 DEF FinishUpload, Insert

(* The row read is the first of the queue, and its group lies up to it.     *)
LEMMA ReadRowInv == ASSUME InputsIInv, ReadRow PROVE InputsIInv'
<1>1. UNCHANGED <<exists, gate, inputs, streams, known, ordinal, taken>> /\ Queued # {}
  BY DEF ReadRow
<1> DEFINE row == CHOOSE r \in Queued : \A s \in Queued : r.ordinal <= s.ordinal
<1>2. row \in Queued /\ \A q \in Queued : row.ordinal <= q.ordinal
  <2>1. PICK m \in {q.ordinal : q \in Queued} : \A y \in {q.ordinal : q \in Queued} : m <= y
    <3>1. {q.ordinal : q \in Queued} \in SUBSET Nat /\ {q.ordinal : q \in Queued} # {}
      BY <1>1 DEF InputsIInv, InputsTypeOK, InputRow, Queued
    <3> QED
      BY <3>1, LeastOfNaturals
  <2>2. \E r \in Queued : \A s \in Queued : r.ordinal <= s.ordinal
    BY <2>1
  <2> QED
    BY <2>2
<1> HIDE DEF row
<1>3. worker' = [row |-> row, group |-> Group(row)] /\ row \in inputs /\ row \in InputRow
  BY <1>2 DEF ReadRow, row, Queued, InputsIInv, InputsTypeOK
<1>4. InputsTypeOK' /\ TakenInv' /\ RowsInv' /\ VerdictsAreBacked'
  BY <1>1 DEF InputsIInv, InputsTypeOK, TakenInv, RowsInv, VerdictsAreBacked, AcceptedOnce,
     WasTaken
<1>5. ReadInv'
  <2>1. worker'.row = row /\ worker'.group = Group(row)
    BY <1>3
  <2>2. row.ordinal <= ordinal /\ \A r \in inputs : r.ordinal = row.ordinal => r = row
    BY <1>3 DEF InputsIInv, RowsInv
  <2>3. /\ Group(row) \subseteq inputs
        /\ \A g \in Group(row) : g.model = row.model /\ g.index \in Start(row) .. row.index
    BY DEF Group
  <2>4. /\ Group(row) \subseteq InputRow
        /\ \A g \in Group(row) : WasTaken(g.model, g.index)
        /\ \A g, h \in Group(row) : g.index = h.index => g = h
    BY <2>3 DEF InputsIInv, InputsTypeOK, RowsInv
  <2>5. Queued' = Queued /\ ordinal' = ordinal /\ inputs' = inputs /\ taken' = taken
    BY <1>1 DEF Queued
  <2> QED
    BY <1>2, <1>3, <2>1, <2>2, <2>3, <2>4, <2>5 DEF ReadInv, WasTaken
<1> QED
  BY <1>4, <1>5 DEF InputsIInv

(* What a step does to the rows when it settles some of the queue.          *)
LEMMA SettlingInv ==
  ASSUME InputsIInv, UNCHANGED <<exists, streams, known, ordinal, taken>>,
         gate' \in {gate, Absent}, worker' \in {worker, Absent},
         inputs' \subseteq InputRow,
         \A r \in inputs' : \E s \in inputs :
           /\ r.ordinal = s.ordinal /\ r.model = s.model /\ r.index = s.index
           /\ r = s \/ (s.status = "queued" /\ r.status # "queued"),
         \A r, s \in inputs' : r.ordinal = s.ordinal => r = s,
         VerdictsAreBacked'
  PROVE  InputsIInv'
<1>1. InputsTypeOK' /\ TakenInv'
  BY DEF InputsIInv, InputsTypeOK, TakenInv, AcceptedOnce
<1>2. RowsInv'
  <2>1. \A r \in inputs' : r.ordinal <= ordinal /\ WasTaken(r.model, r.index)
    BY DEF InputsIInv, RowsInv
  <2>2. ASSUME NEW r \in inputs', NEW s \in inputs', r.model = s.model, r.index = s.index
        PROVE  r = s
    <3>1. PICK p \in inputs : /\ r.ordinal = p.ordinal /\ r.model = p.model
                              /\ r.index = p.index
      OBVIOUS
    <3>2. PICK q \in inputs : /\ s.ordinal = q.ordinal /\ s.model = q.model
                              /\ s.index = q.index
      OBVIOUS
    <3>3. p.model = q.model /\ p.index = q.index
      BY <2>2, <3>1, <3>2
    <3>4. p = q
      BY <3>3 DEF InputsIInv, RowsInv
    <3>5. r.ordinal = s.ordinal
      BY <3>1, <3>2, <3>4
    <3> QED
      BY <3>5
  <2> QED
    BY <2>1, <2>2 DEF RowsInv, WasTaken
<1>3. ReadInv'
  <2>1. Queued' \subseteq Queued
    BY DEF Queued
  <2> QED
    BY <2>1 DEF InputsIInv, ReadInv, WasTaken
<1> QED
  BY <1>1, <1>2, <1>3 DEF InputsIInv

(* What the worker writes: the row it read is settled, the others stay.     *)
LEMMA WriteResultIs ==
  ASSUME InputsIInv, WriteResult
  PROVE  \E prepared \in BOOLEAN :
           \E status \in Statuses(worker.row, worker.group, prepared) :
              /\ status \in {"warming_up", "not_evaluated", "inferred"}
              /\ inputs' = IsSettled(worker.row, status, prepared)
<1>1. PICK prepared \in BOOLEAN :
        \E status \in Statuses(worker.row, worker.group, prepared) :
          inputs' = IsSettled(worker.row, status, prepared)
  BY DEF WriteResult
<1>2. Statuses(worker.row, worker.group, prepared)
        \subseteq {"warming_up", "not_evaluated", "inferred"}
  BY DEF Statuses
<1> QED
  BY <1>1, <1>2

LEMMA SettledRows ==
  ASSUME InputsIInv, NEW row, NEW status \in {"warming_up", "not_evaluated", "inferred"},
         NEW prepared \in BOOLEAN, inputs' = IsSettled(row, status, prepared)
  PROVE  /\ inputs' \subseteq InputRow
         /\ \A r \in inputs' : \E s \in inputs :
              /\ r.ordinal = s.ordinal /\ r.model = s.model /\ r.index = s.index
              /\ r = s \/ (s.status = "queued" /\ r.status # "queued")
              /\ r = s \/ (s.ordinal = row.ordinal /\ r.status = status)
         /\ \A r, s \in inputs' : r.ordinal = s.ordinal => r = s
<1> DEFINE Next1(r) == IF r.ordinal = row.ordinal /\ r.status = "queued"
                       THEN [r EXCEPT !.status = status, !.prepared = prepared] ELSE r
<1>1. inputs' = {Next1(r) : r \in inputs}
  BY DEF IsSettled
<1>2. ASSUME NEW s \in inputs
      PROVE  /\ Next1(s) \in InputRow
             /\ Next1(s).ordinal = s.ordinal /\ Next1(s).model = s.model
             /\ Next1(s).index = s.index
             /\ \/ Next1(s) = s
                \/ /\ s.status = "queued" /\ s.ordinal = row.ordinal
                   /\ Next1(s).status = status /\ status # "queued"
  <2>1. s \in InputRow
    BY DEF InputsIInv, InputsTypeOK
  <2> QED
    BY <2>1 DEF InputRow
<1> HIDE DEF Next1
<1>3. inputs' \subseteq InputRow
  BY <1>1, <1>2
<1>4. ASSUME NEW r \in inputs'
      PROVE  \E s \in inputs :
              /\ r.ordinal = s.ordinal /\ r.model = s.model /\ r.index = s.index
              /\ r = s \/ (s.status = "queued" /\ r.status # "queued")
              /\ r = s \/ (s.ordinal = row.ordinal /\ r.status = status)
  <2>1. PICK s \in inputs : r = Next1(s)
    BY <1>1
  <2> QED
    BY <1>2, <2>1
<1>5. ASSUME NEW r \in inputs', NEW s \in inputs', r.ordinal = s.ordinal
      PROVE  r = s
  <2>1. PICK p \in inputs, q \in inputs : r = Next1(p) /\ s = Next1(q)
    BY <1>1
  <2>2. p = q
    BY <1>2, <1>5, <2>1 DEF InputsIInv, RowsInv
  <2> QED
    BY <2>1, <2>2
<1> QED
  BY <1>3, <1>4, <1>5

(* A verdict is given on a group that is whole.                             *)
LEMMA WriteResultInv == ASSUME InputsIInv, WriteResult PROVE InputsIInv'
<1>1. PICK prepared \in BOOLEAN, status \in {"warming_up", "not_evaluated", "inferred"} :
        /\ status \in Statuses(worker.row, worker.group, prepared)
        /\ inputs' = IsSettled(worker.row, status, prepared)
  BY WriteResultIs
<1>2. /\ UNCHANGED <<exists, streams, known, ordinal, taken>>
      /\ gate' \in {gate, Absent} /\ worker' \in {worker, Absent} /\ worker # Absent
  BY DEF WriteResult
<1>3. /\ inputs' \subseteq InputRow
      /\ \A r \in inputs' : \E s \in inputs :
           /\ r.ordinal = s.ordinal /\ r.model = s.model /\ r.index = s.index
           /\ r = s \/ (s.status = "queued" /\ r.status # "queued")
           /\ r = s \/ (s.ordinal = worker.row.ordinal /\ r.status = status)
      /\ \A r, s \in inputs' : r.ordinal = s.ordinal => r = s
  <2>1. PICK row : row = worker.row
    OBVIOUS
  <2>2. inputs' = IsSettled(row, status, prepared)
    BY <1>1, <2>1
  <2> QED
    BY <2>1, <2>2, SettledRows
<1>4. status = "inferred" =>
        /\ worker.row.index % Length = Length - 1
        /\ \A i \in Start(worker.row) .. worker.row.index : WasTaken(worker.row.model, i)
  <2> SUFFICES ASSUME status = "inferred"
               PROVE  /\ worker.row.index % Length = Length - 1
                      /\ \A i \in Start(worker.row) .. worker.row.index :
                           WasTaken(worker.row.model, i)
    OBVIOUS
  <2>1. worker.row.index % Length = Length - 1 /\ Cardinality(worker.group) = Length
    BY <1>1 DEF Statuses
  <2>2. /\ worker.row \in InputRow /\ worker.group \in SUBSET InputRow
        /\ \A g \in worker.group : g.index \in Start(worker.row) .. worker.row.index
        /\ \A g, h \in worker.group : g.index = h.index => g = h
        /\ \A g \in worker.group : WasTaken(worker.row.model, g.index)
    BY <1>2 DEF InputsIInv, ReadInv
  <2>3. \A i \in Start(worker.row) .. worker.row.index : \E g \in worker.group : g.index = i
    BY <2>1, <2>2, GroupIsWhole
  <2> QED
    BY <2>1, <2>2, <2>3
<1>5. VerdictsAreBacked'
  <2> SUFFICES ASSUME NEW r \in inputs', r.status = "inferred"
               PROVE  /\ r.index % Length = Length - 1
                      /\ \A i \in Start(r) .. r.index : WasTaken(r.model, i)
    BY <1>2 DEF VerdictsAreBacked, WasTaken
  <2>1. PICK s \in inputs :
          /\ r.ordinal = s.ordinal /\ r.model = s.model /\ r.index = s.index
          /\ r = s \/ (s.ordinal = worker.row.ordinal /\ r.status = status)
    BY <1>3
  <2>2. CASE r = s
    BY <2>2 DEF InputsIInv, VerdictsAreBacked, WasTaken
  <2>3. CASE s.ordinal = worker.row.ordinal /\ r.status = status
    <3>1. s.model = worker.row.model /\ s.index = worker.row.index
      BY <1>2, <2>3 DEF InputsIInv, ReadInv
    <3>2. Start(r) = Start(worker.row)
      BY <2>1, <3>1 DEF Start
    <3> QED
      BY <1>4, <2>1, <2>3, <3>1, <3>2
  <2> QED
    BY <2>1, <2>2, <2>3
<1>6. \A r \in inputs' : \E s \in inputs :
        /\ r.ordinal = s.ordinal /\ r.model = s.model /\ r.index = s.index
        /\ r = s \/ (s.status = "queued" /\ r.status # "queued")
  BY <1>3
<1> QED
  BY <1>2, <1>3, <1>5, <1>6, SettlingInv

LEMMA RowsRest ==
  ASSUME InputsIInv, inputs' \subseteq inputs, taken' = taken
  PROVE  /\ inputs' \subseteq InputRow
         /\ \A r \in inputs' : \E s \in inputs :
              /\ r.ordinal = s.ordinal /\ r.model = s.model /\ r.index = s.index
              /\ r = s \/ (s.status = "queued" /\ r.status # "queued")
         /\ \A r, s \in inputs' : r.ordinal = s.ordinal => r = s
         /\ VerdictsAreBacked'
BY DEF InputsIInv, InputsTypeOK, RowsInv, VerdictsAreBacked

LEMMA ExpireOrRestartInv ==
  ASSUME InputsIInv, (\E r \in inputs : Expire(r)) \/ RestartProcess
  PROVE  InputsIInv'
<1>1. /\ inputs' \subseteq inputs
      /\ UNCHANGED <<exists, streams, known, ordinal, taken>>
      /\ gate' \in {gate, Absent} /\ worker' \in {worker, Absent}
  BY DEF Expire, RestartProcess
<1> QED
  BY <1>1, RowsRest, SettlingInv

LEMMA DeviceRowInv == ASSUME InputsIInv, DeleteDevice \/ CreateDevice PROVE InputsIInv'
BY DEF InputsIInv, InputsTypeOK, TakenInv, RowsInv, ReadInv, VerdictsAreBacked, AcceptedOnce,
   WasTaken, Queued, DeleteDevice, CreateDevice, HistoryForbids

LEMMA InputsInitially == ModelInputsInit => InputsIInv
BY DEF ModelInputsInit, InputsIInv, InputsTypeOK, TakenInv, RowsInv, ReadInv,
   VerdictsAreBacked, AcceptedOnce

LEMMA InputsStep == InputsIInv /\ [ModelInputsNext]_inputsVars => InputsIInv'
<1> SUFFICES ASSUME InputsIInv, [ModelInputsNext]_inputsVars PROVE InputsIInv'
  OBVIOUS
<1>1. CASE UNCHANGED inputsVars
  BY <1>1 DEF inputsVars, InputsIInv, InputsTypeOK, TakenInv, RowsInv, ReadInv,
     VerdictsAreBacked, AcceptedOnce, WasTaken, Queued
<1> QED
  BY <1>1, BeginUploadInv, FinishUploadInv, ReadRowInv, WriteResultInv, ExpireOrRestartInv,
     DeviceRowInv DEF ModelInputsNext

(* The queue, the watermarks and what the worker holds agree in every state.*)
THEOREM InputsInvariance == ModelInputsSpec => []InputsIInv
BY InputsInitially, InputsStep, PTL DEF ModelInputsSpec

LEMMA UploadsAreHeld == InputsIInv => UploadsHold
BY DEF InputsIInv, TakenInv, UploadsHold, HistoryKeepsDevice

LEMMA StepEvaluates ==
  ASSUME InputsIInv, ModelInputsNext, NEW r \in inputs'
  PROVE  LET before == {s \in inputs : s.ordinal = r.ordinal}
         IN  /\ before = {} => r.ordinal = ordinal' /\ ordinal' > ordinal
             /\ \A s \in before : s # r => s.status = "queued" /\
                  (\A q \in Queued : q.ordinal >= s.ordinal)
<1>1. CASE inputs' \subseteq inputs
  BY <1>1 DEF InputsIInv, RowsInv
<1>2. CASE FinishUpload
  <2>1. CASE r \in inputs
    BY <2>1 DEF InputsIInv, RowsInv
  <2>2. CASE r \notin inputs
    <3>1. r.ordinal = ordinal + 1 /\ ordinal' = ordinal + 1
      BY <1>2, <2>2 DEF FinishUpload, Insert
    <3>2. \A s \in inputs : s.ordinal \in Nat /\ s.ordinal <= ordinal
      BY DEF InputsIInv, InputsTypeOK, RowsInv, InputRow
    <3>3. ordinal \in Nat
      BY DEF InputsIInv, InputsTypeOK
    <3> QED
      BY <3>1, <3>2, <3>3
  <2> QED
    BY <2>1, <2>2
<1>3. CASE WriteResult
  <2>1. PICK prepared \in BOOLEAN, status \in {"warming_up", "not_evaluated", "inferred"} :
          inputs' = IsSettled(worker.row, status, prepared)
    BY <1>3, WriteResultIs
  <2>2. PICK t \in inputs :
          /\ r.ordinal = t.ordinal
          /\ r = t \/ (t.status = "queued" /\ t.ordinal = worker.row.ordinal)
    BY <2>1, SettledRows
  <2>3. \A s \in inputs : s.ordinal = r.ordinal => s = t
    BY <2>2 DEF InputsIInv, RowsInv
  <2>4. worker # Absent /\ \A q \in Queued : worker.row.ordinal <= q.ordinal
    BY <1>3 DEF WriteResult, InputsIInv, ReadInv
  <2>5. \A q \in Queued : q.ordinal \in Nat /\ t.ordinal \in Nat
    BY DEF Queued, InputsIInv, InputsTypeOK, InputRow
  <2> QED
    BY <2>2, <2>3, <2>4, <2>5
<1> QED
  BY <1>1, <1>2, <1>3 DEF ModelInputsNext, BeginUpload, ReadRow, Expire, DeleteDevice,
     CreateDevice, RestartProcess

-----------------------------------------------------------------------------
(* Waveform requests: the inductive invariant.                             *)

AskedRow == [id : RequestIds, scope : Places, created : Nat, expires : Nat,
             frame : FrameIds \cup {Nobody}]

WaveformTypeOK ==
  /\ now \in Nat /\ scope \in Places \cup {Nobody}
  /\ order \in [id : RequestIds, expires : Nat] \cup {Nobody}

TablesTypeOK ==
  /\ sequence \in Nat /\ outbox \subseteq CaptureFile /\ latePosts \subseteq CaptureFile
  /\ asked \subseteq AskedRow /\ frames \subseteq FrameRow /\ IsFiniteSet(frames)

(* A file, a late post and a row of one number are the same capture.        *)
CapturesInv ==
  /\ \A c \in outbox \cup latePosts : c.sequence <= sequence
  /\ \A c, d \in outbox \cup latePosts : c.sequence = d.sequence => c = d
  /\ \A c \in outbox \cup latePosts, f \in frames :
       c.sequence = f.sequence => f = Frame(f.id, c)
  /\ \A f \in frames : f.sequence <= sequence
  /\ \A f, g \in frames : f.id = g.id \/ f.sequence = g.sequence => f = g

Answers(r, f) ==
  /\ r.id = f.request /\ r.frame = f.id /\ r.scope = Home
  /\ f.captured \in r.created .. r.expires

RequestsInv ==
  /\ \A r, s \in asked : r.id = s.id => r = s
  /\ \A r, s \in Unfulfilled(asked) : r = s
  /\ \A f \in frames : f.request # Nobody => \E r \in asked : Answers(r, f)
  /\ \A r \in asked, f \in frames : r.frame = f.id => f.request = r.id

(* What the listing has yet to show lies beyond its cursor.                 *)
ReaderInv ==
  /\ reader.unseen \subseteq FrameRow
  /\ reader.at = Done => reader.unseen = {}
  /\ reader.at # Done => reader.at \in FrameRow /\ \A f \in reader.unseen : Before(reader.at, f)

WaveformIInv == WaveformTypeOK /\ TablesTypeOK /\ CapturesInv /\ RequestsInv /\ ReaderInv

-----------------------------------------------------------------------------
(* Waveform requests: what the steps do to the tables.                     *)

LEMMA BoundsAreNaturals == Life \in Nat /\ Retention \in Nat
BY WaveformConstants

LEMMA FrameIs ==
  ASSUME NEW id, NEW c \in CaptureFile
  PROVE  /\ Frame(id, c).id = id /\ Frame(id, c).sequence = c.sequence
         /\ Frame(id, c).captured = c.captured /\ Frame(id, c).request = c.request
         /\ id \in FrameIds => Frame(id, c) \in FrameRow
BY DEF Frame, FrameRow, CaptureFile

(* Retention keeps a request for as long as the capture that answers it.    *)
LEMMA PruneIs ==
  ASSUME WaveformIInv
  PROVE  /\ Asked \subseteq asked /\ Frames \subseteq frames
         /\ \A f \in Frames, r \in asked : r.frame = f.id => r \in Asked
         /\ \A f \in frames \ Frames : f.captured < now - Retention
<1>1. Asked \subseteq asked /\ Frames \subseteq frames
  BY DEF Asked, Frames
<1>2. ASSUME NEW f \in Frames, NEW r \in asked, r.frame = f.id
      PROVE  r \in Asked
  <2>1. f \in frames /\ f.captured >= now - Retention
    BY DEF Frames
  <2>2. r.id = f.request /\ r.id \in RequestIds /\ r.expires \in Nat /\ r.created \in Nat
    BY <1>2, <2>1 DEF WaveformIInv, RequestsInv, TablesTypeOK, AskedRow
  <2>3. f.request # Nobody
    BY <2>2, WaveformMarks
  <2>4. PICK s \in asked : Answers(s, f)
    BY <2>1, <2>3 DEF WaveformIInv, RequestsInv
  <2>5. s = r
    BY <2>2, <2>4 DEF WaveformIInv, RequestsInv, Answers
  <2>6. f.captured \in r.created .. r.expires
    BY <2>4, <2>5 DEF Answers
  <2>7. now \in Nat /\ Retention \in Nat
    BY BoundsAreNaturals DEF WaveformIInv, WaveformTypeOK
  <2>8. r.expires >= now - Retention
    BY <2>1, <2>2, <2>6, <2>7
  <2> QED
    BY <2>8 DEF Asked
<1>3. ASSUME NEW f \in frames \ Frames
      PROVE  f.captured < now - Retention
  <2>1. f.captured \in Nat /\ now \in Nat /\ Retention \in Nat
    BY BoundsAreNaturals DEF WaveformIInv, WaveformTypeOK, TablesTypeOK, FrameRow
  <2> QED
    BY <2>1 DEF Frames
<1> QED
  BY <1>1, <1>2, <1>3

(* Rows go, the requests that are answered not before their captures.       *)
LEMMA ShrinkInv ==
  ASSUME WaveformIInv, asked' \subseteq asked, frames' \subseteq frames,
         \A f \in frames', r \in asked : r.frame = f.id => r \in asked',
         now' \in Nat, now' >= now, sequence' = sequence,
         outbox' \subseteq outbox \cup latePosts, latePosts' \subseteq outbox \cup latePosts
  PROVE  TablesTypeOK' /\ CapturesInv' /\ RequestsInv'
<1>1. TablesTypeOK'
  <2>1. IsFiniteSet(frames')
    BY FS_Subset DEF WaveformIInv, TablesTypeOK
  <2> QED
    BY <2>1 DEF WaveformIInv, TablesTypeOK
<1>2. CapturesInv'
  BY DEF WaveformIInv, CapturesInv
<1>3. RequestsInv'
  <2>1. \A r, s \in asked' : r.id = s.id => r = s
    BY DEF WaveformIInv, RequestsInv
  <2>2. \A r, s \in Unfulfilled(asked)' : r = s
    <3>1. \A r \in asked : r.expires \in Nat /\ now \in Nat
      BY DEF WaveformIInv, WaveformTypeOK, TablesTypeOK, AskedRow
    <3>2. Unfulfilled(asked)' \subseteq Unfulfilled(asked)
      BY <3>1 DEF Unfulfilled
    <3> QED
      BY <3>2 DEF WaveformIInv, RequestsInv
  <2>3. ASSUME NEW f \in frames', f.request # Nobody
        PROVE  \E r \in asked' : Answers(r, f)
    <3>1. PICK r \in asked : Answers(r, f)
      BY <2>3 DEF WaveformIInv, RequestsInv
    <3>2. r \in asked'
      BY <3>1 DEF Answers
    <3> QED
      BY <3>1, <3>2
  <2>4. \A r \in asked', f \in frames' : r.frame = f.id => f.request = r.id
    BY DEF WaveformIInv, RequestsInv
  <2> QED
    BY <2>1, <2>2, <2>3, <2>4 DEF RequestsInv
<1> QED
  BY <1>1, <1>2, <1>3

LEMMA PruneInv ==
  ASSUME WaveformIInv, asked' = Asked, frames' = Frames, now' = now, sequence' = sequence,
         outbox' \subseteq outbox \cup latePosts, latePosts' \subseteq outbox \cup latePosts
  PROVE  TablesTypeOK' /\ CapturesInv' /\ RequestsInv'
<1>1. now \in Nat /\ now >= now
  BY DEF WaveformIInv, WaveformTypeOK
<1> QED
  BY <1>1, PruneIs, ShrinkInv

LEMMA TablesRest ==
  ASSUME WaveformIInv, UNCHANGED <<now, asked, frames, outbox, latePosts, sequence>>
  PROVE  TablesTypeOK' /\ CapturesInv' /\ RequestsInv'
BY DEF WaveformIInv, TablesTypeOK, CapturesInv, RequestsInv, Unfulfilled

LEMMA ReaderRests == ASSUME WaveformIInv, reader' = reader PROVE ReaderInv'
BY DEF WaveformIInv, ReaderInv

(* The requests when a capture has become the row id.                       *)
FulfilledBy(id, c) ==
  {IF r.id = c.request THEN [r EXCEPT !.frame = id] ELSE r : r \in Asked}

(* A capture that arrives changes nothing; or prunes the tables, when it is *)
(* known or not wanted; or becomes a row that answers its request.          *)
LEMMA IngestIs ==
  ASSUME NEW c, IngestCapture(c)
  PROVE  \/ UNCHANGED <<asked, frames>> /\ ~Admissible(c)
         \/ asked' = Asked /\ frames' = Frames /\ Admissible(c) /\ ~Fresh(c)
         \/ /\ Admissible(c) /\ Fresh(c)
            /\ \E id \in FrameIds :
                 /\ id \notin {f.id : f \in frames} /\ id \notin {r.frame : r \in asked}
                 /\ frames' = Frames \cup {Frame(id, c)}
                 /\ asked' = FulfilledBy(id, c)
BY DEF IngestCapture, FulfilledBy

(* A capture without samples, or the request it fulfils.                    *)
LEMMA FulfilledIs ==
  ASSUME WaveformIInv, NEW c \in CaptureFile, Fresh(c), NEW id \in FrameIds,
         asked' = FulfilledBy(id, c)
  PROVE  /\ asked' \subseteq AskedRow
         /\ \A s \in asked' : \E r \in Asked :
              /\ s.id = r.id
              /\ \/ s = r /\ r.id # c.request
                 \/ /\ r.id = c.request /\ s.frame = id /\ r.frame = Nobody
                    /\ s.scope = Home /\ c.captured \in s.created .. s.expires
         /\ \A r \in Asked : r \in asked' \/ (r.id = c.request /\ r.frame = Nobody)
         /\ \A s, t \in asked' : s.id = t.id => s = t
         /\ c.request # Nobody => \E s \in asked' : s.id = c.request
<1>1. Asked \subseteq asked /\ asked \subseteq AskedRow
  BY PruneIs DEF WaveformIInv, TablesTypeOK
<1> DEFINE new(r) == IF r.id = c.request THEN [r EXCEPT !.frame = id] ELSE r
<1>2. ASSUME NEW r \in Asked
      PROVE  /\ new(r) \in AskedRow /\ new(r).id = r.id
             /\ r.id # c.request => new(r) = r
             /\ r.id = c.request =>
                  /\ new(r).frame = id /\ new(r).scope = r.scope
                  /\ new(r).created = r.created /\ new(r).expires = r.expires
  BY <1>1 DEF AskedRow
<1>3. asked' = {new(r) : r \in Asked}
  BY DEF FulfilledBy
<1> HIDE DEF new
<1>4. ASSUME NEW r \in Asked, r.id = c.request
      PROVE  r.frame = Nobody /\ r.scope = Home /\ c.captured \in r.created .. r.expires
  <2>1. c.request # Nobody
    BY <1>1, <1>4, WaveformMarks DEF AskedRow
  <2>2. PICK p \in Asked : Fulfils(c, p)
    BY <2>1 DEF Fresh
  <2>3. p = r
    BY <1>1, <1>4, <2>2 DEF Fulfils, WaveformIInv, RequestsInv
  <2>4. r.created \in Nat /\ r.expires \in Nat
    BY <1>1 DEF AskedRow
  <2>5. c.captured \in Int
    BY DEF CaptureFile
  <2> QED
    BY <2>2, <2>3, <2>4, <2>5 DEF Fulfils
<1>5. ASSUME NEW s \in asked'
      PROVE  \E r \in Asked :
               /\ s.id = r.id
               /\ \/ s = r /\ r.id # c.request
                  \/ /\ r.id = c.request /\ s.frame = id /\ r.frame = Nobody
                     /\ s.scope = Home /\ c.captured \in s.created .. s.expires
  <2>1. PICK r \in Asked : s = new(r)
    BY <1>3
  <2> QED
    BY <1>2, <1>4, <2>1
<1>6. \A r \in Asked : r \in asked' \/ (r.id = c.request /\ r.frame = Nobody)
  BY <1>2, <1>3, <1>4
<1>7. c.request # Nobody => \E s \in asked' : s.id = c.request
  BY <1>2, <1>3 DEF Fresh, Fulfils
<1>8. ASSUME NEW s \in asked', NEW t \in asked', s.id = t.id
      PROVE  s = t
  <2>1. PICK p \in Asked, q \in Asked : s = new(p) /\ t = new(q)
    BY <1>3
  <2>2. p = q
    BY <1>1, <1>2, <1>8, <2>1 DEF WaveformIInv, RequestsInv
  <2> QED
    BY <2>1, <2>2
<1> QED
  BY <1>2, <1>3, <1>5, <1>6, <1>7, <1>8

(* What ingest does to the tables: rows go only by retention, a number is   *)
(* of one row for good, and what is acknowledged is there.                  *)
LEMMA IngestInv ==
  ASSUME WaveformIInv, NEW c \in outbox \cup latePosts, IngestCapture(c),
         now' = now, sequence' = sequence,
         outbox' \subseteq outbox \cup latePosts, latePosts' \subseteq outbox \cup latePosts
  PROVE  /\ TablesTypeOK' /\ CapturesInv' /\ RequestsInv'
         /\ \A f \in frames \ frames' : f.captured < now - Retention
         /\ \A f \in frames, g \in frames' : f.sequence = g.sequence => f = g
         /\ Accepts(c) => \E f \in frames' : f = Frame(f.id, c)
<1>1. /\ now \in Nat /\ now' \in Nat /\ now' >= now /\ c \in CaptureFile
      /\ \A f, g \in frames : f.sequence = g.sequence => f = g
      /\ \A f \in frames : c.sequence = f.sequence => f = Frame(f.id, c)
  BY DEF WaveformIInv, WaveformTypeOK, TablesTypeOK, CapturesInv
<1>2. CASE UNCHANGED <<asked, frames>> /\ ~Admissible(c)
  BY <1>1, <1>2, ShrinkInv DEF Accepts
<1>3. CASE asked' = Asked /\ frames' = Frames /\ Admissible(c) /\ ~Fresh(c)
  <2>1. TablesTypeOK' /\ CapturesInv' /\ RequestsInv'
    BY <1>3, PruneInv
  <2>2. Frames \subseteq frames /\ \A f \in frames \ Frames : f.captured < now - Retention
    BY PruneIs
  <2>3. Accepts(c) => \E f \in Frames : f = Frame(f.id, c)
    BY <1>1, <1>3, <2>2 DEF Accepts, KnownFrames
  <2> QED
    BY <1>1, <1>3, <2>1, <2>2, <2>3
<1>4. CASE /\ Admissible(c) /\ Fresh(c)
           /\ \E id \in FrameIds :
                /\ id \notin {f.id : f \in frames} /\ id \notin {r.frame : r \in asked}
                /\ frames' = Frames \cup {Frame(id, c)}
                /\ asked' = FulfilledBy(id, c)
  <2>1. PICK id \in FrameIds :
          /\ id \notin {f.id : f \in frames} /\ id \notin {r.frame : r \in asked}
          /\ frames' = Frames \cup {Frame(id, c)}
          /\ asked' = FulfilledBy(id, c)
    BY <1>4
  <2>2. PICK g \in FrameRow : /\ g = Frame(id, c) /\ g.id = id /\ g.sequence = c.sequence
                              /\ g.captured = c.captured /\ g.request = c.request
    BY <1>1, FrameIs
  <2>3. /\ Asked \subseteq asked /\ Frames \subseteq frames
        /\ \A f \in Frames, r \in asked : r.frame = f.id => r \in Asked
        /\ \A f \in frames \ Frames : f.captured < now - Retention
    BY PruneIs
  <2>4. /\ asked' \subseteq AskedRow
        /\ \A s \in asked' : \E r \in Asked :
             /\ s.id = r.id
             /\ \/ s = r /\ r.id # c.request
                \/ /\ r.id = c.request /\ s.frame = id /\ r.frame = Nobody
                   /\ s.scope = Home /\ c.captured \in s.created .. s.expires
        /\ \A r \in Asked : r \in asked' \/ (r.id = c.request /\ r.frame = Nobody)
        /\ \A s, t \in asked' : s.id = t.id => s = t
        /\ c.request # Nobody => \E s \in asked' : s.id = c.request
    BY <1>1, <1>4, <2>1, FulfilledIs
  <2>5. \A f \in frames : f.sequence # c.sequence
    <3> SUFFICES ASSUME NEW f \in frames, f.sequence = c.sequence PROVE FALSE
      OBVIOUS
    <3>1. f.captured = c.captured
      BY <1>1, FrameIs
    <3>2. f \in Frames
      BY <1>4, <3>1 DEF Frames, Admissible
    <3> QED
      BY <1>4, <3>2 DEF Fresh, KnownFrames
  <2>6. frames' = Frames \cup {g} /\ id # Nobody /\ \A f \in frames : f.id # id
    BY <2>1, <2>2, WaveformMarks
  <2>7. TablesTypeOK'
    <3>1. IsFiniteSet(Frames)
      BY <2>3, FS_Subset DEF WaveformIInv, TablesTypeOK
    <3>2. IsFiniteSet(frames')
      BY <2>6, <3>1, FS_AddElement
    <3> QED
      BY <2>2, <2>3, <2>4, <2>6, <3>2 DEF WaveformIInv, TablesTypeOK
  <2>8. CapturesInv'
    <3>1. \A d \in outbox' \cup latePosts', f \in frames' :
            d.sequence = f.sequence => f = Frame(f.id, d)
      BY <2>2, <2>3, <2>6 DEF WaveformIInv, CapturesInv
    <3>2. \A f \in frames' : f.sequence <= sequence
      BY <2>2, <2>3, <2>6 DEF WaveformIInv, CapturesInv
    <3>3. \A f, h \in frames' : f.id = h.id \/ f.sequence = h.sequence => f = h
      BY <2>2, <2>3, <2>5, <2>6 DEF WaveformIInv, CapturesInv
    <3>4. /\ \A d \in outbox' \cup latePosts' : d.sequence <= sequence
          /\ \A d, e \in outbox' \cup latePosts' : d.sequence = e.sequence => d = e
      BY DEF WaveformIInv, CapturesInv
    <3> QED
      BY <3>1, <3>2, <3>3, <3>4 DEF CapturesInv
  <2>9. RequestsInv'
    <3>1. \A r, s \in Unfulfilled(asked)' : r = s
      <4>1. Unfulfilled(asked)' \subseteq Unfulfilled(asked)
        BY <2>3, <2>4, <2>6 DEF Unfulfilled
      <4> QED
        BY <4>1 DEF WaveformIInv, RequestsInv
    <3>2. ASSUME NEW f \in frames', f.request # Nobody
          PROVE  \E r \in asked' : Answers(r, f)
      <4>1. CASE f \in Frames
        <5>1. PICK r \in asked : Answers(r, f)
          BY <2>3, <3>2, <4>1 DEF WaveformIInv, RequestsInv
        <5>2. r \in Asked /\ r.frame \in FrameIds
          BY <2>3, <4>1, <5>1 DEF Answers, WaveformIInv, TablesTypeOK, FrameRow
        <5>3. r \in asked'
          BY <2>4, <5>2, WaveformMarks
        <5> QED
          BY <5>1, <5>3
      <4>2. CASE f = g
        <5>1. PICK s \in asked' : s.id = c.request
          BY <2>2, <2>4, <3>2, <4>2
        <5>2. s.frame = id /\ s.scope = Home /\ c.captured \in s.created .. s.expires
          BY <2>4, <5>1
        <5> QED
          BY <2>2, <4>2, <5>1, <5>2 DEF Answers
      <4> QED
        BY <2>6, <4>1, <4>2
    <3>3. ASSUME NEW s \in asked', NEW f \in frames', s.frame = f.id
          PROVE  f.request = s.id
      <4>1. PICK r \in Asked :
              /\ s.id = r.id
              /\ \/ s = r /\ r.id # c.request
                 \/ r.id = c.request /\ s.frame = id
        BY <2>4
      <4>2. CASE s = r
        <5>1. f # g
          BY <2>1, <2>2, <2>3, <3>3, <4>2
        <5> QED
          BY <2>3, <2>6, <3>3, <4>2, <5>1 DEF WaveformIInv, RequestsInv
      <4>3. CASE r.id = c.request /\ s.frame = id
        <5>1. f = g
          BY <2>3, <2>6, <3>3, <4>3
        <5> QED
          BY <2>2, <4>1, <4>3, <5>1
      <4> QED
        BY <4>1, <4>2, <4>3
    <3> QED
      BY <2>4, <3>1, <3>2, <3>3 DEF RequestsInv
  <2>10. \A f \in frames, h \in frames' : f.sequence = h.sequence => f = h
    BY <1>1, <2>2, <2>3, <2>5, <2>6
  <2>11. \E f \in frames' : f = Frame(f.id, c)
    BY <2>2, <2>6
  <2> QED
    BY <2>3, <2>6, <2>7, <2>8, <2>9, <2>10, <2>11
<1> QED
  BY <1>2, <1>3, <1>4, IngestIs

-----------------------------------------------------------------------------
(* Waveform requests: the steps.                                           *)

LEMMA RequestInv == ASSUME WaveformIInv, NEW id \in RequestIds, Request(id) PROVE WaveformIInv'
<1>1. /\ frames' = Frames /\ scope # Nobody
      /\ UNCHANGED <<now, scope, order, outbox, latePosts, sequence, reader>>
  BY DEF Request
<1>2. WaveformTypeOK' /\ ReaderInv'
  BY <1>1, ReaderRests DEF WaveformIInv, WaveformTypeOK
<1>3. CASE asked' = Asked
  BY <1>1, <1>2, <1>3, PruneInv DEF WaveformIInv
<1> DEFINE new == [id |-> id, scope |-> scope, created |-> now, expires |-> now + Life,
                   frame |-> Nobody]
<1>4. CASE /\ ~(\E r \in Asked : r.id = id) /\ Unfulfilled(Asked) = {}
           /\ asked' = Asked \cup {new}
  <2>1. now \in Nat /\ now + Life \in Nat /\ new \in AskedRow
    <3>1. now \in Nat /\ now + Life \in Nat /\ scope \in Places
      BY <1>1, BoundsAreNaturals DEF WaveformIInv, WaveformTypeOK
    <3> QED
      BY <3>1 DEF AskedRow
  <2>2. new.id = id /\ new.frame = Nobody
    OBVIOUS
  <2> HIDE DEF new
  <2>3. /\ Asked \subseteq asked /\ Frames \subseteq frames
        /\ \A f \in Frames, r \in asked : r.frame = f.id => r \in Asked
    BY PruneIs
  <2>4. TablesTypeOK'
    <3>1. IsFiniteSet(Frames)
      BY <2>3, FS_Subset DEF WaveformIInv, TablesTypeOK
    <3> QED
      BY <1>1, <1>4, <2>1, <2>3, <3>1 DEF WaveformIInv, TablesTypeOK
  <2>5. CapturesInv'
    BY <1>1, <2>3 DEF WaveformIInv, CapturesInv
  <2>6. RequestsInv'
    <3>1. \A r, s \in asked' : r.id = s.id => r = s
      BY <1>4, <2>2, <2>3 DEF WaveformIInv, RequestsInv
    <3>2. Unfulfilled(asked)' \subseteq {new}
      BY <1>1, <1>4 DEF Unfulfilled
    <3>3. \A f \in frames' : f.request # Nobody => \E r \in asked' : Answers(r, f)
      BY <1>1, <1>4, <2>3 DEF WaveformIInv, RequestsInv, Answers
    <3>4. \A f \in Frames : f.id \in FrameIds
      BY <2>3 DEF WaveformIInv, TablesTypeOK, FrameRow
    <3>5. \A r \in asked', f \in frames' : r.frame = f.id => f.request = r.id
      BY <1>1, <1>4, <2>2, <2>3, <3>4, WaveformMarks DEF WaveformIInv, RequestsInv
    <3> QED
      BY <3>1, <3>2, <3>3, <3>5 DEF RequestsInv
  <2> QED
    BY <1>2, <2>4, <2>5, <2>6 DEF WaveformIInv
<1> QED
  BY <1>3, <1>4 DEF Request

LEMMA AuthorityIs ==
  ASSUME WaveformIInv
  PROVE  Authority \in [id : RequestIds, expires : Nat] \cup {Nobody}
BY DEF Authority, WaveformIInv, WaveformTypeOK

(* A window that is measured gets a number no capture has.                  *)
LEMMA CaptureInv ==
  ASSUME WaveformIInv, NEW how \in {"stored", "skipped", "unwritten", "unverified"},
         Capture(how)
  PROVE  WaveformIInv'
<1> DEFINE new == [sequence |-> sequence + 1, captured |-> now,
                   request |-> IF Authority = Nobody THEN Nobody ELSE Authority.id]
<1>1. /\ UNCHANGED <<now, scope, asked, frames, latePosts, reader>>
      /\ sequence' = sequence + 1 /\ outbox' \in {outbox, outbox \cup {new}}
      /\ order' \in {Nobody, Authority}
  BY DEF Capture
<1>2. /\ sequence \in Nat /\ now \in Nat /\ sequence + 1 \in Nat
      /\ \A c \in outbox \cup latePosts : c.sequence \in Nat /\ c.sequence <= sequence
      /\ \A f \in frames : f.sequence \in Nat /\ f.sequence <= sequence
  BY DEF WaveformIInv, WaveformTypeOK, TablesTypeOK, CapturesInv, CaptureFile, FrameRow
<1>3. new \in CaptureFile /\ new.sequence = sequence + 1
  <2>1. (IF Authority = Nobody THEN Nobody ELSE Authority.id) \in RequestIds \cup {Nobody}
    BY AuthorityIs
  <2> QED
    BY <1>2, <2>1 DEF CaptureFile
<1> HIDE DEF new
<1>4. WaveformTypeOK' /\ ReaderInv'
  BY <1>1, AuthorityIs, ReaderRests DEF WaveformIInv, WaveformTypeOK
<1>5. TablesTypeOK'
  BY <1>1, <1>2, <1>3 DEF WaveformIInv, TablesTypeOK
<1>6. CapturesInv'
  <2>1. \A c \in outbox' \cup latePosts' : c = new \/ c \in outbox \cup latePosts
    BY <1>1
  <2>2. \A c \in outbox' \cup latePosts' : c.sequence <= sequence'
    BY <1>1, <1>2, <1>3, <2>1
  <2>3. \A c, d \in outbox' \cup latePosts' : c.sequence = d.sequence => c = d
    BY <1>1, <1>2, <1>3, <2>1 DEF WaveformIInv, CapturesInv
  <2>4. \A c \in outbox' \cup latePosts', f \in frames' :
          c.sequence = f.sequence => f = Frame(f.id, c)
    BY <1>1, <1>2, <1>3, <2>1 DEF WaveformIInv, CapturesInv
  <2>5. /\ \A f \in frames' : f.sequence <= sequence'
        /\ \A f, g \in frames' : f.id = g.id \/ f.sequence = g.sequence => f = g
    BY <1>1, <1>2 DEF WaveformIInv, CapturesInv
  <2> QED
    BY <2>2, <2>3, <2>4, <2>5 DEF CapturesInv
<1>7. RequestsInv'
  BY <1>1 DEF WaveformIInv, RequestsInv, Unfulfilled
<1> QED
  BY <1>4, <1>5, <1>6, <1>7 DEF WaveformIInv

LEMMA PollInv == ASSUME WaveformIInv, Poll PROVE WaveformIInv'
<1>1. UNCHANGED <<now, scope, asked, frames, outbox, latePosts, sequence, reader>>
  BY DEF Poll
<1>2. order' \in [id : RequestIds, expires : Nat] \cup {Nobody}
  <2>1. CASE PendingRequests = {}
    BY <2>1 DEF Poll
  <2>2. CASE PendingRequests # {}
    <3> DEFINE oldest == CHOOSE r \in PendingRequests :
                           \A s \in PendingRequests : r.created <= s.created
    <3>1. PICK r \in PendingRequests : \A s \in PendingRequests : r = s
      BY <2>2 DEF PendingRequests, WaveformIInv, RequestsInv
    <3>2. r \in AskedRow
      BY DEF PendingRequests, Unfulfilled, WaveformIInv, TablesTypeOK
    <3>3. r.created <= r.created
      BY <3>2 DEF AskedRow
    <3>4. oldest \in PendingRequests
      BY <3>1, <3>3
    <3>5. oldest \in AskedRow
      BY <3>4 DEF PendingRequests, Unfulfilled, WaveformIInv, TablesTypeOK
    <3>6. order' \in {Nobody, [id |-> oldest.id, expires |-> oldest.expires]}
      BY DEF Poll
    <3> HIDE DEF oldest
    <3> QED
      BY <3>5, <3>6 DEF AskedRow
  <2> QED
    BY <2>1, <2>2
<1> QED
  BY <1>1, <1>2, TablesRest, ReaderRests DEF WaveformIInv, WaveformTypeOK

LEMMA OldestIs ==
  ASSUME WaveformIInv, outbox # {}
  PROVE  OldestCapture \in outbox
<1> DEFINE numbers == {c.sequence : c \in outbox}
<1>1. numbers \in SUBSET Nat /\ numbers # {}
  BY DEF WaveformIInv, TablesTypeOK, CaptureFile
<1>2. PICK m \in numbers : \A y \in numbers : m <= y
  BY <1>1, LeastOfNaturals
<1>3. \E c \in outbox : \A d \in outbox : c.sequence <= d.sequence
  BY <1>2
<1> QED
  BY <1>3 DEF OldestCapture

(* A post, whether its answer comes or not, and a late one.                 *)
LEMMA PostsInv ==
  ASSUME WaveformIInv,
         Post \/ PostUnanswered \/ \E capture \in latePosts : LatePost(capture)
  PROVE  WaveformIInv'
<1>1. UNCHANGED <<now, scope, order, sequence, reader>>
  BY DEF Post, PostUnanswered, LatePost
<1>2. /\ outbox' \subseteq outbox \cup latePosts
      /\ latePosts' \subseteq outbox \cup latePosts
  BY OldestIs DEF Post, PostUnanswered, LatePost
<1>3. (\E c \in outbox \cup latePosts : IngestCapture(c)) \/ UNCHANGED <<asked, frames>>
  BY OldestIs DEF Post, PostUnanswered, LatePost
<1>4. now \in Nat /\ now >= now
  BY DEF WaveformIInv, WaveformTypeOK
<1>5. TablesTypeOK' /\ CapturesInv' /\ RequestsInv'
  <2>1. CASE \E c \in outbox \cup latePosts : IngestCapture(c)
    BY <1>1, <1>2, <2>1, IngestInv
  <2>2. CASE UNCHANGED <<asked, frames>>
    BY <1>1, <1>2, <1>4, <2>2, ShrinkInv
  <2> QED
    BY <1>3, <2>1, <2>2
<1> QED
  BY <1>1, <1>5, ReaderRests DEF WaveformIInv, WaveformTypeOK

LEMMA AroundInv == ASSUME WaveformIInv, RebootEdge \/ Tick \/ Move PROVE WaveformIInv'
<1>1. /\ UNCHANGED <<asked, frames, outbox, latePosts, sequence, reader>>
      /\ now' \in Nat /\ now' >= now /\ scope' \in Places \cup {Nobody}
      /\ order' \in {order, Nobody}
  BY DEF RebootEdge, Tick, Move, WaveformIInv, WaveformTypeOK
<1> QED
  BY <1>1, ShrinkInv, ReaderRests DEF WaveformIInv, WaveformTypeOK

-----------------------------------------------------------------------------
(* Waveform requests: the listing, newest first and by id within a time.    *)

LEMMA FiniteImage ==
  ASSUME NEW S, IsFiniteSet(S), NEW f
  PROVE  IsFiniteSet({f[x] : x \in S})
<1> DEFINE T == {f[x] : x \in S}  g == [x \in S |-> f[x]]
<1>1. g \in Surjection(S, T)
  BY DEF Surjection
<1> HIDE DEF T, g
<1> QED
  BY <1>1, FS_Surjection DEF T

LEMMA FirstIs ==
  ASSUME NEW S \in SUBSET FrameRow, IsFiniteSet(S), S # {},
         \A f, g \in S : f.id = g.id => f = g
  PROVE  \E f \in S : \A g \in S : f = g \/ Before(f, g)
<1>1. \A f \in S : f.captured \in Nat /\ f.id \in Nat
  BY WaveformConstants DEF FrameRow
<1> DEFINE times == {f.captured : f \in S}
<1>2. IsFiniteSet(times) /\ times \in SUBSET Int /\ times # {}
  <2> DEFINE timeOf == [f \in S |-> f.captured]
  <2>1. times = {timeOf[f] : f \in S}
    OBVIOUS
  <2>2. IsFiniteSet(times)
    <3> HIDE DEF timeOf, times
    <3> QED
      BY <2>1, FiniteImage
  <2> QED
    BY <1>1, <2>2
<1>3. PICK final \in S : \A f \in S : f.captured <= final.captured
  <2>1. PICK m \in times : \A y \in times : y <= m
    BY <1>2, MaxExists
  <2> QED
    BY <2>1
<1> DEFINE latest == {f \in S : f.captured = final.captured}
           names == {f.id : f \in latest}
<1>4. IsFiniteSet(names) /\ names \in SUBSET Int /\ names # {}
  <2> DEFINE name == [f \in latest |-> f.id]
  <2>1. names = {name[f] : f \in latest}
    OBVIOUS
  <2>2. IsFiniteSet(latest)
    BY FS_Subset
  <2>3. IsFiniteSet(names)
    <3> HIDE DEF name, latest, names
    <3> QED
      BY <2>1, <2>2, FiniteImage
  <2>4. final \in latest
    OBVIOUS
  <2> QED
    BY <1>1, <2>3, <2>4
<1>5. PICK first \in latest : \A f \in latest : f.id <= first.id
  <2>1. PICK m \in names : \A y \in names : y <= m
    BY <1>4, MaxExists
  <2> QED
    BY <2>1
<1>6. ASSUME NEW g \in S PROVE first = g \/ Before(first, g)
  <2>1. g.captured <= first.captured /\ first \in S
    BY <1>3, <1>5
  <2>2. CASE g.captured = first.captured
    BY <1>1, <1>5, <2>1, <2>2 DEF Before
  <2>3. CASE g.captured # first.captured
    BY <1>1, <2>1, <2>3 DEF Before
  <2> QED
    BY <2>2, <2>3
<1> QED
  BY <1>5, <1>6

LEMMA LastIs ==
  ASSUME NEW S \in SUBSET FrameRow, S # {}, \A f, g \in S : f.id = g.id => f = g
  PROVE  \E f \in S : \A g \in S : f = g \/ Before(g, f)
<1>1. \A f \in S : f.captured \in Nat /\ f.id \in Nat
  BY WaveformConstants DEF FrameRow
<1>2. PICK first \in S : \A f \in S : first.captured <= f.captured
  <2> DEFINE times == {f.captured : f \in S}
  <2>1. times \in SUBSET Nat /\ times # {}
    BY <1>1
  <2>2. PICK m \in times : \A y \in times : m <= y
    BY <2>1, LeastOfNaturals
  <2> QED
    BY <2>2
<1> DEFINE earliest == {f \in S : f.captured = first.captured}
<1>3. PICK final \in earliest : \A f \in earliest : final.id <= f.id
  <2> DEFINE names == {f.id : f \in earliest}
  <2>1. first \in earliest
    OBVIOUS
  <2>2. names \in SUBSET Nat /\ names # {}
    BY <1>1, <2>1
  <2>3. PICK m \in names : \A y \in names : m <= y
    BY <2>2, LeastOfNaturals
  <2> QED
    BY <2>3
<1>4. ASSUME NEW g \in S PROVE final = g \/ Before(g, final)
  <2>1. final.captured <= g.captured /\ final \in S
    BY <1>2, <1>3
  <2>2. CASE g.captured = final.captured
    BY <1>1, <1>3, <2>1, <2>2 DEF Before
  <2>3. CASE g.captured # final.captured
    BY <1>1, <2>1, <2>3 DEF Before
  <2> QED
    BY <2>2, <2>3
<1> QED
  BY <1>3, <1>4

(* A page is the first rows beyond the cursor; the rest lies beyond its end.*)
Ahead(rest, f) == {g \in rest : Before(g, f)}

LEMMA BeforeIsOrder ==
  ASSUME NEW e \in FrameRow, NEW f \in FrameRow, NEW g \in FrameRow
  PROVE  /\ ~Before(f, f) /\ (Before(e, f) /\ Before(f, g) => Before(e, g))
         /\ e.id # f.id => Before(e, f) \/ Before(f, e)
<1>1. \A x \in {e, f, g} : x.captured \in Nat /\ x.id \in Nat
  BY WaveformConstants DEF FrameRow
<1> QED
  BY <1>1 DEF Before

LEMMA PageHasFirst ==
  ASSUME NEW rest \in SUBSET FrameRow, IsFiniteSet(rest), rest # {},
         \A f, g \in rest : f.id = g.id => f = g
  PROVE  \E f \in rest : Cardinality(Ahead(rest, f)) < PageSize
<1>1. PICK first \in rest : \A g \in rest : first = g \/ Before(first, g)
  BY FirstIs
<1>2. Ahead(rest, first) = {}
  <2> SUFFICES ASSUME NEW g \in rest, Before(g, first) PROVE FALSE
    BY DEF Ahead
  <2>1. first \in FrameRow /\ g \in FrameRow
    OBVIOUS
  <2>2. ~Before(g, g) /\ ~Before(first, first)
    BY <2>1, BeforeIsOrder
  <2>3. Before(first, g)
    BY <1>1, <2>2
  <2> QED
    BY <2>1, <2>2, <2>3, BeforeIsOrder
<1>3. Cardinality(Ahead(rest, first)) = 0 /\ PageSize \in Nat \ {0}
  BY <1>2, FS_EmptySet, WaveformConstants
<1> QED
  BY <1>3

LEMMA RestIsBeyond ==
  ASSUME NEW rest \in SUBSET FrameRow, IsFiniteSet(rest),
         \A f, g \in rest : f.id = g.id => f = g,
         NEW end \in rest, NEW f \in rest,
         Cardinality(Ahead(rest, end)) < PageSize, ~(Cardinality(Ahead(rest, f)) < PageSize)
  PROVE  Before(end, f)
<1> SUFFICES ASSUME ~Before(end, f) PROVE FALSE
  OBVIOUS
<1>1. end.id # f.id /\ end \in FrameRow /\ f \in FrameRow
  OBVIOUS
<1>2. Before(f, end)
  BY <1>1, BeforeIsOrder
<1>3. Ahead(rest, f) \in SUBSET Ahead(rest, end)
  <2> SUFFICES ASSUME NEW g \in rest, Before(g, f) PROVE Before(g, end)
    BY DEF Ahead
  <2> QED
    BY <1>1, <1>2, BeforeIsOrder
<1>4. IsFiniteSet(Ahead(rest, end)) /\ IsFiniteSet(Ahead(rest, f))
  <2>1. Ahead(rest, end) \in SUBSET rest /\ Ahead(rest, f) \in SUBSET rest
    BY DEF Ahead
  <2> QED
    BY <2>1, FS_Subset
<1>5. /\ Cardinality(Ahead(rest, f)) <= Cardinality(Ahead(rest, end))
      /\ Cardinality(Ahead(rest, end)) \in Nat /\ Cardinality(Ahead(rest, f)) \in Nat
  BY <1>3, <1>4, FS_Subset, FS_CardinalityType
<1>6. PageSize \in Nat
  BY WaveformConstants
<1> QED
  BY <1>5, <1>6

LEMMA ReadPageInv == ASSUME WaveformIInv, ReadPage PROVE WaveformIInv'
<1>1. /\ UNCHANGED <<now, scope, order, outbox, latePosts, sequence>>
      /\ frames' = Frames /\ asked' = Asked
  BY DEF ReadPage
<1>2. WaveformTypeOK' /\ TablesTypeOK' /\ CapturesInv' /\ RequestsInv'
  BY <1>1, PruneInv DEF WaveformIInv, WaveformTypeOK
<1> DEFINE rest == {f \in Frames : Beyond(f, Cursor)}
           page == {f \in rest : Cardinality({g \in rest : Before(g, f)}) < PageSize}
           end == CHOOSE f \in page : \A g \in page : f = g \/ Before(g, f)
           seen == (IF Cursor = Nobody THEN Frames ELSE reader.unseen \cap Frames)
<1>3. reader' = [at |-> IF rest = page THEN Done ELSE end, unseen |-> seen \ page]
  BY DEF ReadPage
<1>4. Frames \subseteq FrameRow /\ IsFiniteSet(Frames) /\ \A f, g \in Frames : f.id = g.id => f = g
  <2>1. Frames \subseteq frames
    BY PruneIs
  <2> QED
    BY <2>1, FS_Subset DEF WaveformIInv, TablesTypeOK, CapturesInv
<1>5. seen \subseteq rest
  <2>1. CASE Cursor = Nobody
    BY <2>1 DEF Beyond
  <2>2. CASE Cursor # Nobody
    <3>1. reader.at # Done /\ Cursor = reader.at
      BY <2>2 DEF Cursor
    <3>2. \A f \in reader.unseen : Before(Cursor, f)
      BY <3>1 DEF WaveformIInv, ReaderInv
    <3> QED
      BY <2>2, <3>2 DEF Beyond
  <2> QED
    BY <2>1, <2>2
<1>6. rest \in SUBSET FrameRow /\ IsFiniteSet(rest) /\ \A f, g \in rest : f.id = g.id => f = g
  BY <1>4, FS_Subset
<1>7. page \subseteq rest
      /\ \A f \in rest : f \in page <=> Cardinality(Ahead(rest, f)) < PageSize
  BY DEF Ahead
<1>8. page # {} => end \in page
  <2>1. page \in SUBSET FrameRow /\ \A f, g \in page : f.id = g.id => f = g
    BY <1>6
  <2>2. page # {} => \E f \in page : \A g \in page : f = g \/ Before(g, f)
    <3> HIDE DEF page
    <3> QED
      BY <2>1, LastIs
  <2> QED
    BY <2>2
<1> HIDE DEF rest, page, end, seen
<1>9. page # {} \/ rest = {}
  BY <1>6, <1>7, PageHasFirst
<1>10. rest # page => end \in page /\ \A f \in rest \ page : Before(end, f)
  <2> SUFFICES ASSUME rest # page PROVE end \in page /\ \A f \in rest \ page : Before(end, f)
    OBVIOUS
  <2>1. end \in page /\ end \in rest
    BY <1>7, <1>8, <1>9
  <2> QED
    BY <1>6, <1>7, <2>1, RestIsBeyond
<1>11. ReaderInv'
  <2>1. reader'.unseen = seen \ page /\ seen \ page \subseteq rest \ page
        /\ seen \ page \subseteq FrameRow
    BY <1>3, <1>5, <1>6
  <2>2. CASE rest = page
    BY <1>3, <2>1, <2>2 DEF ReaderInv
  <2>3. CASE rest # page
    <3>1. reader'.at = end /\ end \in FrameRow /\ end # Done
      BY <1>3, <1>6, <1>7, <1>10, <2>3, WaveformMarks
    <3> QED
      BY <1>10, <2>1, <2>3, <3>1 DEF ReaderInv
  <2> QED
    BY <2>2, <2>3
<1> QED
  BY <1>2, <1>11 DEF WaveformIInv

-----------------------------------------------------------------------------
(* Waveform requests: the invariant holds, and with it the properties.     *)

LEMMA WaveformInitially == WaveformInit => WaveformIInv
BY WaveformConstants, FS_EmptySet DEF WaveformInit, WaveformIInv, WaveformTypeOK,
   TablesTypeOK, CapturesInv, RequestsInv, ReaderInv, Unfulfilled, NoReader

LEMMA WaveformStep == WaveformIInv /\ [WaveformNext]_waveformVars => WaveformIInv'
<1> SUFFICES ASSUME WaveformIInv, [WaveformNext]_waveformVars PROVE WaveformIInv'
  OBVIOUS
<1>1. CASE UNCHANGED waveformVars
  <2>1. UNCHANGED <<now, scope, asked, frames, order, outbox, latePosts, sequence, reader>>
    BY <1>1 DEF waveformVars
  <2> QED
    BY <2>1, TablesRest, ReaderRests DEF WaveformIInv, WaveformTypeOK
<1> QED
  BY <1>1, RequestInv, CaptureInv, PollInv, PostsInv, AroundInv, ReadPageInv
     DEF WaveformNext, EdgeStep

(* Requests, captures and the listing agree in every state.                 *)
THEOREM WaveformInvariance == WaveformSpec => []WaveformIInv
BY WaveformInitially, WaveformStep, PTL DEF WaveformSpec

LEMMA RequestsAreHeld == WaveformIInv => RequestsHold
<1> SUFFICES ASSUME WaveformIInv PROVE RequestsHold
  OBVIOUS
<1>1. ListingsAreWhole
  BY DEF WaveformIInv, ReaderInv, ListingsAreWhole
<1>2. Cardinality(Unfulfilled(asked)) <= 1
  <2>1. CASE Unfulfilled(asked) = {}
    BY <2>1, FS_EmptySet
  <2>2. CASE Unfulfilled(asked) # {}
    <3>1. PICK r : Unfulfilled(asked) = {r}
      BY <2>2 DEF WaveformIInv, RequestsInv
    <3>2. Cardinality({r}) = 1
      BY FS_Singleton
    <3> QED
      BY <3>1, <3>2
  <2> QED
    BY <2>1, <2>2
<1> QED
  BY <1>1, <1>2 DEF WaveformIInv, RequestsInv, Answers, RequestsHold, RequestsAreAnswered

LEMMA StepKeepsCaptures ==
  ASSUME WaveformIInv, WaveformNext
  PROVE  /\ \A c \in outbox \ outbox' : \E f \in frames' : f = Frame(f.id, c)
         /\ \A f \in frames \ frames' : f.captured < now - Retention
         /\ \A f \in frames, g \in frames' : f.sequence = g.sequence => f = g
<1>1. \A f, g \in frames : f.sequence = g.sequence => f = g
  BY DEF WaveformIInv, CapturesInv
<1>2. CASE Post \/ PostUnanswered \/ \E capture \in latePosts : LatePost(capture)
  <2>1. /\ UNCHANGED <<now, sequence>>
        /\ outbox' \subseteq outbox \cup latePosts
        /\ latePosts' \subseteq outbox \cup latePosts
    BY <1>2, OldestIs DEF Post, PostUnanswered, LatePost
  <2>2. CASE \E c \in outbox \cup latePosts : IngestCapture(c) /\
               \A d \in outbox \ outbox' : d = c /\ Accepts(c)
    BY <2>1, <2>2, IngestInv
  <2>3. CASE UNCHANGED <<asked, frames, outbox>>
    BY <1>1, <2>3
  <2> QED
    BY <1>2, <2>2, <2>3, OldestIs DEF Post, PostUnanswered, LatePost, Acknowledged
<1>3. CASE outbox \subseteq outbox' /\ frames' \in {frames, Frames}
  BY <1>1, <1>3, PruneIs
<1>4. \/ outbox \subseteq outbox' /\ frames' \in {frames, Frames}
      \/ Post \/ PostUnanswered \/ \E capture \in latePosts : LatePost(capture)
  BY DEF WaveformNext, EdgeStep, Request, Capture, Poll, RebootEdge, Tick, Move, ReadPage
<1> QED
  BY <1>2, <1>3, <1>4

LEMMA WaveformKeepsCaptures ==
  WaveformInit /\ [][WaveformNext]_waveformVars => CapturesAreKept
<1>1. WaveformIInv /\ [WaveformNext]_waveformVars =>
        [ /\ \A c \in outbox \ outbox' : \E f \in frames' : f = Frame(f.id, c)
          /\ \A f \in frames \ frames' : f.captured < now - Retention
          /\ \A f \in frames, g \in frames' : f.sequence = g.sequence => f = g ]_waveformVars
  BY StepKeepsCaptures
<1> QED
  BY <1>1, WaveformInitially, WaveformStep, PTL DEF CapturesAreKept

(* A capture leaves the outbox only when the backend has it, and it keeps   *)
(* it for its retention, whatever arrives late or twice.                    *)
THEOREM CapturesStay == WaveformSpec => CapturesAreKept
BY WaveformKeepsCaptures, PTL DEF WaveformSpec

LEMMA InputsAreOrdered ==
  ModelInputsInit /\ [][ModelInputsNext]_inputsVars => EvaluatedInOrder
<1>1. InputsIInv /\ [ModelInputsNext]_inputsVars =>
        [ \A r \in inputs' :
            LET before == {s \in inputs : s.ordinal = r.ordinal}
            IN  /\ before = {} => r.ordinal = ordinal' /\ ordinal' > ordinal
                /\ \A s \in before : s # r => s.status = "queued" /\
                     (\A q \in Queued : q.ordinal >= s.ordinal) ]_inputsVars
  BY StepEvaluates
<1> QED
  BY <1>1, InputsInitially, InputsStep, PTL DEF EvaluatedInOrder

-----------------------------------------------------------------------------
(* The parts together: each stage is a behaviour of its part, and the other *)
(* parts rest.                                                              *)

LEMMA PartsStart == ProcessesInit => ConfigInit /\ WaveformInit /\ ModelInputsInit /\ RingInit
BY DEF ProcessesInit, ProcessesStart

LEMMA PartsStep ==
  [ProcessesNext]_processVars =>
    /\ [ConfigNext]_configVars /\ [WaveformNext]_waveformVars
    /\ [ModelInputsNext]_inputsVars /\ [RingNext]_ringVars
BY DEF ProcessesNext, processVars, besideBackup, besideNode

(* What the node says it applied it holds, and what it says it stored stays *)
(* in its queue.                                                            *)
THEOREM DevicesHold == ProcessesSpec => []DeviceHolds
<1>1. ConfigIInv /\ RingIInv => DeviceHolds
  BY HeldIsApplied DEF RingIInv, DeviceHolds
<1> QED
  BY <1>1, PartsStart, PartsStep, ConfigInitially, ConfigStep, RingInitially, RingStep, PTL
     DEF ProcessesSpec

(* Waveform requests are answered once, where they were asked and within    *)
(* their life, and no listing misses a capture.                             *)
THEOREM RequestsStayAnswered == ProcessesSpec => []RequestsHold
BY PartsStart, PartsStep, WaveformInitially, WaveformStep, RequestsAreHeld, PTL
   DEF ProcessesSpec

(* A window is taken once for all time, a verdict stands on a whole group   *)
(* of windows that were, and their device stays registered.                 *)
THEOREM UploadsStayBacked == ProcessesSpec => []UploadsHold
BY PartsStart, PartsStep, InputsInitially, InputsStep, UploadsAreHeld, PTL DEF ProcessesSpec

(* What was decided or kept stays, and what waits in a queue keeps its turn.*)
THEOREM DecisionsStay == ProcessesSpec => DecisionsStand
<1>1. ProcessesSpec => VerdictStands
  BY PartsStart, PartsStep, ConfigKeepsVerdicts, PTL DEF ProcessesSpec
<1>2. ProcessesSpec => CapturesAreKept
  BY PartsStart, PartsStep, WaveformKeepsCaptures, PTL DEF ProcessesSpec
<1>3. ProcessesSpec => EvaluatedInOrder
  BY PartsStart, PartsStep, InputsAreOrdered, PTL DEF ProcessesSpec
<1>4. ProcessesSpec => DeliveredInOrder /\ NumbersAreNew
  BY PartsStart, PartsStep, RingDelivers, RingNumbers, PTL DEF ProcessesSpec
<1> QED
  BY <1>1, <1>2, <1>3, <1>4 DEF DecisionsStand
=============================================================================
