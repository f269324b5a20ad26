--------------------------- MODULE ServerProcess ---------------------------
(***************************************************************************)
(* The server process (server.py, app.py): create_server opens the stores  *)
(* and starts the workers, requests get a thread each, and server_close    *)
(* brings everything down in an order of its own, at SIGTERM or when the   *)
(* creation fails half way.                                                *)
(***************************************************************************)
EXTENDS Integers, Sequences
CONSTANTS Requests

Threads == {"retention", "alert", "windows", "snapshots", "inference"}
Actors == Requests \cup Threads \cup {"delivery"}
ASSUME RequestsAreNoWorkers == Requests \cap (Threads \cup {"delivery"}) = {}

VARIABLES
  lifetime,  \* "opening", "serving", "closing" or "ended"
  step,      \* how far the opening or the closing is
  inferring, \* a model is configured
  open,      \* stores
  fence,     \* _closing
  waiting,   \* requests between get_request and process_request
  actor,     \* threads: "off", "idle" or "busy" with a database
  told       \* workers whose stop event is set

serverVars == <<lifetime, step, inferring, open, fence, waiting, actor, told>>

ServerInit ==
  /\ lifetime = "opening" /\ step = 1 /\ inferring \in BOOLEAN
  /\ open = {} /\ fence = FALSE /\ waiting = {} /\ told = {}
  /\ actor = [a \in Actors |-> "off"]

-----------------------------------------------------------------------------
(* create_server.                                                          *)

Opening == <<"runtime", "socket", "snapshots", "history", "inference", "windows", "raw",
             "analysis", "quality", "alerts">>
Starting == <<"inference", "windows", "snapshots", "alert", "retention">>
Wanted(part) == part = "inference" => inferring

OpenNext ==
  /\ lifetime = "opening" /\ step <= Len(Opening)
  /\ step' = step + 1
  /\ open' = open \cup {s \in {Opening[step]} : Wanted(s)}
  /\ UNCHANGED <<lifetime, inferring, fence, waiting, actor, told>>

StartNext ==
  /\ lifetime = "opening" /\ step > Len(Opening)
  /\ LET k == step - Len(Opening)
     IN  /\ actor' = IF Wanted(Starting[k]) THEN [actor EXCEPT ![Starting[k]] = "idle"]
                     ELSE actor
         /\ IF k = Len(Starting) THEN lifetime' = "serving" /\ step' = 0
            ELSE step' = step + 1 /\ UNCHANGED lifetime
  /\ UNCHANGED <<inferring, open, fence, waiting, told>>

\* Without its socket there is no server to close; after that server_close is
\* called on what there is.
OpeningFails ==
  /\ lifetime = "opening"
  /\ IF "socket" \in open
     THEN lifetime' = "closing" /\ fence' = TRUE /\ step' = 1 /\ UNCHANGED open
     ELSE lifetime' = "ended" /\ open' = {} /\ UNCHANGED <<fence, step>>
  /\ UNCHANGED <<inferring, waiting, actor, told>>

-----------------------------------------------------------------------------
(* Requests and workers.                                                   *)

\* What a thread may use while it is at work.
Uses(a) ==
  CASE a = "retention" -> {"runtime", "quality", "analysis", "windows", "raw"}
                            \cup (IF inferring THEN {"inference"} ELSE {})
    [] a = "alert" -> {"runtime", "snapshots", "alerts"}
    [] a = "delivery" -> {"runtime", "alerts", "raw", "snapshots"}
    [] a \in {"windows", "snapshots"} -> {a, "runtime"}
    [] a = "inference" -> {"inference"}
    [] OTHER -> {"runtime", "history", "quality", "analysis", "windows", "raw",
                 "snapshots", "alerts"} \cup (IF inferring THEN {"inference"} ELSE {})

Accept(r) ==
  /\ lifetime \in {"serving", "closing"} /\ "socket" \in open
  /\ r \notin waiting /\ actor[r] = "off"
  /\ waiting' = waiting \cup {r}
  /\ UNCHANGED <<lifetime, step, inferring, open, fence, actor, told>>

Admitted == ~fence

\* process_request, under the admission lock: a thread is registered or the
\* connection is shut.
ProcessRequest(r) ==
  /\ r \in waiting /\ waiting' = waiting \ {r}
  /\ actor' = IF Admitted THEN [actor EXCEPT ![r] = "idle"] ELSE actor
  /\ UNCHANGED <<lifetime, step, inferring, open, fence, told>>

\* A request works once and is answered, or times out; a worker goes round until
\* it is told to stop.
Begin(a) ==
  /\ actor[a] = "idle" /\ a \notin told
  /\ actor' = [actor EXCEPT ![a] = "busy"]
  /\ UNCHANGED <<lifetime, step, inferring, open, fence, waiting, told>>

EndWork(a) ==
  /\ actor[a] = "busy"
  /\ actor' = [actor EXCEPT ![a] = IF a \in Threads THEN "idle" ELSE "off"]
  /\ UNCHANGED <<lifetime, step, inferring, open, fence, waiting, told>>

\* An alert tick hands a delivery to the pool.
Deliver ==
  /\ actor["alert"] = "busy" /\ actor["delivery"] = "off"
  /\ actor' = [actor EXCEPT !["delivery"] = "busy"]
  /\ UNCHANGED <<lifetime, step, inferring, open, fence, waiting, told>>

\* The loop condition, or a client that never finishes its request.
Leave(a) ==
  /\ actor[a] = "idle" /\ (a \in Threads => a \in told)
  /\ actor' = [actor EXCEPT ![a] = "off"]
  /\ UNCHANGED <<lifetime, step, inferring, open, fence, waiting, told>>

-----------------------------------------------------------------------------
(* server_close.                                                           *)

\* SIGTERM, or a close from another thread while the accept loop still runs.
Terminate ==
  /\ lifetime = "serving" /\ lifetime' = "closing" /\ fence' = TRUE /\ step' = 1
  /\ UNCHANGED <<inferring, open, waiting, actor, told>>

Quiet(waits, closes) == [waits |-> waits, closes |-> closes]

\* mutant: alerts are closed after the stores their guards read.
Closing_Mut ==
  <<Quiet({"retention"}, {}), Quiet({"alert"}, {}),
    Quiet({}, {"socket"}), Quiet(Requests, {}),
    Quiet({"windows"}, {"windows"}), Quiet({}, {"raw"}),
    Quiet({"snapshots"}, {"snapshots"}), Quiet({"delivery"}, {"alerts"}),
    Quiet({"inference"}, {"inference"}), Quiet({}, {"history"}),
    Quiet({}, {"quality"}), Quiet({}, {"analysis"}), Quiet({}, {"runtime"})>>
\* Who is told to stop and waited for, and what is closed then.
Closing ==
  <<Quiet({"retention"}, {}), Quiet({"alert"}, {}),
    Quiet({}, {"socket"}), Quiet(Requests, {}),
    Quiet({"delivery"}, {"alerts"}),
    Quiet({"windows"}, {"windows"}), Quiet({}, {"raw"}),
    Quiet({"snapshots"}, {"snapshots"}),
    Quiet({"inference"}, {"inference"}), Quiet({}, {"history"}),
    Quiet({}, {"quality"}), Quiet({}, {"analysis"}), Quiet({}, {"runtime"})>>

Stopped(k) == Closing[k].waits \cap Threads

TellNext ==
  /\ lifetime = "closing" /\ ~(Stopped(step) \subseteq told)
  /\ told' = told \cup Stopped(step)
  /\ UNCHANGED <<lifetime, step, inferring, open, fence, waiting, actor>>

CloseNext ==
  /\ lifetime = "closing"
  /\ Stopped(step) \subseteq told
  /\ \A a \in Closing[step].waits : actor[a] = "off"
  /\ open' = open \ Closing[step].closes
  /\ IF step = Len(Closing) THEN lifetime' = "ended" /\ UNCHANGED step
     ELSE step' = step + 1 /\ UNCHANGED lifetime
  /\ UNCHANGED <<inferring, fence, waiting, actor, told>>

-----------------------------------------------------------------------------
ServerNext ==
  \/ OpenNext \/ StartNext \/ OpeningFails
  \/ \E r \in Requests : Accept(r) \/ ProcessRequest(r)
  \/ \E a \in Actors : Begin(a) \/ EndWork(a) \/ Leave(a)
  \/ Deliver \/ Terminate \/ TellNext \/ CloseNext

\* Threads go on, and a request is over in 30 seconds.
ServerFairness ==
  /\ WF_serverVars(TellNext \/ CloseNext)
  /\ \A a \in Actors : WF_serverVars(EndWork(a)) /\ WF_serverVars(Leave(a))
  /\ \A r \in Requests : WF_serverVars(ProcessRequest(r))

ServerSpec == ServerInit /\ [][ServerNext]_serverVars /\ ServerFairness
-----------------------------------------------------------------------------
(* Properties.                                                             *)

\* No thread is at work with a store that has been closed: "a 2xx write must commit
\* before its DB is closed", and deliveries read event state while they drain.
UsesAreOpen == \A a \in Actors : actor[a] = "busy" => Uses(a) \subseteq open

\* A process that has ended, also one whose creation failed, has left no store open
\* and no worker running.
EndsClean ==
  lifetime = "ended" => open = {} /\ \A a \in Actors : actor[a] = "off"

\* The server: no thread works with a closed store, and nothing is left at the end.
ServerHolds == UsesAreOpen /\ EndsClean

\* Closing comes to its end, whatever the threads were doing.
CloseEnds == lifetime = "closing" ~> lifetime = "ended"
=============================================================================
