-------------------------- MODULE WaveformRequests --------------------------
(***************************************************************************)
(* A waveform an operator asks for: edge_analysis.py, and the node that    *)
(* polls for the request, puts the next capture in its outbox and posts    *)
(* the outbox head until it is acknowledged (main.cpp, edge_analysis.cpp). *)
(*                                                                         *)
(* Time moves in ticks; both sides agree on it.  The answer to a post may  *)
(* be lost, a post the node gave up on arrive later, the node reboot, its  *)
(* flash fail, the mapping change.  Reading the captures page by page, as  *)
(* list_for does it, goes on meanwhile.                                    *)
(***************************************************************************)
EXTENDS Integers, FiniteSets
CONSTANTS
  RequestIds, FrameIds,  \* tokens; frame ids are ordered, at random
  Places, Home,          \* site and asset: of the mapping, and built into the node
  Life, Retention,       \* ticks a request and a capture are good for
  Slots, Capacity, PageSize,
  Horizon, MaxCaptures, MaxMoves, MaxTroubles, Nobody, Done

ASSUME WaveformConstants ==
  /\ Home \in Places /\ FrameIds \subseteq Nat
  /\ {Life, Retention, Slots, Capacity, PageSize} \subseteq Nat \ {0}
  /\ {Horizon, MaxCaptures, MaxMoves, MaxTroubles} \subseteq Nat

\* A capture in the node's outbox, and the backend's row of it.
CaptureFile == [sequence : Nat, captured : Nat, request : RequestIds \cup {Nobody}]
FrameRow == [id : FrameIds, sequence : Nat, captured : Nat, request : RequestIds \cup {Nobody}]
Frame(id, capture) == [id |-> id, sequence |-> capture.sequence,
                       captured |-> capture.captured, request |-> capture.request]
ASSUME WaveformMarks ==
  Nobody \notin RequestIds \cup FrameIds \cup Places \cup FrameRow /\ Done \notin FrameRow

VARIABLES
  now,
  scope,     \* where the device is mapped, or Nobody while the mapping is inactive
  asked,     \* the rows of requests
  frames,    \* the rows of frames
  order,     \* the request the node holds in memory, or Nobody
  outbox,    \* captures in flash
  usable,    \* analysisStorageUsable
  latePosts, \* captures of posts the node gave up on
  sequence,  \* the last one the node used
  reader,    \* a listing: its cursor, and captures there all along, not yet shown
  moves, troubles

waveformVars == <<now, scope, asked, frames, order, outbox, usable, latePosts, sequence,
                  reader, moves, troubles>>

NoReader == [at |-> Done, unseen |-> {}]

WaveformInit ==
  /\ now = 0 /\ scope = Home /\ asked = {} /\ frames = {}
  /\ order = Nobody /\ outbox = {} /\ usable = TRUE /\ latePosts = {} /\ sequence = 0
  /\ reader = NoReader /\ moves = 0 /\ troubles = 0

Trouble == troubles < MaxTroubles /\ troubles' = troubles + 1

-----------------------------------------------------------------------------
(* The backend.                                                            *)

\* mutant: requests go as soon as they have expired for that long as captures.
Asked_Mut == {r \in asked : r.created >= now - Retention}
\* prune: both tables by age, a request by the end of its life.
Asked == {r \in asked : r.expires >= now - Retention}
Frames == {f \in frames : f.captured >= now - Retention}

Unfulfilled(rows) == {r \in rows : r.expires >= now /\ r.frame = Nobody}

\* request, by an operator who sees the device where it is mapped.  A retry with
\* the same id gets the state of the row; another one waits for it to be over.
Request(id) ==
  /\ scope # Nobody
  /\ asked' = IF (\E r \in Asked : r.id = id) \/ Unfulfilled(Asked) # {} THEN Asked
              ELSE Asked \cup {[id |-> id, scope |-> scope, created |-> now,
                                expires |-> now + Life, frame |-> Nobody]}
  /\ frames' = Frames
  /\ UNCHANGED <<now, scope, order, outbox, usable, latePosts, sequence, reader, moves, troubles>>

\* mutant: a poll is told about a request that has been fulfilled.
PendingRequests_Mut == {r \in asked : r.expires >= now /\ r.scope = scope}
\* The request a poll is told about.
PendingRequests == {r \in Unfulfilled(asked) : r.scope = scope}

\* normalize_frame and validate_telemetry_mapping.
Admissible(capture) == capture.captured >= now - Retention /\ scope = Home

Fulfils(capture, r) ==
  /\ r.id = capture.request /\ r.scope = Home /\ r.frame = Nobody
  /\ r.created <= capture.captured /\ capture.captured <= r.expires

KnownFrames(capture) == \E f \in Frames : f.sequence = capture.sequence
Fresh(capture) ==
  /\ ~KnownFrames(capture) /\ Cardinality(Frames) < Capacity
  /\ capture.request # Nobody => \E r \in Asked : Fulfils(capture, r)

Accepts(capture) == Admissible(capture) /\ (KnownFrames(capture) \/ Fresh(capture))

\* ingest: what it does to the tables, and whether it is acknowledged.
IngestCapture(capture) ==
  CASE ~Admissible(capture) -> UNCHANGED <<asked, frames>>
    [] Admissible(capture) /\ ~Fresh(capture) -> asked' = Asked /\ frames' = Frames
    [] OTHER ->
         \E id \in FrameIds \ ({f.id : f \in frames} \cup {r.frame : r \in asked}) :
           /\ frames' = Frames \cup {Frame(id, capture)}
           /\ asked' = {IF r.id = capture.request THEN [r EXCEPT !.frame = id] ELSE r :
                          r \in Asked}

-----------------------------------------------------------------------------
(* The node.                                                               *)

\* forCapture: an expired request is forgotten.
Authority == IF order # Nobody /\ now < order.expires THEN order ELSE Nobody

\* preserveAnalysis of a measured window: skipped between two samples of the
\* stream and with a full outbox; the file may not be written, or not be verified.
Capture(how) ==
  /\ usable /\ sequence < MaxCaptures /\ sequence' = sequence + 1
  /\ how = "skipped" => Authority = Nobody \/ Cardinality(outbox) = Slots
  /\ how # "skipped" => Cardinality(outbox) < Slots
  /\ IF how \in {"unwritten", "unverified"} THEN Trouble ELSE UNCHANGED troubles
  /\ outbox' = IF how \in {"skipped", "unwritten"} THEN outbox
               ELSE outbox \cup {[sequence |-> sequence + 1, captured |-> now,
                                  request |-> IF Authority = Nobody THEN Nobody
                                              ELSE Authority.id]}
  /\ usable' = (how # "unverified")
  /\ order' = IF how = "stored" THEN Nobody ELSE Authority
  /\ UNCHANGED <<now, scope, asked, frames, latePosts, reader, moves>>

\* serviceEdgeAnalysis with an empty outbox; a refusal leaves the memory alone.
Poll ==
  /\ usable /\ outbox = {} /\ scope # Nobody
  /\ order' = IF scope # Home \/ PendingRequests = {} THEN Nobody
              ELSE LET r == CHOOSE r \in PendingRequests :
                             \A s \in PendingRequests : r.created <= s.created
                   IN  [id |-> r.id, expires |-> r.expires]
  /\ UNCHANGED <<now, scope, asked, frames, outbox, usable, latePosts, sequence, reader,
                 moves, troubles>>

OldestCapture == CHOOSE c \in outbox : \A d \in outbox : c.sequence <= d.sequence

Acknowledged == Accepts(OldestCapture)

\* serviceEdgeAnalysis: one capture is posted, and answered.
Post ==
  /\ usable /\ outbox # {}
  /\ IngestCapture(OldestCapture)
  /\ outbox' = IF Acknowledged THEN outbox \ {OldestCapture} ELSE outbox
  /\ UNCHANGED <<now, scope, order, usable, latePosts, sequence, reader, moves, troubles>>

\* The answer is lost, or the node gives up and the post arrives later, if ever.
PostUnanswered ==
  /\ usable /\ outbox # {} /\ Trouble
  /\ \/ IngestCapture(OldestCapture) /\ UNCHANGED latePosts
     \/ latePosts' = latePosts \cup {OldestCapture} /\ UNCHANGED <<asked, frames>>
  /\ UNCHANGED <<now, scope, order, outbox, usable, sequence, reader, moves>>

LatePost(capture) ==
  /\ IngestCapture(capture) /\ latePosts' = latePosts \ {capture}
  /\ UNCHANGED <<now, scope, order, outbox, usable, sequence, reader, moves, troubles>>

RebootEdge ==
  /\ order # Nobody \/ ~usable
  /\ Trouble /\ order' = Nobody /\ usable' = TRUE
  /\ UNCHANGED <<now, scope, asked, frames, outbox, latePosts, sequence, reader, moves>>

-----------------------------------------------------------------------------
(* Time, the mapping, and a reader.                                        *)

Tick ==
  /\ now < Horizon /\ now' = now + 1
  /\ UNCHANGED <<scope, asked, frames, order, outbox, usable, latePosts, sequence, reader,
                 moves, troubles>>

Move ==
  /\ moves < MaxMoves /\ moves' = moves + 1
  /\ scope' \in (Places \cup {Nobody}) \ {scope}
  /\ UNCHANGED <<now, asked, frames, order, outbox, usable, latePosts, sequence, reader, troubles>>

\* ORDER BY captured DESC, id DESC.
Before(f, g) ==
  f.captured > g.captured \/ (f.captured = g.captured /\ f.id > g.id)

Beyond(f, cursor) == cursor = Nobody \/ Before(cursor, f)

Cursor == IF reader.at = Done THEN Nobody ELSE reader.at

\* list_for: one page.
ReadPage ==
  LET rest == {f \in Frames : Beyond(f, Cursor)}
      page == {f \in rest : Cardinality({g \in rest : Before(g, f)}) < PageSize}
  IN  /\ page # {} \/ reader.at # Done
      /\ frames' = Frames /\ asked' = Asked
      /\ reader' = [at |-> IF rest = page THEN Done
                           ELSE CHOOSE f \in page : \A g \in page : f = g \/ Before(g, f),
                    unseen |-> (IF Cursor = Nobody THEN Frames
                                ELSE reader.unseen \cap Frames) \ page]
      /\ UNCHANGED <<now, scope, order, outbox, usable, latePosts, sequence, moves, troubles>>

-----------------------------------------------------------------------------
EdgeStep == Poll \/ Post

WaveformNext ==
  \/ \E id \in RequestIds : Request(id)
  \/ \E how \in {"stored", "skipped", "unwritten", "unverified"} : Capture(how)
  \/ EdgeStep \/ PostUnanswered
  \/ \E capture \in latePosts : LatePost(capture)
  \/ RebootEdge \/ Tick \/ Move \/ ReadPage

WaveformFairness == WF_waveformVars(EdgeStep)

WaveformSpec == WaveformInit /\ [][WaveformNext]_waveformVars /\ WaveformFairness
-----------------------------------------------------------------------------
(* Properties.                                                             *)

\* A capture with samples answers exactly one request, which says so for as long
\* as the capture is kept: taken within its life, where it was asked for; and a
\* device has one request open at a time.
RequestsAreAnswered ==
  /\ \A f \in frames : f.request # Nobody =>
       \E r \in asked :
         /\ r.id = f.request /\ r.frame = f.id /\ r.scope = Home
         /\ f.captured \in r.created..r.expires
  /\ \A r \in asked, f \in frames : r.frame = f.id => f.request = r.id
  /\ Cardinality(Unfulfilled(asked)) <= 1

\* A capture leaves the outbox when the backend has it, and the backend keeps it
\* unchanged for its retention, whatever arrives late or twice.
CapturesAreKept ==
  [][ /\ \A c \in outbox \ outbox' : \E f \in frames' : f = Frame(f.id, c)
      /\ \A f \in frames \ frames' : f.captured < now - Retention
      /\ \A f \in frames, g \in frames' : f.sequence = g.sequence => f = g ]_waveformVars

\* A listing shows every capture that was there all along, page by page, also when
\* captures come and go and several are of the same time.
ListingsAreWhole == reader.at = Done => reader.unseen = {}

Blocked == scope # Home \/ Cardinality(Frames) >= Capacity

\* Nothing stops the outbox for good but a device mapped elsewhere, a backend that
\* is full, flash that failed its check, and a head older than the retention.
OutboxMoves ==
  usable /\ outbox # {} ~>
    ~usable \/ outbox = {} \/ Blocked \/ OldestCapture.captured < now - Retention

\* "No permanently rejected raw queue head."
OutboxDrains == usable /\ outbox # {} ~> ~usable \/ outbox = {} \/ Blocked
=============================================================================
