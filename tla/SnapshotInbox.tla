---------------------------- MODULE SnapshotInbox ----------------------------
(***************************************************************************)
(* What periodic_snapshots.py promises about one device's measurement      *)
(* windows: a window is received once, whatever order the board's uploads  *)
(* come in, it is bound to the model in use at its receipt, and it is      *)
(* decided once.  SnapshotInference implements this with preparation,      *)
(* leases and attempts; SnapshotEvents builds on it.                       *)
(***************************************************************************)
EXTENDS Naturals

CONSTANTS
  Windows,    \* measurement windows, numbered in the order of measurement
  Valid,      \* the windows whose quality is "valid"
  Bindings,   \* model bindings: a model with its inputs and threshold
  None        \* no row, or no model

ASSUME InboxAssumption ==
  /\ Windows \subseteq Nat
  /\ Valid \subseteq Windows
  /\ None \notin Bindings

VARIABLE rows   \* the table periodic_snapshots

Row == [late : BOOLEAN, binding : Bindings \cup {None},
        status : {"open", "completed", "unavailable", "waiting_model"}]
ASSUME NoneIsNoRow == None \notin Row

Received == {w \in Windows : rows[w] # None}

InboxInit == rows = [w \in Windows |-> None]

(* ingest: an upload of a new window.  An upload seen before changes        *)
(* nothing, and one that contradicts a stored window is refused.            *)
ReceivedStatus(w, expired) ==
  IF w \in Valid /\ ~expired THEN "open" ELSE "unavailable"
IsLate(w) == \E v \in Received : v > w
Receive(w, b, expired) ==
  /\ rows[w] = None
  /\ rows' = [rows EXCEPT ![w] =
                [late |-> IsLate(w), binding |-> b,
                 status |-> ReceivedStatus(w, expired)]]

(* Preparation and inference together: the final status of a window.        *)
Decide(w, s) ==
  /\ rows[w] # None /\ rows[w].status = "open"
  /\ s \in {"completed", "unavailable", "waiting_model"}
  /\ s = "completed" => rows[w].binding # None
  /\ rows' = [rows EXCEPT ![w].status = s]

InboxNext ==
  \E w \in Windows :
    \/ \E b \in Bindings \cup {None}, expired \in BOOLEAN : Receive(w, b, expired)
    \/ \E s \in {"completed", "unavailable", "waiting_model"} : Decide(w, s)

InboxSpec == InboxInit /\ [][InboxNext]_rows
=============================================================================
