------------------------------ MODULE FlashRing ------------------------------
(***************************************************************************)
(* The node's offline buffer (firmware main.cpp, firmware_logic.cpp): a    *)
(* ring of records in flash, the watermark of what was consumed and the    *)
(* floor of the sequence numbers in NVS, the queue in RAM made of them at  *)
(* a boot, and the one thread that sends, stores and replays packets.      *)
(*                                                                         *)
(* Power may fail between any two writes and tear the one to the ring;     *)
(* writes and reads may fail, a record may decay, NVS may lose the floor.  *)
(* An NVS value is written whole or not at all.                            *)
(*                                                                         *)
(* A packet is its number; since is the boot session whose clock must be   *)
(* anchored to give it a time, 0 if it has one.  Left out: records in the  *)
(* format of an older firmware, the contents of the archive, which keeps   *)
(* the latest only, and the reuse of the anchors' slots.  Whether a health *)
(* report goes first is a choice.                                          *)
(***************************************************************************)
EXTENDS Integers, FiniteSets, FiniteSetsExt
CONSTANTS
  RingSlots,     \* RING_SLOT_COUNT
  AckBatch,      \* ACK_WATERMARK_BATCH_SIZE
  Turn,          \* REPLAY_MAX_RECORDS_PER_LOOP
  LastNumber,    \* UINT32_MAX
  MaxFlaws, Blank

ASSUME RingConstants ==
  /\ RingSlots \in Nat \ {0, 1} /\ {AckBatch, Turn, LastNumber, MaxFlaws} \subseteq Nat

\* A packet as it lies in the ring, and in the loop's hands.
RingRecord == [ord : Nat, seq : Nat, since : Nat]
RingPacket == [seq : Nat, since : Nat, refused : BOOLEAN]
ASSUME BlankIsNoRecord == Blank \notin RingRecord \cup RingPacket

RingCapacity == RingSlots - 1

VARIABLES
  ring, mark, floor, bootSession, anchors,         \* in flash
  at, batch, fresh,                                \* the loop, and its new packet
  head, next, count, pending, unsaved,             \* the queue, and its watermark
  last, clock,
  delivered,                                       \* by the backend
  archived, kept, lost, made,                      \* numbers of packets, ever
  forgot, flaws

queueVars == <<head, next, count>>
markVars == <<mark, pending, unsaved>>
numberVars == <<floor, last, made, forgot>>
timeVars == <<bootSession, anchors, clock>>
ringVars == <<ring, markVars, numberVars, timeVars, at, batch, fresh, queueVars,
              delivered, archived, kept, lost, flaws>>

RingInit ==
  /\ ring = [s \in 0 .. RingSlots - 1 |-> Blank]
  /\ mark = 0 /\ floor = 0 /\ bootSession = 0 /\ anchors = {}
  /\ at = "off" /\ batch = 0 /\ fresh = Blank
  /\ head = 0 /\ next = 0 /\ count = 0 /\ pending = 0 /\ unsaved = 0
  /\ last = 0 /\ clock = FALSE
  /\ delivered = {} /\ archived = {} /\ kept = {} /\ lost = {} /\ made = {}
  /\ forgot = FALSE /\ flaws = 0

Larger(a, b) == IF a > b THEN a ELSE b
Smaller(a, b) == IF a < b THEN a ELSE b
Flaws(n) == flaws + n <= MaxFlaws /\ flaws' = flaws + n
Cost(ok) == IF ok THEN 0 ELSE 1

SlotOf(o) == o % RingSlots
Record(o) == ring[SlotOf(o)]
Readable(o) == Record(o) # Blank /\ Record(o).ord = o

-----------------------------------------------------------------------------
(* The watermark.                                                          *)

Commit(o, n, ok) ==
  /\ ~ok => o > mark
  /\ mark' = IF ok THEN Larger(mark, o) ELSE mark
  /\ unsaved' = IF ok THEN 0 ELSE n
  /\ pending' = o

\* noteConsumedOrdinal: written at once, or when enough have been consumed.
NoteConsumed(o, force, ok) ==
  IF force \/ unsaved + 1 >= AckBatch
  THEN Commit(Larger(pending, o), unsaved + 1, ok)
  ELSE /\ ok /\ pending' = Larger(pending, o)
       /\ unsaved' = unsaved + 1 /\ UNCHANGED mark

ConsumeHead(force, ok) ==
  /\ head' = head + 1 /\ count' = count - 1 /\ UNCHANGED next
  /\ NoteConsumed(head, force \/ count = 1, ok)

-----------------------------------------------------------------------------
(* Boot: restoreQueueFromFlash and the sequence floor.                     *)

OnFlash == {ring[s] : s \in DOMAIN ring} \ {Blank}
Active == {r \in OnFlash : r.ord > mark}
Ords == {r.ord : r \in Active}

\* mutant: the queue is as long as there are readable records.
RecoveredCount_Mut == Cardinality(Active)
\* Unreadable records within the span count: they are skipped when they are read.
RecoveredCount == IF Active = {} THEN 0 ELSE Smaller(Max(Ords) - Min(Ords) + 1, RingCapacity)
RecoveredHead == IF Active = {} THEN 0 ELSE Larger(Min(Ords), Max(Ords) - RingCapacity + 1)
RecoveredNext == Max({mark} \cup {r.ord : r \in OnFlash}) + 1
RecoveredNumber == Max({floor} \cup {r.seq : r \in OnFlash})

\* A record that RingCapacity newer ones leave no room for is dropped.
Boot ==
  /\ at = "off" /\ at' = "loop"
  /\ bootSession' = bootSession + 1
  /\ head' = RecoveredHead /\ count' = RecoveredCount /\ next' = RecoveredNext
  /\ last' = RecoveredNumber
  /\ \E ok, floorOk \in BOOLEAN :
       /\ Commit(IF Active # {} /\ RecoveredHead > Min(Ords) THEN RecoveredHead - 1 ELSE mark,
                 AckBatch, ok)
       /\ floorOk \/ floor < RecoveredNumber
       /\ floor' = IF floorOk THEN RecoveredNumber ELSE floor
       /\ Flaws(Cost(ok) + Cost(floorOk))
  /\ lost' = lost \cup {r.seq : r \in {r \in Active : r.ord + RingCapacity <= Max(Ords)}}
  /\ UNCHANGED <<ring, anchors, clock, batch, fresh, delivered, archived, kept, made, forgot>>

\* The beginning of a loop: the clock, its anchor, and whether anything is replayed.
StartLoop(online, synced, ok) ==
  /\ at = "loop" /\ at' = "replay"
  /\ clock' = (clock \/ (online /\ synced))
  /\ ~ok => clock' /\ bootSession \notin anchors
  /\ anchors' = IF clock' /\ ok THEN anchors \cup {bootSession} ELSE anchors
  /\ batch' = IF online THEN Smaller(count, Turn) ELSE 0
  /\ Flaws(Cost(ok))
  /\ UNCHANGED <<ring, markVars, numberVars, bootSession, fresh, queueVars,
                 delivered, archived, kept, lost>>

-----------------------------------------------------------------------------
(* replayQueueBatch.                                                       *)

Replaying == at = "replay" /\ batch > 0 /\ count > 0
HeadRecord == Record(head)

EndReplay ==
  /\ at = "replay" /\ (batch = 0 \/ count = 0)
  /\ at' = "make" /\ batch' = 0
  /\ UNCHANGED <<ring, markVars, numberVars, timeVars, fresh, queueVars,
                 delivered, archived, kept, lost, flaws>>

\* The head stays, after so many failures, and the watermark is written.
Pause(failures) ==
  /\ at' = "make" /\ batch' = 0
  /\ \E ok \in BOOLEAN : Commit(pending, unsaved, ok) /\ Flaws(failures + Cost(ok))
  /\ UNCHANGED <<ring, numberVars, timeVars, fresh, queueVars, kept, lost>>

CannotRead == Replaying /\ Pause(1) /\ UNCHANGED <<delivered, archived>>

\* When this empties the queue the watermark is written once more.
SkipCorrupt ==
  /\ Replaying /\ ~Readable(head)
  /\ \E ok \in BOOLEAN :
       /\ ConsumeHead(TRUE, ok)
       /\ Flaws(IF count = 1 THEN 2 * Cost(ok) ELSE Cost(ok))
  /\ UNCHANGED <<ring, numberVars, timeVars, at, batch, fresh,
                 delivered, archived, kept, lost>>

Timed(r) == r.since = 0 \/ r.since \in anchors

\* Its time is not known yet, or a health report goes first.
Defer ==
  /\ Replaying /\ Readable(head) /\ (~Timed(HeadRecord) => HeadRecord.since = bootSession)
  /\ Pause(0) /\ UNCHANGED <<delivered, archived>>

\* The time of an earlier session is lost, or the backend refuses the packet for good:
\* it is put into the archive before it leaves the ring.
Isolate ==
  /\ Replaying /\ Readable(head)
  /\ IF Timed(HeadRecord) THEN HeadRecord.seq \notin delivered \/ forgot
     ELSE HeadRecord.since # bootSession
  /\ \/ /\ archived' = archived \cup {HeadRecord.seq} /\ at' = "consume"
        /\ UNCHANGED <<ring, markVars, numberVars, timeVars, batch, fresh, queueVars,
                       delivered, kept, lost, flaws>>
     \/ Pause(1) /\ UNCHANGED <<delivered, archived>>

ConsumeArchived ==
  /\ at = "consume"
  /\ \E ok \in BOOLEAN : ConsumeHead(FALSE, ok) /\ Flaws(Cost(ok))
  /\ IF batch > 0 THEN at' = "replay" /\ batch' = batch - 1
     ELSE at' = "loop" /\ UNCHANGED batch
  /\ UNCHANGED <<ring, numberVars, timeVars, fresh, delivered, archived, kept, lost>>

\* A validated acknowledgement, also of a repetition.
ReplayAcknowledged ==
  /\ Replaying /\ Readable(head) /\ Timed(HeadRecord)
  /\ delivered' = delivered \cup {HeadRecord.seq}
  /\ \E ok \in BOOLEAN : ConsumeHead(FALSE, ok) /\ Flaws(Cost(ok))
  /\ batch' = batch - 1
  /\ UNCHANGED <<ring, numberVars, timeVars, at, fresh, archived, kept, lost>>

\* No answer, one that proves nothing, or an error that is not the packet's.
Unanswered ==
  /\ Replaying /\ Readable(head) /\ Timed(HeadRecord)
  /\ delivered' \in {delivered, delivered \cup {HeadRecord.seq}}
  /\ Pause(0) /\ UNCHANGED archived

-----------------------------------------------------------------------------
(* A new packet: createPacket, and loop to its end.                        *)

NoSample ==
  /\ at = "make" /\ at' = "loop"
  /\ UNCHANGED <<ring, markVars, numberVars, timeVars, batch, fresh, queueVars,
                 delivered, archived, kept, lost, flaws>>

\* mutant: the number is used before it is written.
Reserved_Mut(n) == floor
\* allocateSequence: in NVS before it is used.
Reserved(n) == n

Make ==
  /\ at = "make" /\ last < LastNumber
  /\ floor' = Reserved(last + 1) /\ last' = last + 1 /\ made' = made \cup {last + 1}
  /\ fresh' = [seq |-> last + 1, since |-> IF clock THEN 0 ELSE bootSession, refused |-> FALSE]
  /\ at' = "send"
  /\ UNCHANGED <<ring, markVars, timeVars, forgot, batch, queueVars,
                 delivered, archived, kept, lost, flaws>>

\* The floor, the recovered or the next one, was written or not.
CannotMake ==
  /\ at = "make" /\ last < LastNumber
  /\ floor' \in {floor, Larger(floor, last), last + 1}
  /\ at' = "loop" /\ Flaws(1)
  /\ UNCHANGED <<ring, markVars, last, made, forgot, timeVars, batch, fresh, queueVars,
                 delivered, archived, kept, lost>>

\* Only a packet with a time and nothing before it is sent directly.
SendDirectly ==
  /\ at = "send" /\ fresh.since = 0 /\ count = 0
  /\ \/ /\ delivered' = delivered \cup {fresh.seq} /\ at' = "loop" /\ fresh' = Blank
     \/ /\ delivered' \in {delivered, delivered \cup {fresh.seq}} /\ at' = "write"
        /\ UNCHANGED fresh
     \/ /\ fresh.seq \notin delivered \/ forgot
        /\ fresh' = [fresh EXCEPT !.refused = TRUE] /\ at' = "write"
        /\ UNCHANGED delivered
  /\ UNCHANGED <<ring, markVars, numberVars, timeVars, batch, queueVars,
                 archived, kept, lost, flaws>>

StoreFresh ==
  /\ at = "send" /\ at' = "write"
  /\ UNCHANGED <<ring, markVars, numberVars, timeVars, batch, fresh, queueVars,
                 delivered, archived, kept, lost, flaws>>

-----------------------------------------------------------------------------
(* enqueuePersistent.                                                      *)

RingFull == count = RingCapacity
FreshRecord == [ord |-> next, seq |-> fresh.seq, since |-> fresh.since]

MakeRoom ==
  /\ at = "write" /\ RingFull /\ ~Readable(head)
  /\ \E ok \in BOOLEAN : ConsumeHead(TRUE, ok) /\ Flaws(Cost(ok))
  /\ UNCHANGED <<ring, numberVars, timeVars, at, batch, fresh,
                 delivered, archived, kept, lost>>

\* Into the spare slot.
Put ==
  /\ at = "write" /\ (RingFull => Readable(head))
  /\ ring' = [ring EXCEPT ![SlotOf(next)] = FreshRecord] /\ at' = "admit"
  /\ UNCHANGED <<markVars, numberVars, timeVars, batch, fresh, queueVars,
                 delivered, archived, kept, lost, flaws>>

\* The oldest cannot be read, or the new one not be written and read back, though it
\* may be there.
CannotPut ==
  /\ at = "write" /\ at' = "loop" /\ fresh' = Blank
  /\ \E r \in {Record(next), Blank, FreshRecord} : ring' = [ring EXCEPT ![SlotOf(next)] = r]
  /\ Flaws(1)
  /\ UNCHANGED <<markVars, numberVars, timeVars, batch, queueVars,
                 delivered, archived, kept, lost>>

\* Now the oldest of a full queue is given up.
Admit ==
  /\ at = "admit"
  /\ IF RingFull
     THEN /\ \E ok \in BOOLEAN : NoteConsumed(head, TRUE, ok) /\ Flaws(Cost(ok))
          /\ lost' = lost \cup {r.seq : r \in {HeadRecord} \ {Blank}}
          /\ head' = head + 1 /\ UNCHANGED count
     ELSE /\ head' = IF count = 0 THEN next ELSE head
          /\ count' = count + 1 /\ UNCHANGED <<markVars, lost, flaws>>
  /\ next' = next + 1
  /\ kept' = kept \cup {fresh.seq}
  /\ IF fresh.refused THEN at' = "archive" /\ UNCHANGED fresh
     ELSE at' = "loop" /\ fresh' = Blank
  /\ UNCHANGED <<ring, numberVars, timeVars, batch, delivered, archived>>

\* A packet refused when it was sent directly is archived once it is in the ring.
ArchiveRefused ==
  /\ at = "archive"
  /\ \/ archived' = archived \cup {fresh.seq} /\ at' = "consume" /\ UNCHANGED flaws
     \/ at' = "loop" /\ Flaws(1) /\ UNCHANGED archived
  /\ fresh' = Blank
  /\ UNCHANGED <<ring, markVars, numberVars, timeVars, batch, queueVars,
                 delivered, kept, lost>>

-----------------------------------------------------------------------------
\* Power fails; a write to the ring may be torn, and NVS lose the floor.
PowerLoss ==
  /\ at # "off" /\ at' = "off" /\ Flaws(1)
  /\ ring' \in {ring} \cup (IF at = "write" THEN {[ring EXCEPT ![SlotOf(next)] = Blank]} ELSE {})
  /\ \/ UNCHANGED <<floor, forgot>>
     \/ floor' = 0 /\ forgot' = TRUE
  /\ batch' = 0 /\ fresh' = Blank /\ clock' = FALSE
  /\ head' = 0 /\ next' = 0 /\ count' = 0 /\ pending' = 0 /\ unsaved' = 0 /\ last' = 0
  /\ UNCHANGED <<mark, bootSession, anchors, made, delivered, archived, kept, lost>>

SlotDecays ==
  /\ Flaws(1)
  /\ \E s \in DOMAIN ring :
       /\ ring[s] # Blank /\ ring' = [ring EXCEPT ![s] = Blank]
       /\ lost' = lost \cup {ring[s].seq}
  /\ UNCHANGED <<markVars, numberVars, timeVars, at, batch, fresh, queueVars,
                 delivered, archived, kept>>

LoopStep ==
  \/ \E online, synced, ok \in BOOLEAN : StartLoop(online, synced, ok)
  \/ EndReplay \/ CannotRead \/ SkipCorrupt \/ Defer \/ Isolate \/ ConsumeArchived
  \/ ReplayAcknowledged \/ Unanswered \/ NoSample \/ Make \/ CannotMake
  \/ SendDirectly \/ StoreFresh \/ MakeRoom \/ Put \/ CannotPut \/ Admit \/ ArchiveRefused

RingNext == Boot \/ LoopStep \/ PowerLoss \/ SlotDecays

\* The node runs; time and again it is online with its clock set, and the backend
\* answers.
RingFairness ==
  /\ WF_ringVars(Boot) /\ WF_ringVars(LoopStep)
  /\ SF_ringVars(StartLoop(TRUE, TRUE, TRUE)) /\ SF_ringVars(ReplayAcknowledged)

RingSpec == RingInit /\ [][RingNext]_ringVars /\ RingFairness
-----------------------------------------------------------------------------
(* Properties.                                                             *)

Owed == kept \ (delivered \cup archived \cup lost)

\* A packet whose storage was reported is, until it is delivered, archived or given up
\* for newer ones, in flash above the watermark, where a boot finds it, and in the
\* queue, whatever failed and whenever the power did ("no accepted telemetry is lost").
BacklogIsKept ==
  \A n \in Owed : \E r \in Active :
     /\ r.seq = n
     /\ at # "off" => r.ord \in head .. head + count - 1

\* The backend gets what is in the queue in the order it was measured.
DeliveredInOrder == [][\A n \in delivered' \ delivered : \A k \in Owed : n <= k]_ringVars

\* A number is never used twice; if NVS loses the floor, no number in flash is.
NumbersAreNew ==
  [][at = "make" /\ at' = "send" =>
       /\ last' \notin {r.seq : r \in OnFlash}
       /\ forgot \/ last' \notin made]_ringVars

\* Everything in the queue is settled in the end.
BacklogDrains == \A n \in 1 .. LastNumber : n \in Owed ~> n \notin Owed
=============================================================================
