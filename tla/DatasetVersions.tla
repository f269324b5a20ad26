--------------------------- MODULE DatasetVersions ---------------------------
(***************************************************************************)
(* Versions of a training dataset: a manifest is built, frozen, approved,  *)
(* compared with a rebuilt one and exported (register_dataset.py,          *)
(* dataset_version.py, export_dataset.py).                                 *)
(*                                                                         *)
(* A manifest is a plain dictionary its holder may change at any time; a   *)
(* checksum or digest is modelled by what it was computed from, and nobody *)
(* computes a snapshot digest for a dictionary of his own.  Times are left *)
(* out, except that two frozen versions may differ by them.                *)
(***************************************************************************)
EXTENDS Integers, Sequences, FiniteSets, Functions
CONSTANTS
  Slots,       \* the manifests one Python process holds
  Samples,     \* the recordings a manifest may be built from
  Leaky,       \* those that only allow a split with a specimen in several parts
  Mappings,    \* contents of DATASET_LABEL_MAPPING
  Days,        \* dates in an id
  Exporters,   \* processes that run export_dataset
  Allowances,     \* how often each kind of operation happens
  Nothing, Shared, Damaged, Emptied

ASSUME VersionsAssumption ==
  /\ Leaky \subseteq Samples /\ 1 \in Mappings
  /\ Shared \notin Mappings /\ Nothing \notin Mappings

RowSet == [sample : Samples, labels : Mappings]
Checksum == [labels : Mappings, fingerprint : RowSet]
VersionId == [day : Days, suffix : Checksum]
Digest == [rows : RowSet, labels : Mappings, note : {"shared", "independent"},
           fingerprint : RowSet, checksum : Checksum, id : VersionId]
Manifest == [status : {"draft", "frozen", "approved"}, rows : RowSet,
             labels : Mappings \cup {Shared}, note : {"shared", "independent"},
             fingerprint : RowSet, checksum : Checksum, id : VersionId,
             sum : [rows : RowSet, labels : Mappings] \cup {Nothing},
             digest : Digest \cup {Nothing}]
Files == [status : {"draft", "frozen", "approved"}, stable : Digest, id : VersionId]
ASSUME MarksAreNoRecords ==
  /\ Nothing \notin VersionId \cup Digest \cup Manifest \cup [content : Files, placed : BOOLEAN]
  /\ Damaged \notin Files /\ Emptied \notin Files

VARIABLES
  mapping,     \* DATASET_LABEL_MAPPING, one object in the process
  held,        \* [Slots -> manifest or Nothing]
  registry,    \* DatasetVersionRegistry: id -> manifest
  versions,    \* the directory versions/: id -> content, Damaged or Emptied
  current,     \* the file CURRENT
  exporters,   \* [Exporters -> Nothing or [content, placed]]
  exported,    \* history: the contents placed or found in place
  allowance    \* what is left of the budget

setVars == <<mapping, held, registry>>
exportVars == <<versions, current, exporters, exported>>
versionVars == <<setVars, exportVars, allowance>>

Use(kind) == allowance[kind] > 0 /\ allowance' = [allowance EXCEPT ![kind] = @ - 1]

VersionsInit ==
  /\ mapping = 1
  /\ held = [s \in Slots |-> Nothing]
  /\ registry = <<>> /\ versions = <<>> /\ current = Nothing
  /\ exporters = [x \in Exporters |-> Nothing] /\ exported = {}
  /\ allowance \in Allowances

\* What a manifest says now: a draft holds the mapping of the process itself.
LabelsOf(m) == IF m.labels = Shared THEN mapping ELSE m.labels
SourceChecksum(m) == [labels |-> LabelsOf(m), fingerprint |-> m.fingerprint]
DatasetChecksum(m) == [rows |-> m.rows, labels |-> LabelsOf(m)]
Stable(m) == [rows |-> m.rows, labels |-> LabelsOf(m), note |-> m.note,
              fingerprint |-> m.fingerprint, checksum |-> m.checksum, id |-> m.id]

\* build_manifest: rows carry the common label of each window.
Draft(sample, day) ==
  LET rows == [sample |-> sample, labels |-> mapping]
      checksum == [labels |-> mapping, fingerprint |-> rows]
  IN  [status |-> "draft", rows |-> rows, labels |-> Shared,
       note |-> IF sample \in Leaky THEN "shared" ELSE "independent",
       fingerprint |-> rows, checksum |-> checksum, id |-> [day |-> day, suffix |-> checksum],
       sum |-> Nothing, digest |-> Nothing]
Build(s, sample, day) ==
  /\ Use("build")
  /\ held' = [held EXCEPT ![s] = Draft(sample, day)]
  /\ UNCHANGED <<mapping, registry, exportVars>>

\* The holder changes a dictionary; the mapping of a draft is changed in place.
Changes(m) ==
  {[m EXCEPT !.rows.sample = x] : x \in Samples} \cup
  {[m EXCEPT !.note = n] : n \in {"shared", "independent"}} \cup
  {[m EXCEPT !.fingerprint = m.rows], [m EXCEPT !.checksum = SourceChecksum(m)],
   [m EXCEPT !.id.suffix = m.checksum], [m EXCEPT !.digest = Nothing]}
Edit(s) ==
  /\ Use("edit") /\ held[s] # Nothing
  /\ \/ /\ \E m \in Changes(held[s]) : m # held[s] /\ held' = [held EXCEPT ![s] = m]
        /\ UNCHANGED mapping
     \/ \E v \in Mappings \ {LabelsOf(held[s])} :
          IF held[s].labels = Shared
          THEN mapping' = v /\ UNCHANGED held
          ELSE held' = [held EXCEPT ![s].labels = v] /\ UNCHANGED mapping
  /\ UNCHANGED <<registry, exportVars>>

\* mutant: the checksum is not computed again from the fields of the draft.
CanFreeze_Mut(m) ==
  /\ m.status = "draft" /\ m.fingerprint = m.rows /\ m.id.suffix = m.checksum
\* freeze_dataset_version: its comparisons, and the record it makes.
CanFreeze(m) ==
  /\ m.status = "draft" /\ m.fingerprint = m.rows
  /\ m.checksum = SourceChecksum(m) /\ m.id.suffix = m.checksum
\* mutant: the frozen record goes on holding the mapping of the process.
AsFrozen_Mut(m) == [m EXCEPT !.status = "frozen", !.sum = DatasetChecksum(m), !.digest = Stable(m)]
AsFrozen(m) ==
  LET copy == [m EXCEPT !.status = "frozen", !.labels = LabelsOf(m)]
  IN  [copy EXCEPT !.sum = DatasetChecksum(m), !.digest = Stable(copy)]

\* verify_frozen_integrity
Verifies(m, legacy) ==
  /\ m.status \in {"frozen", "approved"}
  /\ IF legacy THEN m.sum = DatasetChecksum(m) ELSE m.digest = Stable(m)

\* verify_reproducibility
Comparable(m) == [Stable(m) EXCEPT !.id = Nothing]
Reproduces(n, m) ==
  /\ Verifies(m, FALSE) /\ m.sum = DatasetChecksum(n)
  /\ SourceChecksum(m) = SourceChecksum(n) /\ SourceChecksum(m) = m.checksum
  /\ m.id.suffix = m.checksum /\ n.id.suffix = m.checksum
  /\ Comparable(m) = Comparable(n)

FreezeAlone(s) ==
  /\ Use("freeze") /\ held[s] # Nothing /\ CanFreeze(held[s])
  /\ held' = [held EXCEPT ![s] = AsFrozen(held[s])]
  /\ UNCHANGED <<mapping, registry, exportVars>>
\* DatasetVersionRegistry: freeze, adopt_legacy_frozen, approve, get
Keep(id, m) == [x \in DOMAIN registry \cup {id} |-> IF x = id THEN m ELSE registry[x]]
Freeze(s) ==
  /\ Use("freeze") /\ held[s] # Nothing /\ CanFreeze(held[s])
  /\ held[s].id \notin DOMAIN registry
  /\ registry' = Keep(held[s].id, AsFrozen(held[s]))
  /\ held' = [held EXCEPT ![s] = AsFrozen(held[s])]
  /\ UNCHANGED <<mapping, exportVars>>
Adopt(s) ==
  /\ Use("freeze") /\ held[s] # Nothing /\ Verifies(held[s], TRUE)
  /\ held[s].id \notin DOMAIN registry
  /\ registry' = Keep(held[s].id, held[s])
  /\ UNCHANGED <<mapping, held, exportVars>>
Approve(id, legacy) ==
  LET m == registry[id] IN
  /\ Use("freeze") /\ m.status = "frozen"
  /\ m.sum = DatasetChecksum(m) /\ (legacy \/ Verifies(m, FALSE))
  /\ registry' = Keep(id, [m EXCEPT !.status = "approved"])
  /\ UNCHANGED <<mapping, held, exportVars>>
Take(s, id) ==
  /\ Use("take") /\ held' = [held EXCEPT ![s] = registry[id]]
  /\ UNCHANGED <<mapping, registry, exportVars>>

-----------------------------------------------------------------------------
(* export_dataset.  Several processes export at once and any of them may   *)
(* stop between two steps; files of a version may be lost in between.      *)

\* What the three files of a version say.
Content(m) == [status |-> m.status, stable |-> Stable(m), id |-> m.id]
\* The manifest is copied and checked, and the files written to a staging directory.
Stage(x, s) ==
  LET m == held[s] IN
  /\ Use("export") /\ exporters[x] = Nothing /\ m # Nothing
  /\ (m.status # "draft" \/ m.digest # Nothing) => Verifies(m, FALSE)
  /\ exporters' = [exporters EXCEPT ![x] = [content |-> Content(m), placed |-> FALSE]]
  /\ UNCHANGED <<setVars, versions, current, exported>>

Free(id) == id \in DOMAIN versions => versions[id] = Emptied
InPlace(content) == content.id \in DOMAIN versions /\ versions[content.id] = content

\* The rename, or the comparison with the directory that is there already.
Place(x) ==
  LET content == exporters[x].content
      Done == /\ exporters' = [exporters EXCEPT ![x].placed = TRUE]
              /\ exported' = exported \cup {content}
  IN
  /\ exporters[x] # Nothing /\ ~exporters[x].placed
  /\ \/ /\ Free(content.id)
        /\ versions' = [id \in DOMAIN versions \cup {content.id} |->
                          IF id = content.id THEN content ELSE versions[id]]
        /\ Done
     \/ /\ ~Free(content.id) /\ InPlace(content)
        /\ Done /\ UNCHANGED versions
     \/ \* refused: incomplete, or another content or time of freezing
        /\ ~Free(content.id) /\ (~InPlace(content) \/ content.status # "draft")
        /\ exporters' = [exporters EXCEPT ![x] = Nothing] /\ UNCHANGED <<versions, exported>>
  /\ UNCHANGED <<setVars, current, allowance>>
Point(x) ==
  /\ exporters[x] # Nothing /\ exporters[x].placed
  /\ current' = exporters[x].content.id
  /\ exporters' = [exporters EXCEPT ![x] = Nothing]
  /\ UNCHANGED <<setVars, versions, exported, allowance>>
Stop(x) ==
  /\ Use("fault") /\ exporters[x] # Nothing
  /\ exporters' = [exporters EXCEPT ![x] = Nothing]
  /\ UNCHANGED <<setVars, versions, current, exported>>
LoseFiles(id) ==
  /\ Use("fault")
  /\ \E what \in {Damaged, Emptied} : versions' = [versions EXCEPT ![id] = what]
  /\ exported' = {content \in exported : content.id # id}
  /\ UNCHANGED <<setVars, current, exporters>>

VersionStep ==
  \/ \E s \in Slots, sample \in Samples, day \in Days : Build(s, sample, day)
  \/ \E s \in Slots : Edit(s) \/ FreezeAlone(s) \/ Freeze(s) \/ Adopt(s)
  \/ \E id \in DOMAIN registry : \/ \E legacy \in BOOLEAN : Approve(id, legacy)
                                 \/ \E s \in Slots : Take(s, id)
  \/ \E x \in Exporters : (\E s \in Slots : Stage(x, s)) \/ Place(x) \/ Point(x) \/ Stop(x)
  \/ \E id \in DOMAIN versions : LoseFiles(id)
VersionSpec == VersionsInit /\ [][VersionStep]_versionVars

-----------------------------------------------------------------------------
Manifests == {held[s] : s \in Slots} \cup Range(registry)

\* A version that passes the integrity check has an id that tells its rows and labels,
\* whatever was done to the draft before; and a draft that is said to reproduce it
\* could have been frozen as that version.
VersionsAreHonest ==
  \A m \in Manifests \ {Nothing} : Verifies(m, FALSE) =>
    /\ m.id.suffix = m.checksum
    /\ m.checksum = [labels |-> LabelsOf(m), fingerprint |-> m.rows]
    /\ \A s \in Slots : held[s] # Nothing /\ held[s].status = "draft" /\ Reproduces(held[s], m)
                          => CanFreeze(held[s])

\* The registry keeps what it froze or adopted: rows, labels and notes never change,
\* not through a draft that shares an object with it either, and only an approval
\* changes a status.
RegistryKeeps ==
  [][\A id \in DOMAIN registry :
       /\ id \in DOMAIN registry'
       /\ Stable(registry[id])' = Stable(registry[id])
       /\ registry'[id].status # registry[id].status =>
            registry[id].status = "frozen" /\ registry'[id].status = "approved"]_versionVars

\* Unless its files are lost, a version directory says what every export reported for
\* it, whoever won the rename; CURRENT names a directory that is there.
ExportsHold ==
  /\ \A content \in exported : versions[content.id] = content
  /\ current # Nothing => current \in DOMAIN versions
=============================================================================
