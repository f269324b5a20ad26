------------------------------ MODULE Datasets ------------------------------
(***************************************************************************)
(* Dataset versions (data.py): a version freezes the rows that telemetry,  *)
(* reviewed events and a label taxonomy gave at that moment, and puts each *)
(* asset into one of three splits.                                         *)
(*                                                                         *)
(* Splits are tenths; the order that hashes give the groups is arbitrary.  *)
(* Sites, signal units and the manifest's wording are left out.            *)
(***************************************************************************)
EXTENDS EventRecords
CONSTANTS
  Codes,        \* label codes of taxonomies
  Definitions,  \* [assets, from, to, taxonomy, mapping, split]: versions asked for
  EventLength,  \* how long an event lasts
  Splits, MaxGroups

ASSUME DatasetsAssumption ==
  /\ EventLength \in Nat /\ MaxGroups \in Nat
  /\ \A s \in Splits : s[1] + s[2] + s[3] = 10

VARIABLES
  telemetry,    \* TELEMETRY_RECORDS: [asset, at, known]
  taxonomies,   \* ACOUSTIC_TAXONOMY_VERSIONS
  datasets      \* DATASET_VERSIONS with DATASET_SNAPSHOTS

datasetVars == <<telemetry, taxonomies, datasets>>
governedVars == <<recordVars, datasetVars>>

DatasetsInit ==
  /\ RecordsInit
  /\ telemetry = {} /\ datasets = <<>>
  /\ taxonomies = <<[version |-> 1, codes |-> Codes, active |-> TRUE]>>

-----------------------------------------------------------------------------
(* _assign_dataset_splits: how many groups each split takes, largest       *)
(* remainders first, and one at least for each that asks for any.          *)

Parts == 1..3
Exact(n, split, i) == n * split[i]
RankOf(n, split, i) == (Exact(n, split, i) % 10) * 1000 + split[i] * 10 - i

LargestRemainders(n, split) ==
  LET floors == [i \in Parts |-> Exact(n, split, i) \div 10]
      unassigned == n - (floors[1] + floors[2] + floors[3])
      Ahead(i) == Cardinality({j \in Parts : RankOf(n, split, j) > RankOf(n, split, i)})
  IN  [i \in Parts |-> IF Ahead(i) < unassigned THEN floors[i] + 1 ELSE floors[i]]

\* The split that is furthest above its share gives one away.
DonorKey(n, split, counts, j) ==
  (counts[j] * 10 - Exact(n, split, j)) * 10000 + counts[j] * 100 + split[j] * 4 - j

\* mutant: a donor may give away its last group.
Donors_Mut(split, counts) == {j \in Parts : split[j] > 0 /\ counts[j] > 0}
Donors(split, counts) == {j \in Parts : split[j] > 0 /\ counts[j] > 1}

Filled(n, split, counts, i) ==
  IF counts = <<>> \/ split[i] = 0 \/ counts[i] > 0 THEN counts
  ELSE IF Donors(split, counts) = {} THEN <<>>
  ELSE LET donor == CHOOSE j \in Donors(split, counts) : \A k \in Donors(split, counts) :
                      DonorKey(n, split, counts, j) >= DonorKey(n, split, counts, k)
       IN  [counts EXCEPT ![donor] = @ - 1, ![i] = @ + 1]

Positive(split) == {i \in Parts : split[i] > 0}
\* <<>> when the request is refused.
TargetCounts(n, split) ==
  IF n < Cardinality(Positive(split)) THEN <<>>
  ELSE FoldLeft(LAMBDA counts, i : Filled(n, split, counts, i),
                LargestRemainders(n, split), <<1, 2, 3>>)

\* The part with most of its share still to fill takes the next group.
Selected(remaining, counts, split) ==
  CHOOSE i \in Parts :
    /\ remaining[i] > 0
    /\ \A j \in Parts : remaining[j] > 0 =>
         LET mine == remaining[i] * counts[j]
             other == remaining[j] * counts[i]
         IN  mine > other \/ (mine = other /\ split[i] * 4 - i >= split[j] * 4 - j)

Assigned(order, split) ==
  LET counts == TargetCounts(Len(order), split)
      Take(s, group) == LET i == Selected(s.remaining, counts, split) IN
        [remaining |-> [s.remaining EXCEPT ![i] = @ - 1], parts |-> Append(s.parts, i)]
      parts == FoldLeft(Take, [remaining |-> counts, parts |-> <<>>], order).parts
  IN  [group \in Range(order) |-> parts[CHOOSE k \in DOMAIN order : order[k] = group]]

-----------------------------------------------------------------------------
(* Labels.                                                                 *)

VerifiedEvent(e) == e.reviewed /\ e.label # "needs_review"
Covering(point) == {e \in events : e.asset = point.asset
                                   /\ point.at - e.at \in 0..EventLength}

\* mutant: the latest event covers a point, reviewed or not.
PreferredTo_Mut(e, f) == e.at > f.at \/ (e.at = f.at /\ e.id >= f.id)
PreferredTo(e, f) ==
  \/ VerifiedEvent(e) /\ ~VerifiedEvent(f)
  \/ VerifiedEvent(e) = VerifiedEvent(f) /\ (e.at > f.at \/ (e.at = f.at /\ e.id >= f.id))
MatchingEvent(point) ==
  {e \in Covering(point) : \A f \in Covering(point) : PreferredTo(e, f)}

CodesOf(version) == UNION {t.codes : t \in {t \in Range(taxonomies) : t.version = version}}

\* _dataset_target_label
TargetLabel(def, label) ==
  IF label \in DOMAIN def.mapping THEN def.mapping[label]
  ELSE IF label \in CodesOf(def.taxonomy) THEN label ELSE None

\* _dataset_ground_truth: a review before a label that came with the point.
GroundTruth(point) ==
  LET reviewed == {e \in MatchingEvent(point) : VerifiedEvent(e)} IN
  IF reviewed # {} THEN (CHOOSE e \in reviewed : TRUE).label ELSE point.known

RowOf(def, point) ==
  LET truth == GroundTruth(point)
      target == IF truth = None THEN None ELSE TargetLabel(def, truth) IN
  [at |-> point.at, asset |-> point.asset, truth |-> truth, target |-> target,
   status |-> CASE truth # None -> IF target # None THEN "verified" ELSE "unmapped"
                [] truth = None /\ MatchingEvent(point) # {} -> "weak"
                [] OTHER -> "unlabeled"]

-----------------------------------------------------------------------------
\* A trusted principal may send a label with its measurement.
MeasurePoint(a, known) ==
  /\ Spend("point") /\ a \in DOMAIN rules
  /\ telemetry' = telemetry \cup {[asset |-> a, at |-> clock, known |-> known]}
  /\ UNCHANGED <<ruleVars, pointVars, eventRecords, noteVars, visitVars, audit, clock,
                 taxonomies, datasets>>

\* Retention (_enforce_runtime_retention) forgets points, never rows.
ForgetPoint(p) ==
  /\ Spend("forget") /\ p \in telemetry
  /\ telemetry' = telemetry \ {p}
  /\ UNCHANGED <<ruleVars, pointVars, eventRecords, noteVars, visitVars, audit, clock,
                 taxonomies, datasets>>

UpdateTaxonomy(codes) ==
  LET record == [version |-> Len(taxonomies) + 1, codes |-> codes, active |-> TRUE] IN
  /\ Spend("taxonomy")
  /\ taxonomies' = Append([k \in DOMAIN taxonomies |->
                             [taxonomies[k] EXCEPT !.active = FALSE]], record)
  /\ Audited(<<"taxonomy", record.version>>, Len(taxonomies), record.version)
  /\ UNCHANGED <<ruleVars, pointVars, eventRecords, noteVars, visitVars, clock,
                 telemetry, datasets>>

\* _dataset_installation_validation
Installed(as) == \A a \in as : a \in DOMAIN points /\ points[a].state # "inactive"

Scope(def) == def.assets \cap DOMAIN rules
PointsOf(def) == {p \in telemetry : p.asset \in Scope(def) /\ p.at \in def.from..def.to}
Record(def, parts) ==
  [def |-> def, id |-> Len(datasets) + 1, scope |-> Scope(def),
   rows |-> {RowOf(def, p) : p \in PointsOf(def)}, parts |-> parts]

Fingerprint(d) == <<d.def, d.rows>>

CreateDataset(def, order) ==
  LET groups == {p.asset : p \in PointsOf(def)}
      record == Record(def, Assigned(order, def.split)) IN
  /\ Spend("dataset")
  /\ def.taxonomy \in {t.version : t \in Range(taxonomies)}
  /\ Range(def.mapping) \subseteq CodesOf(def.taxonomy)
  /\ Scope(def) # {} /\ Installed(Scope(def)) /\ groups # {}
  /\ order \in SetToSeqs(groups)
  /\ TargetCounts(Len(order), def.split) # <<>>
  /\ \A d \in Range(datasets) : Fingerprint(d) # Fingerprint(record)
  /\ datasets' = Append(datasets, record)
  /\ Audited(<<"dataset", record.id>>, None, record.id)
  /\ UNCHANGED <<ruleVars, pointVars, eventRecords, noteVars, visitVars, clock,
                 telemetry, taxonomies>>

\* delete_asset: what frozen versions, their filters and kept points refer to.
Kept == UNION {d.scope \cup d.def.assets : d \in Range(datasets)} \cup {p.asset : p \in telemetry}

DatasetSteps ==
  \/ \E a \in AssetIds, known \in {None} \cup Codes : MeasurePoint(a, known)
  \/ \E p \in telemetry : ForgetPoint(p)
  \/ \E codes \in SUBSET Codes \ {{}} : UpdateTaxonomy(codes)
  \/ \E def \in Definitions : \E order \in SetToSeqs({p.asset : p \in PointsOf(def)}) :
       CreateDataset(def, order)

DatasetsNext == (RecordsNext /\ UNCHANGED datasetVars) \/ DatasetSteps
-----------------------------------------------------------------------------
(* Properties.                                                             *)

\* Every number of groups that can fill the splits asked for fills them: none of
\* them stays empty, none that asks for nothing gets a group, a larger share
\* never gets fewer groups, and the search for a donor never fails.
SharesAreKept(n, split) ==
  LET counts == TargetCounts(n, split) IN
  n >= Cardinality(Positive(split)) =>
    /\ counts # <<>> /\ counts[1] + counts[2] + counts[3] = n
    /\ \A i \in Parts : (counts[i] > 0) = (split[i] > 0)
    /\ \A i, j \in Parts : split[i] > split[j] => counts[i] >= counts[j]

\* In a frozen version each asset is in one split and no split asked for is empty;
\* a row that counts for training carries a code of the version's taxonomy, given
\* by a reviewer or a trusted device; and a row covered by an event that was
\* reviewed when the version was frozen is never left without its label.  No two
\* versions are the same rows under the same definition.
VersionsAreSound ==
  \A k \in DOMAIN datasets :
    LET d == datasets[k] IN
    /\ \A i \in Positive(d.def.split) : \E r \in d.rows : d.parts[r.asset] = i
    /\ \A r \in d.rows : (r.status = "verified") = (r.target \in CodesOf(d.def.taxonomy))
    /\ \A j \in DOMAIN datasets : j # k => datasets[j].def # d.def \/ datasets[j].rows # d.rows

\* Freezing takes the label of a review whenever there is one for the point, and
\* what is frozen stays as it was whatever is measured, reviewed, relabelled or
\* forgotten later.
FrozenAsReviewed ==
  [][/\ \A k \in DOMAIN datasets : datasets'[k] = datasets[k]
     /\ \A k \in DOMAIN datasets' \ DOMAIN datasets : \A r \in datasets'[k].rows :
          LET labels == {e.label : e \in {e \in events : /\ e.asset = r.asset /\ VerifiedEvent(e)
                                            /\ e.at <= r.at /\ r.at <= e.at + EventLength}}
          IN  labels # {} => r.truth \in labels]_governedVars
=============================================================================
