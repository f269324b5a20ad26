------------------------------ MODULE MCMasterData ------------------------------
(* One device reports windows of two boots, for either of two assets; one  *)
(* of them twice with other content, two of them overlap.                  *)
EXTENDS QualityStore, TLC
CONSTANTS d1, a1, a2, s1, lte
Window(a, boot, id, from, to, content) ==
  [dev |-> d1, asset |-> a, boot |-> boot, id |-> id, from |-> from, to |-> to,
   content |-> content]
SentReports ==
  {Window(a1, 1, 1, 0, 2, 1), Window(a1, 1, 1, 0, 2, 2), Window(a1, 1, 2, 1, 3, 1),
   Window(a2, 1, 3, 2, 3, 1)}

\* Either the master data grow from nothing, when the windows have long expired; or
\* the assets are ready for their devices, and the windows come in.
Equipped ==
  /\ sites = [s \in Sites |-> IF s = s1 THEN [NewSite(lte) EXCEPT
                 !.targets = {a1, a2}, !.assetCount = 2] ELSE NewSite(lte)]
  /\ assets = [a \in Assets |-> [site |-> s1, ready |-> TRUE]] /\ ruleSets = Assets
SceneInit ==
  /\ installPoints = [p \in Points |-> Nobody] /\ devices = [d \in Devices |-> Nobody]
  /\ packets = {} /\ configs = {} /\ visits = {} /\ references = {}
  /\ histories = {} /\ gate = Nobody /\ surveyed = Nobody
  /\ windows = {} /\ answered = {}
  /\ \/ now = 2 * Horizon /\ rare = 0 /\ Equipped
     \/ now = 0 /\ rare = MaxRare - 1 /\ Equipped
     \/ now = 2 * Horizon /\ rare = 0 /\ MasterInit /\ sites[s1].net = lte
=============================================================================
