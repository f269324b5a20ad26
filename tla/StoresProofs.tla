---------------------------- MODULE StoresProofs ----------------------------
(***************************************************************************)
(* Proofs about the stores and registries checked in MCStores, each as a   *)
(* component of its own: master data and the quality reports of devices,   *)
(* for any sites, devices, rules and clocks; dataset versions and their    *)
(* hand-over to training, for any jobs, senders and outboxes; the registry *)
(* of models; the governance of AI results with the records beneath it:    *)
(* rules, install points, notes and visits, however they are edited; raw   *)
(* windows with their incidents, for any batches, boots and retention; and *)
(* the events of a stream of features of any length.                       *)
(***************************************************************************)
EXTENDS QualityStore, TrainingHandoff, ModelVersions, ModelHandoff, RawWindows, RuleStream,
        SequenceTheorems, SetBounds

-----------------------------------------------------------------------------
(* Master data: what the tables hold.                                      *)

MasterTypeOK ==
  /\ sites \in [Sites -> SiteRow \cup {Nobody}]
  /\ assets \in [Assets -> AssetRow \cup {Nobody}]
  /\ installPoints \in [Points -> PointRow \cup {Nobody}]
  /\ devices \in [Devices -> DeviceRow \cup {Nobody}]
  /\ ruleSets \subseteq Assets /\ histories \cup configs \subseteq Devices
  /\ packets \cup visits \subseteq [dev : Devices, asset : Assets]
  /\ references \subseteq Assets \cup Sites
  /\ gate \in GateRow \cup {Nobody} /\ surveyed \in Assets \cup {Nobody}

(* ListsAgree, one list after the other.                                   *)
DeviceIsPlaced(d) ==
  /\ devices[d].asset \in AssetsOf(devices[d].site)
  /\ devices[d].active => devices[d].certified /\ ActiveOn(devices[d].asset) = {d}
DevicesArePlaced == \A d \in RegisteredDevices : DeviceIsPlaced(d)
RulesAreAssets == ruleSets = {a \in Assets : assets[a] # Nobody}
AssetsHaveSites == \A a \in ruleSets : sites[assets[a].site] # Nobody
DevicesAt(s) == {d \in RegisteredDevices : devices[d].site = s}
SiteAddsUp(s) ==
  sites[s] # Nobody =>
    /\ sites[s].targets \subseteq AssetsOf(s)
    /\ sites[s].plan = sites[s].net /\ sites[s].profile = sites[s].net
    /\ sites[s].assetCount = Cardinality(AssetsOf(s))
    /\ sites[s].totalDevices = Cardinality(DevicesAt(s))
SitesAddUp == \A s \in Sites : SiteAddsUp(s)

LEMMA ListsAre ==
  /\ ListsAgree => DevicesArePlaced /\ RulesAreAssets /\ AssetsHaveSites /\ SitesAddUp
  /\ DevicesArePlaced /\ RulesAreAssets /\ AssetsHaveSites /\ SitesAddUp => ListsAgree
  /\ (DevicesArePlaced /\ RulesAreAssets /\ AssetsHaveSites /\ SitesAddUp)' => ListsAgree'
BY DEF ListsAgree, DevicesArePlaced, DeviceIsPlaced, RulesAreAssets, AssetsHaveSites,
       SitesAddUp, SiteAddsUp, DevicesAt

(* A deletion that has begun is of a registered device no history store    *)
(* knows; nothing that reserves a device or takes one out passes the gate. *)
GateHolds ==
  gate # Nobody /\ gate.op = "delete" =>
    gate.dev \in RegisteredDevices /\ gate.dev \notin histories

MasterIInv == MasterTypeOK /\ ListsAgree /\ NoOrphanRecords /\ GateHolds

LEMMA ListsInit == MasterInit => MasterIInv
<1> SUFFICES ASSUME MasterInit PROVE MasterIInv
  OBVIOUS
<1> USE DEF MasterInit
<1>1. RegisteredDevices = {} /\ \A s : AssetsOf(s) = {}
  BY DEF RegisteredDevices, AssetsOf
<1>2. \A s : DevicesAt(s) = {}
  BY <1>1 DEF DevicesAt
<1>3. \A s \in Sites : sites[s] \in SiteRow
  BY DEF NewSite, SiteRow
<1>4. MasterTypeOK
  BY <1>3 DEF MasterTypeOK
<1>5. SitesAddUp
  BY SMTT(60), <1>1, <1>2, FS_EmptySet DEF SitesAddUp, SiteAddsUp, NewSite
<1>6. DevicesArePlaced /\ RulesAreAssets /\ AssetsHaveSites
  BY <1>1 DEF DevicesArePlaced, RulesAreAssets, AssetsHaveSites
<1>7. ListsAgree
  BY <1>5, <1>6, ListsAre
<1> QED BY <1>1, <1>4, <1>7 DEF MasterIInv, NoOrphanRecords, GateHolds

(* Requests that change no list of master data.                            *)
LEMMA ListsRest ==
  ASSUME ListsAgree, UNCHANGED <<sites, assets, ruleSets, devices>>
  PROVE  ListsAgree'
<1>1. RegisteredDevices' = RegisteredDevices
  BY DEF RegisteredDevices
<1>2. \A s : AssetsOf(s)' = AssetsOf(s) /\ DevicesAt(s)' = DevicesAt(s)
  BY <1>1 DEF AssetsOf, DevicesAt
<1>3. \A a : ActiveOn(a)' = ActiveOn(a)
  BY <1>1 DEF ActiveOn, DevicesOf
<1>4. DevicesArePlaced /\ RulesAreAssets /\ AssetsHaveSites /\ SitesAddUp
  BY ListsAre
<1>5. DevicesArePlaced'
  BY <1>1, <1>2, <1>3, <1>4 DEF DevicesArePlaced, DeviceIsPlaced
<1>6. RulesAreAssets' /\ AssetsHaveSites'
  BY <1>4 DEF RulesAreAssets, AssetsHaveSites
<1>7. SitesAddUp'
  BY <1>2, <1>4 DEF SitesAddUp, SiteAddsUp
<1> QED BY <1>5, <1>6, <1>7, ListsAre

(* Requests that only change a site: its assets and devices stay.          *)
LEMMA SiteReplaced ==
  ASSUME MasterIInv, NEW s \in Sites, NEW site \in SiteRow \cup {Nobody},
         sites' = [sites EXCEPT ![s] = site],
         UNCHANGED <<assets, ruleSets, installPoints, devices, records, others>>,
         SiteAddsUp(s)', site = Nobody => AssetsOf(s) = {} /\ s \notin references
  PROVE  MasterIInv'
<1> USE DEF MasterIInv
<1>1. RegisteredDevices' = RegisteredDevices
  BY DEF RegisteredDevices
<1>2. \A t : AssetsOf(t)' = AssetsOf(t) /\ DevicesAt(t)' = DevicesAt(t)
  BY <1>1 DEF AssetsOf, DevicesAt
<1>3. \A a : ActiveOn(a)' = ActiveOn(a)
  BY <1>1 DEF ActiveOn, DevicesOf
<1>4. DevicesArePlaced /\ RulesAreAssets /\ AssetsHaveSites /\ SitesAddUp
  BY ListsAre
<1>5. DevicesArePlaced'
  BY <1>1, <1>2, <1>3, <1>4 DEF DevicesArePlaced, DeviceIsPlaced
<1>6. RulesAreAssets'
  BY <1>4 DEF RulesAreAssets
<1>7. AssetsHaveSites'
  <2> SUFFICES ASSUME NEW a \in ruleSets PROVE sites'[assets[a].site] # Nobody
    BY DEF AssetsHaveSites
  <2>1. a \in Assets /\ assets[a] # Nobody /\ sites[assets[a].site] # Nobody
    BY <1>4 DEF RulesAreAssets, AssetsHaveSites
  <2>2. assets[a].site \in Sites
    BY <2>1 DEF MasterTypeOK, AssetRow
  <2>3. a \in AssetsOf(assets[a].site)
    BY <2>1 DEF AssetsOf
  <2> QED BY <2>1, <2>2, <2>3 DEF MasterTypeOK
<1>8. SitesAddUp'
  <2> SUFFICES ASSUME NEW t \in Sites PROVE SiteAddsUp(t)'
    BY DEF SitesAddUp
  <2>1. CASE t = s
    BY <2>1
  <2>2. CASE t # s
    <3>1. sites'[t] = sites[t]
      BY <2>2 DEF MasterTypeOK
    <3> QED BY <3>1, <1>2, <1>4 DEF SitesAddUp, SiteAddsUp
  <2> QED BY <2>1, <2>2
<1>9. ListsAgree'
  BY <1>5, <1>6, <1>7, <1>8, ListsAre
<1>10. MasterTypeOK'
  BY DEF MasterTypeOK, records, others
<1>11. NoOrphanRecords'
  BY <1>1, MasterConstants DEF NoOrphanRecords, MasterTypeOK, records, others
<1>12. GateHolds'
  BY <1>1 DEF GateHolds, records, others
<1> QED BY <1>9, <1>10, <1>11, <1>12

LEMMA SitesStep ==
  ASSUME MasterIInv, NEW s \in Sites, NEW net \in Networks,
         \/ CreateSite(s, net) \/ UpdateNetwork(s, net)
         \/ \E targets \in SUBSET Assets : UpdateRolloutPlan(s, net, targets)
  PROVE  MasterIInv'
<1> USE DEF MasterIInv
<1>1. DevicesArePlaced /\ RulesAreAssets /\ AssetsHaveSites /\ SiteAddsUp(s)
  BY ListsAre DEF SitesAddUp
<1>2. UNCHANGED <<assets, ruleSets, installPoints, devices, records, others>>
  BY DEF CreateSite, UpdateNetwork, UpdateRolloutPlan
<1>3. AssetsOf(s)' = AssetsOf(s) /\ DevicesAt(s)' = DevicesAt(s)
  BY <1>2 DEF AssetsOf, DevicesAt, RegisteredDevices
<1>4. CASE CreateSite(s, net)
  <2>1. NewSite(net) \in SiteRow
    BY DEF NewSite, SiteRow
  <2>2. AssetsOf(s) = {}
    BY <1>1, <1>4 DEF CreateSite, AssetsOf, RulesAreAssets, AssetsHaveSites
  <2>3. DevicesAt(s) = {}
    BY <1>1, <2>2 DEF DevicesAt, DevicesArePlaced, DeviceIsPlaced
  <2>4. sites' = [sites EXCEPT ![s] = NewSite(net)] /\ sites'[s] = NewSite(net)
    BY <1>4 DEF CreateSite, MasterTypeOK
  <2>5. SiteAddsUp(s)'
    BY <1>3, <2>2, <2>3, <2>4, FS_EmptySet DEF SiteAddsUp, NewSite
  <2>6. NewSite(net) # Nobody
    BY <2>1, NobodyIsNoRecord
  <2> QED BY <1>2, <2>1, <2>4, <2>5, <2>6, SiteReplaced
<1>5. CASE UpdateNetwork(s, net) \/ \E targets \in SUBSET Assets : UpdateRolloutPlan(s, net, targets)
  <2> DEFINE old == sites[s]
             planned == OnNetwork(old, net)
             retargeted(targets) == [planned EXCEPT !.targets = targets]
  <2>1. old \in SiteRow /\ old # Nobody
    BY <1>5 DEF UpdateNetwork, UpdateRolloutPlan, MasterTypeOK
  <2>2. planned \in SiteRow /\ \A targets \in SUBSET Assets : retargeted(targets) \in SiteRow
    BY <2>1 DEF OnNetwork, SiteRow
  <2>3. PICK site \in SiteRow :
          /\ sites' = [sites EXCEPT ![s] = site]
          /\ site.net = net /\ site.plan = net /\ site.profile = net
          /\ site.assetCount = old.assetCount /\ site.totalDevices = old.totalDevices
          /\ site.targets = old.targets \/ site.targets \subseteq AssetsOf(s)
    <3>1. CASE UpdateNetwork(s, net)
      <4>1. sites' = [sites EXCEPT ![s] = planned]
        BY <3>1 DEF UpdateNetwork
      <4> QED BY <2>1, <2>2, <4>1 DEF OnNetwork, SiteRow
    <3>2. ASSUME NEW targets \in SUBSET Assets, UpdateRolloutPlan(s, net, targets)
          PROVE  \E site \in SiteRow :
                   /\ sites' = [sites EXCEPT ![s] = site]
                   /\ site.net = net /\ site.plan = net /\ site.profile = net
                   /\ site.assetCount = old.assetCount /\ site.totalDevices = old.totalDevices
                   /\ site.targets = old.targets \/ site.targets \subseteq AssetsOf(s)
      <4>1. sites' = [sites EXCEPT ![s] = retargeted(targets)] /\ targets \subseteq AssetsOf(s)
        BY <3>2 DEF UpdateRolloutPlan
      <4> QED BY ZenonT(60), <2>1, <2>2, <4>1 DEF OnNetwork, SiteRow
    <3> QED BY <1>5, <3>1, <3>2
  <2>4. sites'[s] = site
    BY <2>3 DEF MasterTypeOK
  <2>5. SiteAddsUp(s)'
    BY <1>1, <1>3, <2>1, <2>3, <2>4 DEF SiteAddsUp
  <2>6. site # Nobody
    BY NobodyIsNoRecord
  <2> QED BY <1>2, <2>3, <2>5, <2>6, SiteReplaced
<1> QED BY <1>4, <1>5

LEMMA SiteDeleted == ASSUME MasterIInv, NEW s \in Sites, DeleteSite(s) PROVE MasterIInv'
<1>1. sites' = [sites EXCEPT ![s] = Nobody] /\ AssetsOf(s) = {} /\ s \notin references
  BY DEF DeleteSite
<1>2. SiteAddsUp(s)'
  BY <1>1 DEF SiteAddsUp, MasterTypeOK, MasterIInv
<1> QED BY <1>1, <1>2, SiteReplaced DEF DeleteSite

(* A new asset: its site counts one more.                                  *)
LEMMA AssetCreated ==
  ASSUME MasterIInv, NEW a \in Assets, NEW s \in Sites, NEW ready \in BOOLEAN,
         CreateAsset(a, s, ready)
  PROVE  MasterIInv'
<1> USE DEF MasterIInv, CreateAsset
<1> DEFINE row == [site |-> s, ready |-> ready]
           counted == [sites[s] EXCEPT !.assetCount = @ + 1]
<1>1. DevicesArePlaced /\ RulesAreAssets /\ AssetsHaveSites /\ SitesAddUp
  BY ListsAre
<1>2. row \in AssetRow /\ row # Nobody
  BY NobodyIsNoRecord DEF AssetRow
<1>3. sites[s] \in SiteRow /\ counted \in SiteRow /\ counted # Nobody
  <2>1. sites[s] \in SiteRow
    BY DEF MasterTypeOK
  <2>2. counted \in SiteRow
    BY <2>1 DEF SiteRow
  <2> QED BY <2>1, <2>2, NobodyIsNoRecord
<1>4. /\ assets'[a] = row /\ \A b \in Assets \ {a} : assets'[b] = assets[b]
      /\ sites'[s] = counted /\ \A t \in Sites \ {s} : sites'[t] = sites[t]
  BY DEF MasterTypeOK
<1>5. RegisteredDevices' = RegisteredDevices /\ \A t : DevicesAt(t)' = DevicesAt(t)
  BY DEF RegisteredDevices, DevicesAt
<1>6. \A b : ActiveOn(b)' = ActiveOn(b)
  BY <1>5 DEF ActiveOn, DevicesOf
<1>7. AssetsOf(s)' = AssetsOf(s) \cup {a} /\ a \notin AssetsOf(s)
  BY <1>2, <1>4 DEF AssetsOf
<1>8. \A t \in Sites \ {s} : AssetsOf(t)' = AssetsOf(t)
  BY <1>2, <1>4 DEF AssetsOf
<1>9. IsFiniteSet(AssetsOf(s))
  BY MasterConstants, FS_Subset DEF AssetsOf
<1>10. MasterTypeOK'
  BY <1>2, <1>3 DEF MasterTypeOK, records, others
<1>11. DevicesArePlaced'
  <2> SUFFICES ASSUME NEW d \in RegisteredDevices PROVE DeviceIsPlaced(d)'
    BY <1>5 DEF DevicesArePlaced
  <2>1. DeviceIsPlaced(d) /\ devices[d].site \in Sites
    BY <1>1 DEF DevicesArePlaced, MasterTypeOK, RegisteredDevices, DeviceRow
  <2>2. AssetsOf(devices[d].site) \subseteq AssetsOf(devices[d].site)'
    BY <2>1, <1>7, <1>8
  <2> QED BY <2>1, <2>2, <1>6 DEF DeviceIsPlaced
<1>12. RulesAreAssets'
  BY <1>1, <1>2, <1>4 DEF RulesAreAssets
<1>13. AssetsHaveSites'
  BY <1>1, <1>2, <1>3, <1>4 DEF AssetsHaveSites, RulesAreAssets, MasterTypeOK, AssetRow
<1>14. SitesAddUp'
  <2> SUFFICES ASSUME NEW t \in Sites PROVE SiteAddsUp(t)'
    BY DEF SitesAddUp
  <2>1. CASE t = s
    <3>1. Cardinality(AssetsOf(s)') = Cardinality(AssetsOf(s)) + 1
      BY <1>7, <1>9, FS_AddElement
    <3>2. SiteAddsUp(s) /\ sites[s] # Nobody
      BY <1>1 DEF SitesAddUp
    <3> QED BY <2>1, <3>1, <3>2, <1>3, <1>4, <1>5, <1>7 DEF SiteAddsUp, SiteRow
  <2>2. CASE t # s
    BY <2>2, <1>1, <1>4, <1>5, <1>8 DEF SitesAddUp, SiteAddsUp
  <2> QED BY <2>1, <2>2
<1>15. ListsAgree'
  BY <1>11, <1>12, <1>13, <1>14, ListsAre
<1>16. NoOrphanRecords'
  BY <1>2, <1>3, <1>4, <1>5 DEF NoOrphanRecords, MasterTypeOK, records
<1>17. GateHolds'
  BY <1>5 DEF GateHolds, records, others
<1> QED BY <1>10, <1>15, <1>16, <1>17

(* An asset goes with its rule, its points and its place in the plan; no   *)
(* device is on it and no record names it.                                 *)
LEMMA AssetDeleted ==
  ASSUME MasterIInv, NEW a \in Assets, DeleteAsset(a)
  PROVE  MasterIInv'
<1> USE DEF MasterIInv, DeleteAsset
<1> DEFINE s == assets[a].site
           rest == WithoutAsset(sites[s], a)
<1>1. DevicesArePlaced /\ RulesAreAssets /\ AssetsHaveSites /\ SitesAddUp
  BY ListsAre
<1>2. s \in Sites /\ sites[s] # Nobody /\ a \in AssetsOf(s)
  BY <1>1 DEF MasterTypeOK, AssetRow, AssetsHaveSites, RulesAreAssets, AssetsOf
<1>3. sites[s] \in SiteRow
  BY <1>2 DEF MasterTypeOK
<1>4. IsFiniteSet(AssetsOf(s))
  BY MasterConstants, FS_Subset DEF AssetsOf
<1>5. /\ Cardinality(AssetsOf(s) \ {a}) = Cardinality(AssetsOf(s)) - 1
      /\ Cardinality(AssetsOf(s)) \in Nat /\ Cardinality(AssetsOf(s) \ {a}) \in Nat
  BY <1>2, <1>4, FS_RemoveElement, FS_CardinalityType
<1>6. SiteAddsUp(s)
  BY <1>1, <1>2 DEF SitesAddUp
<1>7. /\ rest \in SiteRow /\ rest # Nobody
      /\ rest.net = sites[s].net /\ rest.plan = sites[s].plan /\ rest.profile = sites[s].profile
      /\ rest.totalDevices = sites[s].totalDevices
      /\ rest.targets = sites[s].targets \ {a}
      /\ rest.assetCount = Cardinality(AssetsOf(s) \ {a})
  <2>1. sites[s].assetCount = Cardinality(AssetsOf(s))
    BY <1>2, <1>6 DEF SiteAddsUp
  <2> DEFINE n == Cardinality(AssetsOf(s))
  <2>6. n > 0 /\ n - 1 = Cardinality(AssetsOf(s) \ {a})
    BY <1>5
  <2>2. rest = [sites[s] EXCEPT !.assetCount = Cardinality(AssetsOf(s) \ {a}),
                                !.targets = @ \ {a}]
    <3>1. rest = [sites[s] EXCEPT !.assetCount = IF n > 0 THEN n - 1 ELSE 0,
                                  !.targets = @ \ {a}]
      BY <2>1, <1>3 DEF WithoutAsset, SiteRow
    <3> QED BY <2>6, <3>1
  <2>3. rest \in SiteRow
    BY <2>2, <1>3, <1>5 DEF SiteRow
  <2> QED BY <2>2, <2>3, <1>3, NobodyIsNoRecord DEF SiteRow
<1>8. /\ assets'[a] = Nobody /\ \A b \in Assets \ {a} : assets'[b] = assets[b]
      /\ sites'[s] = rest /\ \A t \in Sites \ {s} : sites'[t] = sites[t]
  BY <1>2 DEF MasterTypeOK
<1>9. RegisteredDevices' = RegisteredDevices /\ \A t : DevicesAt(t)' = DevicesAt(t)
  BY DEF RegisteredDevices, DevicesAt
<1>10. \A b : ActiveOn(b)' = ActiveOn(b)
  BY <1>9 DEF ActiveOn, DevicesOf
<1>11. \A t \in Sites : AssetsOf(t)' = AssetsOf(t) \ {a}
  BY <1>8 DEF AssetsOf
<1>12. \A t \in Sites \ {s} : AssetsOf(t)' = AssetsOf(t)
  BY <1>11 DEF AssetsOf
<1>13. MasterTypeOK'
  <2>1. installPoints' \in [Points -> PointRow \cup {Nobody}]
    BY DEF MasterTypeOK
  <2>2. sites' \in [Sites -> SiteRow \cup {Nobody}]
    BY <1>2, <1>7 DEF MasterTypeOK
  <2> QED BY <2>1, <2>2 DEF MasterTypeOK, records, others
<1>14. DevicesArePlaced'
  <2> SUFFICES ASSUME NEW d \in RegisteredDevices PROVE DeviceIsPlaced(d)'
    BY <1>9 DEF DevicesArePlaced
  <2>1. DeviceIsPlaced(d) /\ devices[d].site \in Sites
    BY <1>1 DEF DevicesArePlaced, MasterTypeOK, RegisteredDevices, DeviceRow
  <2>2. devices[d].asset # a
    BY DEF AssetIsFree, DevicesOf
  <2>3. devices[d].asset \in AssetsOf(devices[d].site)'
    BY <2>1, <2>2, <1>11 DEF DeviceIsPlaced
  <2> QED BY <2>1, <2>3, <1>10 DEF DeviceIsPlaced
<1>15. RulesAreAssets'
  BY <1>1, <1>8 DEF RulesAreAssets
<1>16. AssetsHaveSites'
  BY <1>1, <1>7, <1>8 DEF AssetsHaveSites, RulesAreAssets, MasterTypeOK, AssetRow
<1>17. SitesAddUp'
  <2> SUFFICES ASSUME NEW t \in Sites PROVE SiteAddsUp(t)'
    BY DEF SitesAddUp
  <2>1. CASE t = s
    <3>1. /\ sites[t].targets \subseteq AssetsOf(t)
          /\ sites[t].plan = sites[t].net /\ sites[t].profile = sites[t].net
          /\ sites[t].totalDevices = Cardinality(DevicesAt(t))
      BY <1>2, <1>6, <2>1 DEF SiteAddsUp
    <3>2. AssetsOf(t)' = AssetsOf(t) \ {a} /\ DevicesAt(t)' = DevicesAt(t)
      BY <1>9, <1>11
    <3>3. PICK row : row = rest
      OBVIOUS
    <3>4. sites'[t] = row
      BY <1>8, <2>1, <3>3
    <3>5. /\ row.targets \subseteq AssetsOf(t) \ {a}
          /\ row.plan = row.net /\ row.profile = row.net
          /\ row.totalDevices = Cardinality(DevicesAt(t))
          /\ row.assetCount = Cardinality(AssetsOf(t) \ {a})
      <4> HIDE DEF rest
      <4> QED BY <1>7, <2>1, <3>1, <3>3
    <3> QED BY <3>2, <3>4, <3>5 DEF SiteAddsUp
  <2>2. CASE t # s
    BY <2>2, <1>1, <1>8, <1>9, <1>12 DEF SitesAddUp, SiteAddsUp
  <2> QED BY <2>1, <2>2
<1>18. ListsAgree'
  BY <1>14, <1>15, <1>16, <1>17, ListsAre
<1>19. NoOrphanRecords'
  BY <1>7, <1>8, <1>9 DEF NoOrphanRecords, MasterTypeOK, AssetIsFree, records
<1>20. GateHolds'
  BY <1>9 DEF GateHolds, records, others
<1> QED BY <1>13, <1>18, <1>19, <1>20

(* Requests that touch neither sites nor devices: the lists agree as they  *)
(* did, if the assets and their rules are the same.                        *)
LEMMA RegisteredRest ==
  ASSUME UNCHANGED devices
  PROVE  RegisteredDevices' = RegisteredDevices
BY DEF RegisteredDevices

LEMMA PointsStep ==
  ASSUME MasterIInv,
         \/ \E a \in Assets : SurveyPoint(a)
         \/ \E p \in Points, named \in BOOLEAN : CreatePoint(p, named) \/ UpdatePoint(p)
  PROVE  MasterIInv'
<1> USE DEF MasterIInv, SurveyPoint, CreatePoint, UpdatePoint
<1>1. UNCHANGED <<sites, assets, ruleSets, devices, records, gate>>
  BY DEF others
<1>2. ListsAgree'
  BY <1>1, ListsRest
<1>3. installPoints' \in [Points -> PointRow \cup {Nobody}]
  <2>1. ASSUME NEW p \in Points, NEW named \in BOOLEAN, CreatePoint(p, named)
        PROVE  installPoints' \in [Points -> PointRow \cup {Nobody}]
    <3>1. [asset |-> surveyed, active |-> TRUE] \in PointRow
      BY <2>1 DEF MasterTypeOK, PointRow
    <3> QED BY <2>1, <3>1 DEF MasterTypeOK
  <2>2. ASSUME NEW p \in Points, UpdatePoint(p)
        PROVE  installPoints' \in [Points -> PointRow \cup {Nobody}]
    <3>1. [installPoints[p] EXCEPT !.active = ~@] \in PointRow
      <4>1. installPoints[p] \in PointRow
        BY <2>2 DEF MasterTypeOK
      <4> QED BY <4>1 DEF PointRow
    <3> QED BY <2>2, <3>1 DEF MasterTypeOK
  <2>3. CASE UNCHANGED installPoints
    BY <2>3 DEF MasterTypeOK
  <2> QED BY <2>1, <2>2, <2>3
<1>4. surveyed' \in Assets \cup {Nobody}
  BY DEF MasterTypeOK, others
<1>5. MasterTypeOK'
  BY <1>1, <1>3, <1>4 DEF MasterTypeOK, records
<1>6. NoOrphanRecords' /\ GateHolds'
  BY <1>1, RegisteredRest DEF NoOrphanRecords, GateHolds, records
<1> QED BY <1>2, <1>5, <1>6

(* An asset's state, which no list repeats.                                *)
LEMMA AssetUpdated ==
  ASSUME MasterIInv, NEW a \in Assets, UpdateAsset(a)
  PROVE  MasterIInv'
<1> USE DEF MasterIInv, UpdateAsset
<1>1. DevicesArePlaced /\ RulesAreAssets /\ AssetsHaveSites /\ SitesAddUp
  BY ListsAre
<1>2. assets' \in [Assets -> AssetRow \cup {Nobody}]
  <2>1. assets \in [Assets -> AssetRow \cup {Nobody}] /\ assets[a] \in AssetRow
    BY DEF MasterTypeOK
  <2>2. [assets[a] EXCEPT !.ready = ~@] \in AssetRow
    BY <2>1 DEF AssetRow
  <2> QED BY <2>1, <2>2
<1>3. \A b \in Assets : /\ (assets'[b] # Nobody) = (assets[b] # Nobody)
                        /\ assets[b] # Nobody => assets'[b].site = assets[b].site
  <2>1. assets[a] \in AssetRow
    BY DEF MasterTypeOK
  <2>2. [assets[a] EXCEPT !.ready = ~@] \in AssetRow
    BY <2>1 DEF AssetRow
  <2>3. assets'[a] = [assets[a] EXCEPT !.ready = ~@] /\ assets'[a].site = assets[a].site
    BY <2>1 DEF MasterTypeOK, AssetRow
  <2>4. \A b \in Assets \ {a} : assets'[b] = assets[b]
    BY DEF MasterTypeOK
  <2> QED BY <2>2, <2>3, <2>4, NobodyIsNoRecord
<1>4. \A t : AssetsOf(t)' = AssetsOf(t)
  BY <1>3 DEF AssetsOf
<1>5. RegisteredDevices' = RegisteredDevices /\ \A t : DevicesAt(t)' = DevicesAt(t)
  BY DEF RegisteredDevices, DevicesAt
<1>6. \A b : ActiveOn(b)' = ActiveOn(b)
  BY <1>5 DEF ActiveOn, DevicesOf
<1>7. DevicesArePlaced' /\ SitesAddUp'
  BY <1>1, <1>4, <1>5, <1>6 DEF DevicesArePlaced, DeviceIsPlaced, SitesAddUp, SiteAddsUp
<1>8. RulesAreAssets' /\ AssetsHaveSites'
  BY <1>1, <1>3 DEF RulesAreAssets, AssetsHaveSites
<1>9. ListsAgree'
  BY <1>7, <1>8, ListsAre
<1>10. MasterTypeOK' /\ NoOrphanRecords' /\ GateHolds'
  BY <1>2, <1>3, <1>5 DEF MasterTypeOK, NoOrphanRecords, GateHolds, records, others
<1> QED BY <1>9, <1>10

(* The first steps of a creation and of a deletion, and giving either up.  *)
LEMMA GateStep ==
  ASSUME MasterIInv, (\E d \in Devices : BeginCreate(d) \/ BeginDelete(d)) \/ GiveUp
  PROVE  MasterIInv'
<1> USE DEF MasterIInv, BeginCreate, BeginDelete, GiveUp
<1>1. UNCHANGED <<sites, assets, ruleSets, installPoints, devices, records, surveyed>>
  OBVIOUS
<1>2. ListsAgree'
  BY <1>1, ListsRest
<1>3. MasterTypeOK'
  BY <1>1 DEF MasterTypeOK, GateRow, records
<1>4. NoOrphanRecords'
  BY <1>1, RegisteredRest DEF NoOrphanRecords, records
<1>5. GateHolds'
  BY <1>1, RegisteredRest DEF GateHolds, records
<1> QED BY <1>2, <1>3, <1>4, <1>5

(* What refers to devices, assets and sites names what is there.           *)
LEMMA RecordsStep ==
  ASSUME MasterIInv,
         \/ \E d \in Devices : Measure(d) \/ Expire(d) \/ Configure(d) \/ Visit(d)
         \/ \E x \in Assets \cup Sites : Refer(x)
  PROVE  MasterIInv'
<1> USE DEF MasterIInv, Measure, Expire, Configure, Visit, Refer
<1>1. UNCHANGED <<sites, assets, ruleSets, installPoints, devices, histories, gate, surveyed>>
  BY DEF others
<1>2. ListsAgree'
  BY <1>1, ListsRest
<1>3. \A d \in RegisteredDevices :
        [dev |-> d, asset |-> devices[d].asset] \in [dev : Devices, asset : Assets]
        /\ assets[devices[d].asset] # Nobody
  <2>1. DevicesArePlaced
    BY ListsAre
  <2> SUFFICES ASSUME NEW d \in RegisteredDevices
               PROVE  /\ d \in Devices /\ devices[d].asset \in Assets
                      /\ assets[devices[d].asset] # Nobody
    OBVIOUS
  <2> QED BY <2>1 DEF DevicesArePlaced, DeviceIsPlaced, AssetsOf, RegisteredDevices
<1>4. \A d : Active(d) => d \in RegisteredDevices
  BY DEF Active
<1>5. MasterTypeOK'
  BY <1>1, <1>3, <1>4 DEF MasterTypeOK
<1>6. NoOrphanRecords'
  <2>1. histories' \cup configs' \subseteq RegisteredDevices
    BY <1>1 DEF NoOrphanRecords
  <2>2. \A r \in packets' \cup visits' : r.dev \in RegisteredDevices /\ assets[r.asset] # Nobody
    BY <1>3, <1>4 DEF NoOrphanRecords
  <2>3. \A y \in references' : IF y \in Assets THEN assets[y] # Nobody ELSE sites[y] # Nobody
    BY MasterConstants DEF NoOrphanRecords
  <2> QED BY <1>1, <2>1, <2>2, <2>3, RegisteredRest DEF NoOrphanRecords
<1>7. GateHolds'
  BY <1>1, RegisteredRest DEF GateHolds
<1> QED BY <1>2, <1>5, <1>6, <1>7

(* A device in its new state: mapped where it may be, and counted.         *)
LEMMA MappedIsPlaced ==
  ASSUME MasterIInv, NEW d \in Devices, NEW row \in DeviceRow,
         devices' = [devices EXCEPT ![d] = row], UNCHANGED assets,
         row.asset \in AssetsOf(row.site),
         row.active => MayBeActive(d, row.asset, row.certified)
  PROVE  RegisteredDevices' = RegisteredDevices \cup {d} /\ DevicesArePlaced'
<1>1. row # Nobody
  BY NobodyIsNoRecord
<1>2. DevicesArePlaced
  BY ListsAre DEF MasterIInv
<1>3. devices'[d] = row /\ \A e \in Devices \ {d} : devices'[e] = devices[e]
  BY DEF MasterIInv, MasterTypeOK
<1>4. RegisteredDevices' = RegisteredDevices \cup {d}
  BY <1>1, <1>3 DEF RegisteredDevices
<1>5. \A s : AssetsOf(s)' = AssetsOf(s)
  BY DEF AssetsOf
<1>6. \A a : ActiveOn(a)' \subseteq ActiveOn(a) \cup {d}
  BY <1>3, <1>4 DEF ActiveOn, DevicesOf
<1>7. ASSUME NEW e \in RegisteredDevices' PROVE DeviceIsPlaced(e)'
  <2>1. CASE e = d
    <3>1. ASSUME row.active PROVE ActiveOn(row.asset)' = {d} /\ row.certified
      <4>1. ActiveOn(row.asset) \subseteq {d} /\ row.certified
        BY <3>1 DEF MayBeActive
      <4>2. d \in ActiveOn(row.asset)'
        BY <3>1, <1>3, <1>4 DEF ActiveOn, DevicesOf
      <4> QED BY <4>1, <4>2, <1>6
    <3> QED BY <2>1, <3>1, <1>3, <1>5 DEF DeviceIsPlaced
  <2>2. CASE e # d
    <3>1. e \in RegisteredDevices /\ devices'[e] = devices[e] /\ DeviceIsPlaced(e)
      BY <2>2, <1>2, <1>3, <1>4 DEF DevicesArePlaced, RegisteredDevices
    <3>2. ASSUME devices[e].active PROVE ActiveOn(devices[e].asset)' = {e}
      <4>1. ActiveOn(devices[e].asset) = {e}
        BY <3>1, <3>2 DEF DeviceIsPlaced
      <4>2. e \in ActiveOn(devices[e].asset)'
        BY <3>1, <3>2, <1>4 DEF ActiveOn, DevicesOf
      <4>3. d \notin ActiveOn(devices[e].asset)'
        <5>1. SUFFICES ASSUME row.active, row.asset = devices[e].asset PROVE FALSE
          BY <1>3, <3>1 DEF ActiveOn, DevicesOf
        <5>2. ActiveOn(row.asset) \subseteq {d}
          BY <5>1 DEF MayBeActive
        <5> QED BY <4>1, <5>1, <5>2, <2>2
      <4> QED BY <4>1, <4>2, <4>3, <1>6
    <3> QED BY <3>1, <3>2, <1>5 DEF DeviceIsPlaced
  <2> QED BY <2>1, <2>2
<1> QED BY <1>4, <1>7 DEF DevicesArePlaced

LEMMA DeviceCreated ==
  ASSUME MasterIInv, NEW a \in Assets, NEW active \in BOOLEAN, NEW certified \in BOOLEAN,
         FinishCreate(a, active, certified)
  PROVE  MasterIInv'
<1> USE DEF MasterIInv, FinishCreate
<1> DEFINE d == gate.dev
           s == assets[a].site
           row == [site |-> s, asset |-> a, active |-> active, certified |-> certified]
           counted == [sites[s] EXCEPT !.totalDevices = @ + 1]
<1>1. DevicesArePlaced /\ RulesAreAssets /\ AssetsHaveSites /\ SitesAddUp
  BY ListsAre
<1>2. d \in Devices /\ s \in Sites /\ a \in AssetsOf(s) /\ sites[s] # Nobody
  <2>1. gate \in GateRow /\ assets[a] \in AssetRow
    BY DEF MasterTypeOK
  <2> QED BY <2>1, <1>1 DEF GateRow, AssetRow, AssetsOf, RulesAreAssets, AssetsHaveSites
<1>3. row \in DeviceRow /\ row # Nobody
  <2>1. row \in DeviceRow
    BY <1>2 DEF DeviceRow
  <2> QED BY <2>1, NobodyIsNoRecord
<1>4. sites[s] \in SiteRow /\ counted \in SiteRow /\ counted # Nobody
  <2>1. sites[s] \in SiteRow
    BY <1>2 DEF MasterTypeOK
  <2>2. counted \in SiteRow
    BY <2>1 DEF SiteRow
  <2> QED BY <2>1, <2>2, NobodyIsNoRecord
<1>5. /\ devices'[d] = row /\ \A e \in Devices \ {d} : devices'[e] = devices[e]
      /\ sites'[s] = counted /\ \A t \in Sites \ {s} : sites'[t] = sites[t]
  BY <1>2 DEF MasterTypeOK
<1>6. RegisteredDevices' = RegisteredDevices \cup {d} /\ DevicesArePlaced'
  BY <1>2, <1>3, MappedIsPlaced
<1>7. \A t : AssetsOf(t)' = AssetsOf(t)
  BY DEF AssetsOf
<1>8. /\ DevicesAt(s)' = DevicesAt(s) \cup {d} /\ d \notin DevicesAt(s)
      /\ \A t \in Sites \ {s} : DevicesAt(t)' = DevicesAt(t)
  BY <1>5, <1>6 DEF DevicesAt, RegisteredDevices
<1>9. IsFiniteSet(DevicesAt(s))
  BY MasterConstants, FS_Subset DEF DevicesAt, RegisteredDevices
<1>10. SitesAddUp'
  <2> SUFFICES ASSUME NEW t \in Sites PROVE SiteAddsUp(t)'
    BY SMTT(60) DEF SitesAddUp
  <2>1. CASE t = s
    <3>1. Cardinality(DevicesAt(s)') = Cardinality(DevicesAt(s)) + 1
      BY <1>8, <1>9, FS_AddElement
    <3>2. SiteAddsUp(s)
      BY <1>1, <1>2 DEF SitesAddUp
    <3> QED BY <2>1, <3>1, <3>2, <1>2, <1>4, <1>5, <1>7 DEF SiteAddsUp, SiteRow
  <2>2. CASE t # s
    BY <2>2, <1>1, <1>5, <1>7, <1>8 DEF SitesAddUp, SiteAddsUp
  <2> QED BY <2>1, <2>2
<1>11. RulesAreAssets' /\ AssetsHaveSites'
  BY <1>1, <1>4, <1>5 DEF RulesAreAssets, AssetsHaveSites, MasterTypeOK, AssetRow
<1>12. ListsAgree'
  BY <1>6, <1>10, <1>11, ListsAre
<1>13. MasterTypeOK'
  BY <1>2, <1>3, <1>4 DEF MasterTypeOK, records, others
<1>14. NoOrphanRecords'
  BY <1>4, <1>5, <1>6 DEF NoOrphanRecords, MasterTypeOK, records
<1>15. GateHolds'
  BY DEF GateHolds
<1> QED BY <1>12, <1>13, <1>14, <1>15

LEMMA DeviceUpdated ==
  ASSUME MasterIInv, NEW d \in Devices, NEW a \in Assets,
         NEW active \in BOOLEAN, NEW certified \in BOOLEAN,
         UpdateDevice(d, a, active, certified)
  PROVE  MasterIInv'
<1> USE DEF MasterIInv, UpdateDevice
<1> DEFINE old == devices[d]
           new == [old EXCEPT !.asset = a, !.active = active, !.certified = certified]
<1>1. DevicesArePlaced /\ RulesAreAssets /\ AssetsHaveSites /\ SitesAddUp
  BY ListsAre
<1>2. old \in DeviceRow
  BY DEF MasterTypeOK, RegisteredDevices
<1>3. /\ new \in DeviceRow /\ new.site = old.site /\ new.asset = a
      /\ new.active = active /\ new.certified = certified
  BY <1>2 DEF DeviceRow
<1>4. a \in AssetsOf(old.site)
  BY DEF AssetsOf
<1>5. devices'[d] = new /\ \A e \in Devices \ {d} : devices'[e] = devices[e]
  BY DEF MasterTypeOK
<1>6. RegisteredDevices' = RegisteredDevices /\ DevicesArePlaced'
  <2>1. devices' = [devices EXCEPT ![d] = new]
    OBVIOUS
  <2>2. new.asset \in AssetsOf(new.site)
    BY <1>3, <1>4
  <2>3. new.active => MayBeActive(d, new.asset, new.certified)
    BY <1>3
  <2>4. RegisteredDevices' = RegisteredDevices \cup {d} /\ DevicesArePlaced'
    BY <2>1, <2>2, <2>3, <1>3, MappedIsPlaced
  <2> QED BY <2>4
<1>7. \A t : AssetsOf(t)' = AssetsOf(t)
  BY DEF AssetsOf
<1>8. \A t : DevicesAt(t)' = DevicesAt(t)
  BY <1>3, <1>5, <1>6 DEF DevicesAt, RegisteredDevices
<1>9. SitesAddUp' /\ RulesAreAssets' /\ AssetsHaveSites'
  BY <1>1, <1>7, <1>8 DEF SitesAddUp, SiteAddsUp, RulesAreAssets, AssetsHaveSites
<1>10. ListsAgree'
  BY <1>6, <1>9, ListsAre
<1>11. MasterTypeOK'
  BY <1>3 DEF MasterTypeOK, records, others
<1>12. NoOrphanRecords' /\ GateHolds'
  BY <1>6 DEF NoOrphanRecords, GateHolds, records, others
<1> QED BY <1>10, <1>11, <1>12

(* The device goes: nothing that was recorded of it is left, and no history*)
(* was reserved while the gate was held.                                   *)
LEMMA DeviceDeleted ==
  ASSUME MasterIInv, FinishDelete
  PROVE  MasterIInv'
<1> USE DEF MasterIInv, FinishDelete
<1>20. gate.dev \in Devices /\ devices[gate.dev].site \in Sites
  BY DEF GateHolds, RegisteredDevices, MasterTypeOK, DeviceRow
<1> SUFFICES ASSUME NEW d \in Devices, d = gate.dev, NEW s \in Sites, s = devices[d].site
             PROVE  MasterIInv'
  BY <1>20
<1> DEFINE counted == [sites[s] EXCEPT !.totalDevices = @ - 1]
<1>1. DevicesArePlaced /\ RulesAreAssets /\ AssetsHaveSites /\ SitesAddUp
  BY ListsAre
<1>2. d \in RegisteredDevices /\ d \notin histories 
  BY DEF GateHolds, RegisteredDevices
<1>3. devices[d] \in DeviceRow /\ DeviceIsPlaced(d)
  BY <1>1, <1>2 DEF MasterTypeOK, RegisteredDevices, DeviceRow, DevicesArePlaced
<1>4. sites[s] # Nobody
  BY <1>1, <1>3 DEF DeviceIsPlaced, AssetsOf, RulesAreAssets, AssetsHaveSites
<1>5. IsFiniteSet(DevicesAt(s)) /\ d \in DevicesAt(s)
  BY <1>2, MasterConstants, FS_Subset DEF DevicesAt, RegisteredDevices
<1>6. /\ Cardinality(DevicesAt(s) \ {d}) = Cardinality(DevicesAt(s)) - 1
      /\ Cardinality(DevicesAt(s)) \in Nat /\ Cardinality(DevicesAt(s) \ {d}) \in Nat
  <2>1. IsFiniteSet(DevicesAt(s) \ {d})
    BY <1>5, FS_RemoveElement
  <2> QED BY <2>1, <1>5, FS_RemoveElement, FS_CardinalityType
<1>7. SiteAddsUp(s) /\ sites[s] \in SiteRow
  BY <1>1, <1>3, <1>4 DEF SitesAddUp, MasterTypeOK
<1>8. counted \in SiteRow /\ counted # Nobody
  <2>1. sites[s].totalDevices - 1 \in Nat
    BY <1>4, <1>6, <1>7 DEF SiteAddsUp
  <2>2. counted \in SiteRow
    BY <2>1, <1>7 DEF SiteRow
  <2> QED BY SMTT(60), <2>2, NobodyIsNoRecord
<1>9. /\ devices'[d] = Nobody /\ \A e \in Devices \ {d} : devices'[e] = devices[e]
      /\ sites'[s] = counted /\ \A t \in Sites \ {s} : sites'[t] = sites[t]
  BY <1>2, <1>3 DEF MasterTypeOK
<1>10. RegisteredDevices' = RegisteredDevices \ {d}
  BY <1>9 DEF RegisteredDevices
<1>11. \A t : AssetsOf(t)' = AssetsOf(t)
  BY DEF AssetsOf
<1>12. /\ DevicesAt(s)' = DevicesAt(s) \ {d}
       /\ \A t \in Sites \ {s} : DevicesAt(t)' = DevicesAt(t)
  <2>1. \A t : DevicesAt(t)' = {e \in RegisteredDevices \ {d} : devices[e].site = t}
    <3> TAKE t
    <3>1. \A e \in RegisteredDevices \ {d} : devices'[e] = devices[e]
      BY <1>9 DEF RegisteredDevices
    <3> QED BY <3>1, <1>10 DEF DevicesAt
  <2>2. \A t : DevicesAt(t)' = DevicesAt(t) \ {d}
    BY <2>1 DEF DevicesAt
  <2>3. \A t : t # s => d \notin DevicesAt(t)
    BY DEF DevicesAt
  <2> QED BY <2>2, <2>3
<1>13. DevicesArePlaced'
  <2> SUFFICES ASSUME NEW e \in RegisteredDevices, e # d PROVE DeviceIsPlaced(e)'
    BY <1>10 DEF DevicesArePlaced
  <2>1. DeviceIsPlaced(e) /\ devices'[e] = devices[e]
    BY <1>1, <1>9 DEF DevicesArePlaced, RegisteredDevices
  <2>2. \A b : ActiveOn(b)' = ActiveOn(b) \ {d}
    BY <1>9, <1>10 DEF ActiveOn, DevicesOf, RegisteredDevices
  <2> QED BY <2>1, <2>2, <1>11 DEF DeviceIsPlaced
<1>14. SitesAddUp'
  <2> SUFFICES ASSUME NEW t \in Sites PROVE SiteAddsUp(t)'
    BY SMTT(60) DEF SitesAddUp
  <2>1. CASE t = s
    <3>1. /\ counted.targets = sites[s].targets /\ counted.net = sites[s].net
          /\ counted.plan = sites[s].plan /\ counted.profile = sites[s].profile
          /\ counted.assetCount = sites[s].assetCount
          /\ counted.totalDevices = sites[s].totalDevices - 1
      BY <1>7 DEF SiteRow
    <3>2. sites[s].totalDevices = Cardinality(DevicesAt(s))
      BY <1>4, <1>7 DEF SiteAddsUp
    <3>3. Cardinality(DevicesAt(s)') = counted.totalDevices
      BY SMTT(60), <3>1, <3>2, <1>6, <1>12
    <3>4. /\ sites[s].targets \subseteq AssetsOf(s)
          /\ sites[s].plan = sites[s].net /\ sites[s].profile = sites[s].net
          /\ sites[s].assetCount = Cardinality(AssetsOf(s))
      BY <1>4, <1>7 DEF SiteAddsUp
    <3>5. sites'[s] = counted
      BY <1>9
    <3> HIDE DEF counted
    <3> QED BY ZenonT(60), <2>1, <3>1, <3>3, <3>4, <3>5, <1>11 DEF SiteAddsUp
  <2>2. CASE t # s
    BY <2>2, <1>1, <1>9, <1>11, <1>12 DEF SitesAddUp, SiteAddsUp
  <2> QED BY <2>1, <2>2
<1>15. RulesAreAssets' /\ AssetsHaveSites'
  <2>1. \A t \in Sites : sites[t] # Nobody => sites'[t] # Nobody
    BY <1>8, <1>9
  <2>2. \A a \in ruleSets : assets[a].site \in Sites
    BY <1>1 DEF RulesAreAssets, MasterTypeOK, AssetRow
  <2> QED BY SMTT(60), <2>1, <2>2, <1>1 DEF RulesAreAssets, AssetsHaveSites
<1>16. ListsAgree'
  BY SMTT(60), <1>13, <1>14, <1>15, ListsAre
<1>17. MasterTypeOK'
  BY SMTT(60), <1>2, <1>3, <1>8 DEF MasterTypeOK, records, others
<1>18. NoOrphanRecords'
  BY ZenonT(60), <1>2, <1>8, <1>9, <1>10 DEF NoOrphanRecords, DeviceIsFree, MasterTypeOK, records
<1>19. GateHolds'
  BY DEF GateHolds
<1> QED BY <1>16, <1>17, <1>18, <1>19

LEMMA MasterStep == ASSUME MasterIInv, MasterNext PROVE MasterIInv'
<1>1. CASE \E s \in Sites : DeleteSite(s)
  BY <1>1, SiteDeleted
<1>2. CASE \E s \in Sites, net \in Networks :
             \/ CreateSite(s, net) \/ UpdateNetwork(s, net)
             \/ \E targets \in SUBSET Assets : UpdateRolloutPlan(s, net, targets)
  BY <1>2, SitesStep
<1>3. CASE \E a \in Assets : \/ UpdateAsset(a) \/ DeleteAsset(a)
                            \/ \E s \in Sites, ready \in BOOLEAN : CreateAsset(a, s, ready)
  BY <1>3, AssetCreated, AssetUpdated, AssetDeleted
<1>4. CASE \/ \E a \in Assets : SurveyPoint(a)
           \/ \E p \in Points, named \in BOOLEAN : CreatePoint(p, named) \/ UpdatePoint(p)
  BY <1>4, PointsStep
<1>5. CASE (\E d \in Devices : BeginCreate(d) \/ BeginDelete(d)) \/ GiveUp
  BY <1>5, GateStep
<1>6. CASE \/ \E d \in Devices : Measure(d) \/ Expire(d) \/ Configure(d) \/ Visit(d)
           \/ \E x \in Assets \cup Sites : Refer(x)
  BY <1>6, RecordsStep
<1>7. CASE \E a \in Assets, active, certified \in BOOLEAN :
             \/ FinishCreate(a, active, certified)
             \/ \E d \in Devices : UpdateDevice(d, a, active, certified)
  BY <1>7, DeviceCreated, DeviceUpdated
<1>8. CASE FinishDelete
  BY <1>8, DeviceDeleted
<1> QED BY <1>1, <1>2, <1>3, <1>4, <1>5, <1>6, <1>7, <1>8 DEF MasterNext

-----------------------------------------------------------------------------
(* The quality store.                                                      *)

ReportsKnown == windows \subseteq Reports /\ answered \subseteq Reports /\ now \in Nat
QualityIInv == MasterIInv /\ ReportsKnown /\ ReportsKept

LEMMA ReportFields ==
  \A r \in Reports : /\ r.dev \in Devices /\ r.from \in Nat /\ r.to \in Nat /\ r.from < r.to
                     /\ r.boot \in Nat /\ r.id \in Nat
BY QualityConstants

(* No request of the master data changes the histories.                    *)
LEMMA HistoriesRest == ASSUME MasterNext PROVE histories' = histories
<1>1. CASE \E s \in Sites :
             \/ DeleteSite(s)
             \/ \E net \in Networks : CreateSite(s, net) \/ UpdateNetwork(s, net)
             \/ \E net \in Networks, targets \in SUBSET Assets : UpdateRolloutPlan(s, net, targets)
             \/ \E a \in Assets, ready \in BOOLEAN : CreateAsset(a, s, ready)
  BY <1>1 DEF DeleteSite, CreateSite, UpdateNetwork, UpdateRolloutPlan, CreateAsset, records
<1>2. CASE \/ \E a \in Assets : UpdateAsset(a) \/ DeleteAsset(a) \/ SurveyPoint(a)
           \/ \E p \in Points : \/ UpdatePoint(p)
                               \/ \E named \in BOOLEAN : CreatePoint(p, named)
  BY <1>2 DEF UpdateAsset, DeleteAsset, SurveyPoint, UpdatePoint, CreatePoint, records
<1>3. CASE \E d \in Devices : \/ BeginCreate(d) \/ BeginDelete(d)
                             \/ Measure(d) \/ Expire(d) \/ Configure(d) \/ Visit(d)
  BY <1>3 DEF BeginCreate, BeginDelete, Measure, Expire, Configure, Visit, records
<1>4. CASE \E a \in Assets, active, certified \in BOOLEAN :
             \/ FinishCreate(a, active, certified)
             \/ \E d \in Devices : UpdateDevice(d, a, active, certified)
  <2>1. ASSUME NEW a, NEW active, NEW certified, FinishCreate(a, active, certified)
        PROVE  UNCHANGED records
    BY <2>1 DEF FinishCreate
  <2>2. ASSUME NEW a, NEW active, NEW certified, NEW d, UpdateDevice(d, a, active, certified)
        PROVE  UNCHANGED records
    BY <2>2 DEF UpdateDevice
  <2> QED BY <1>4, <2>1, <2>2 DEF records
<1>5. CASE FinishDelete \/ GiveUp \/ \E x \in Assets \cup Sites : Refer(x)
  BY <1>5 DEF FinishDelete, GiveUp, Refer, records
<1> QED BY <1>1, <1>2, <1>3, <1>4, <1>5 DEF MasterNext

(* A report that is stored belongs to a registered device, which nobody is *)
(* deleting: the gate is free.                                             *)
LEMMA ReportIngested ==
  ASSUME QualityIInv, NEW r \in Reports, NEW lost \in BOOLEAN, IngestReport(r, lost)
  PROVE  QualityIInv'
<1>16. /\ ReportsKept
       /\ \A v, w \in windows : v # w => WindowKey(v) # WindowKey(w) /\ ~(
            v.dev = w.dev /\ v.boot = w.boot /\ v.from < w.to /\ w.from < v.to)
  BY DEF QualityIInv, ReportsKept
<1> USE DEF QualityIInv, IngestReport
<1> DEFINE kept == KeptReports(windows, now)
           what == Disposition(r)
<1>1. kept \subseteq windows /\ \A w \in windows \ kept : w.to + Retention <= now
  BY ReportFields, QualityConstants DEF KeptReports, ReportsKnown
<1>2. what \in {"conflict", "duplicate", "expired", "overlap", "stored"}
  BY DEF Disposition
<1>3. what = "duplicate" => r \in kept
  BY DEF Disposition
<1>4. what = "stored" =>
        /\ \A w \in kept : WindowKey(w) = WindowKey(r) => w = r
        /\ \A w \in kept : ~Overlaps(r, w)
        /\ r \notin kept
  BY DEF Disposition
<1>5. r.dev \in RegisteredDevices
  BY DEF Active
<1>6. MasterIInv'
  <2>1. UNCHANGED <<sites, assets, ruleSets, installPoints, devices, packets, configs, visits,
                    references, gate, surveyed>>
    BY DEF others
  <2>2. histories' \subseteq histories \cup {r.dev}
    BY DEF Reserve
  <2>3. r.dev \in Devices
    BY ReportFields
  <2>4. ListsAgree'
    BY <2>1, ListsRest DEF MasterIInv
  <2>5. MasterTypeOK' /\ GateHolds'
    BY <2>1, <2>2, <2>3 DEF MasterIInv, MasterTypeOK, GateHolds
  <2>6. NoOrphanRecords'
    BY <2>1, <2>2, <1>5, RegisteredRest DEF MasterIInv, NoOrphanRecords
  <2> QED BY <2>4, <2>5, <2>6 DEF MasterIInv
<1>7. windows' \subseteq windows \cup {r} /\ (r \in windows' \ windows => what = "stored")
  BY <1>1, <1>2
<1>8. \A v \in windows : v \in windows' \/ v.to + Retention <= now
  BY <1>1, <1>2
<1>9. answered' \subseteq answered \cup {r} /\ (r \in answered' \ answered => r \in windows')
  BY <1>2, <1>3
<1>10. ReportsKnown'
  BY <1>7, <1>9 DEF ReportsKnown
<1>11. \A v \in answered' : v \in windows' \/ v.to + Retention <= now'
  BY <1>8, <1>9 DEF ReportsKept
<1>12. ASSUME what = "stored", NEW w \in kept
       PROVE  /\ WindowKey(w) # WindowKey(r)
              /\ ~(w.dev = r.dev /\ w.boot = r.boot /\ w.from < r.to /\ r.from < w.to)
  <2>1. w \in Reports
    BY <1>1 DEF ReportsKnown
  <2> QED BY <1>4, <1>12, <2>1, ReportFields DEF Overlaps
<1>13. what = "stored" => windows' = kept \cup {r}
  OBVIOUS
<1>14. \A v, w \in windows' : v # w => WindowKey(v) # WindowKey(w) /\ ~(
         v.dev = w.dev /\ v.boot = w.boot /\ v.from < w.to /\ w.from < v.to)
  <2>1. CASE what = "stored"
    <3> HIDE DEF kept, what, QualityIInv, IngestReport
    <3>1. /\ kept \subseteq windows
          /\ \A v, w \in windows : v # w => WindowKey(v) # WindowKey(w) /\ ~(
               v.dev = w.dev /\ v.boot = w.boot /\ v.from < w.to /\ w.from < v.to)
      BY <1>1, <1>16
    <3>2. \A w \in kept :
            /\ WindowKey(w) # WindowKey(r)
            /\ ~(w.dev = r.dev /\ w.boot = r.boot /\ w.from < r.to /\ r.from < w.to)
      BY <1>12, <2>1
    <3>3. windows' = kept \cup {r}
      BY <1>13, <2>1
    <3> HIDE DEF kept, what, QualityIInv, IngestReport
    <3> QED BY <3>1, <3>2, <3>3
  <2>2. CASE what # "stored"
    <3>1. windows' \subseteq windows
      BY <2>2, <1>7
    <3> HIDE DEF kept, what, QualityIInv, IngestReport
    <3> QED BY <3>1, <1>16
  <2> QED BY <2>1, <2>2
<1>15. {w.dev : w \in windows'} \subseteq histories'
  BY <1>2, <1>7 DEF ReportsKept, Reserve
<1> QED BY <1>6, <1>10, <1>11, <1>14, <1>15 DEF ReportsKept

LEMMA QualityStep ==
  ASSUME QualityIInv, [QualityNext]_<<masterVars, qualityVars>>
  PROVE  QualityIInv'
<1>1. CASE MasterNext /\ UNCHANGED qualityVars
  BY <1>1, MasterStep, HistoriesRest DEF QualityIInv, qualityVars, ReportsKnown, ReportsKept
<1>2. CASE \E r \in Reports, lost \in BOOLEAN : IngestReport(r, lost)
  BY <1>2, ReportIngested
<1>3. ASSUME UNCHANGED masterVars PROVE MasterIInv'
  <2>1. UNCHANGED <<sites, assets, ruleSets, devices>>
    BY <1>3 DEF masterVars
  <2>2. ListsAgree' /\ RegisteredDevices' = RegisteredDevices
    BY <2>1, ListsRest, RegisteredRest DEF QualityIInv, MasterIInv
  <2> QED BY <1>3, <2>2 DEF masterVars, QualityIInv, MasterIInv, MasterTypeOK,
                          NoOrphanRecords, GateHolds
<1>4. CASE Prune
  <2>1. \A w \in windows : w \in windows' \/ w.to + Retention <= now
    BY <1>4, ReportFields, QualityConstants DEF Prune, KeptReports, QualityIInv, ReportsKnown
  <2>2. windows' \subseteq windows /\ UNCHANGED <<histories, answered, now>>
    BY <1>4 DEF Prune, KeptReports, masterVars
  <2>3. MasterIInv'
    BY <1>3, <1>4 DEF Prune
  <2> QED BY <2>1, <2>2, <2>3 DEF QualityIInv, ReportsKnown, ReportsKept
<1>5. CASE Tick
  <2>1. MasterIInv' /\ UNCHANGED <<windows, histories, answered>> /\ now' = now + 1
    BY <1>3, <1>5 DEF Tick, masterVars
  <2>2. \A r \in answered : r.to + Retention <= now => r.to + Retention <= now + 1
    BY ReportFields, QualityConstants DEF QualityIInv, ReportsKnown
  <2>3. now' \in Nat
    BY <2>1 DEF QualityIInv, ReportsKnown
  <2> QED BY <2>1, <2>2, <2>3 DEF QualityIInv, ReportsKnown, ReportsKept
<1>6. CASE UNCHANGED <<masterVars, qualityVars>>
  <2>1. MasterIInv' /\ UNCHANGED <<windows, histories, answered, now>>
    BY <1>3, <1>6 DEF masterVars, qualityVars
  <2> QED BY <2>1 DEF QualityIInv, ReportsKnown, ReportsKept
<1> QED BY <1>1, <1>2, <1>4, <1>5, <1>6 DEF QualityNext

(* Whole numbers by the width of a bucket.                                 *)
LEMMA Bucketed ==
  ASSUME NEW n \in Nat, NEW k \in Nat, k > 0
  PROVE  /\ n \div k \in Nat /\ (n \div k) * k \in Nat
         /\ (n \div k) * k <= n /\ n < (n \div k) * k + k
OBVIOUS

LEMMA BucketsGrow ==
  ASSUME NEW m \in Nat, NEW n \in Nat, NEW k \in Nat, k > 0, m <= n
  PROVE  m \div k <= n \div k /\ (m \div k) * k <= (n \div k) * k
OBVIOUS

(* Each window of a range lies in the bucket of its last moment.           *)
LEMMA ItemsOfReports ==
  ASSUME ReportsKnown
  PROVE  ItemsAddUp
<1> SUFFICES ASSUME NEW d, NEW a, NEW start \in 0 .. Horizon, NEW end \in start + 1 .. Horizon + 1
             PROVE  LET all == SelectedReports(d, a, start, end) IN
                    /\ all = UNION {InBucket(d, a, start, end, b) : b \in Buckets(start, end)}
                    /\ \A b \in Buckets(start, end) :
                         \A w \in InBucket(d, a, start, end, b) \ CrossBoundary(d, a, start, end, b) :
                           b <= w.from /\ w.to <= b + Width
  BY DEF ItemsAddUp
<1> DEFINE all == SelectedReports(d, a, start, end)
<1>1. Width \in Nat /\ Width > 0 /\ start \in Nat /\ end \in Nat /\ Horizon \in Nat
  BY QualityConstants
<1>2. ASSUME NEW w \in all
      PROVE  /\ w.from \in Nat /\ w.to \in Nat /\ w.to - 1 \in Nat
             /\ start <= w.to - 1 /\ w.to <= end
  BY <1>1, ReportFields DEF SelectedReports, KeptReports, ReportsKnown
<1>3. ASSUME NEW w \in all PROVE BucketOf(w) \in Buckets(start, end)
  <2> DEFINE k == (w.to - 1) \div Width
  <2>1. k \in Nat /\ k * Width <= w.to - 1 /\ k * Width \in Nat
    BY <1>1, <1>2, Bucketed
  <2>2. (start \div Width) * Width <= k * Width
    BY <1>1, <1>2, BucketsGrow
  <2>3. k <= end \div Width /\ end \div Width \in Nat
    <3>1. w.to - 1 <= end
      BY <1>1, <1>2
    <3> QED BY <3>1, <1>1, <1>2, BucketsGrow, Bucketed
  <2>4. k * Width < end
    BY <1>1, <1>2, <2>1
  <2>5. BucketOf(w) = k * Width
    BY DEF BucketOf
  <2> HIDE DEF k
  <2>6. k \in 0 .. (end \div Width)
    BY <2>1, <2>3
  <2> QED BY <2>2, <2>4, <2>5, <2>6 DEF Buckets
<1>4. all = UNION {InBucket(d, a, start, end, b) : b \in Buckets(start, end)}
  BY <1>3 DEF InBucket
<1>5. ASSUME NEW b \in Buckets(start, end),
             NEW w \in InBucket(d, a, start, end, b) \ CrossBoundary(d, a, start, end, b)
      PROVE  b <= w.from /\ w.to <= b + Width
  <2>1. w \in all /\ b = ((w.to - 1) \div Width) * Width
    BY DEF InBucket, BucketOf
  <2>2. b \in Nat /\ w.to - 1 < b + Width
    BY <2>1, <1>1, <1>2, Bucketed
  <2>3. ~(w.from < IF b > start THEN b ELSE start)
    BY DEF CrossBoundary
  <2> QED BY <2>1, <2>2, <2>3, <1>1, <1>2
<1> QED BY <1>4, <1>5

\* Whatever requests come in between the two steps of a creation or a deletion, and
\* whatever reports devices send, the invariant holds.
THEOREM QualityInvariance == QualitySpec => []QualityIInv
<1>1. QualityInit => QualityIInv
  BY ListsInit DEF QualityInit, QualityIInv, ReportsKnown, ReportsKept
<1>2. QualityIInv /\ [QualityNext]_<<masterVars, qualityVars>> => QualityIInv'
  BY QualityStep
<1> QED BY <1>1, <1>2, PTL DEF QualitySpec

\* The lists of master data agree, and nothing that was recorded about a device, an asset
\* or a site outlives it: for any sites, assets, devices, points and networks.
THEOREM MasterDataStays == QualitySpec => []MasterDataHolds
<1>1. QualityIInv => MasterDataHolds
  BY DEF QualityIInv, MasterIInv, MasterDataHolds
<1> QED BY <1>1, QualityInvariance, PTL

\* No report a device may forget is lost, none is counted twice, and the items of every
\* range add up to its summary: for any reports, retention time and width of a bucket.
THEOREM ReportsStay == QualitySpec => []ReportsHold
<1>1. QualityIInv => ReportsHold
  BY ItemsOfReports DEF QualityIInv, ReportsHold
<1> QED BY <1>1, QualityInvariance, PTL

\* Both, of every history of requests and reports.
THEOREM QualityStays == QualitySpec => []QualityHolds
<1>1. MasterDataHolds /\ ReportsHold => QualityHolds
  BY DEF QualityHolds
<1> QED BY <1>1, MasterDataStays, ReportsStay, PTL

-----------------------------------------------------------------------------
(* Dataset versions.                                                       *)

(* A digest that was computed: of a manifest whose id tells its checksum,  *)
(* and whose checksum tells its labels and rows.                           *)
DigestIsSound(d) ==
  /\ d.fingerprint = d.rows
  /\ d.checksum = [labels |-> d.labels, fingerprint |-> d.rows]
  /\ d.id.suffix = d.checksum

(* A manifest, whatever its holder did to it: the digest it carries is a   *)
(* sound one, and only a draft shares the mapping of the process.          *)
ManifestInv(m) ==
  /\ m \in Manifest
  /\ m.status # "draft" => m.labels # Shared
  /\ m.digest # Nothing => DigestIsSound(m.digest)

SetInv ==
  /\ mapping \in Mappings
  /\ held \in [Slots -> Manifest \cup {Nothing}]
  /\ \A s \in Slots : held[s] # Nothing => ManifestInv(held[s])
  /\ registry = [id \in DOMAIN registry |-> registry[id]]
  /\ \A id \in DOMAIN registry : ManifestInv(registry[id]) /\ registry[id].status # "draft"

(* What an export reported is what its directory says, and a process that  *)
(* has placed its files finds the directory there.                         *)
ExportInv ==
  /\ versions = [id \in DOMAIN versions |-> versions[id]]
  /\ exporters \in [Exporters -> [content : Files, placed : BOOLEAN] \cup {Nothing}]
  /\ \A x \in Exporters : exporters[x] # Nothing /\ exporters[x].placed =>
       exporters[x].content.id \in DOMAIN versions
  /\ exported \subseteq Files
  /\ \A content \in exported :
       content.id \in DOMAIN versions /\ versions[content.id] = content
  /\ current # Nothing => current \in DOMAIN versions

VersionIInv == SetInv /\ ExportInv

LEMMA ManifestFields ==
  ASSUME SetInv, NEW m \in Manifest
  PROVE  /\ m # Nothing /\ LabelsOf(m) \in Mappings
         /\ SourceChecksum(m) \in Checksum /\ Stable(m) \in Digest
         /\ DatasetChecksum(m) \in [rows : RowSet, labels : Mappings]
         /\ (m.labels # Shared => LabelsOf(m) = m.labels /\ LabelsOf(m)' = m.labels)
BY MarksAreNoRecords DEF SetInv, Manifest, LabelsOf, SourceChecksum, Stable, Checksum, Digest,
                         DatasetChecksum

(* A manifest that passes the integrity check: its digest is its content.  *)
LEMMA VerifiedIsSound ==
  ASSUME SetInv, NEW m, ManifestInv(m), Verifies(m, FALSE)
  PROVE  DigestIsSound(Stable(m)) /\ m.digest = Stable(m) /\ m.labels # Shared
BY ManifestFields, MarksAreNoRecords DEF ManifestInv, Verifies

LEMMA DraftInv ==
  ASSUME SetInv, NEW sample \in Samples, NEW day \in Days
  PROVE  ManifestInv(Draft(sample, day))
<1> DEFINE table == [sample |-> sample, labels |-> mapping]
           checksum == [labels |-> mapping, fingerprint |-> table]
<1>1. table \in RowSet /\ checksum \in Checksum
  BY DEF SetInv, RowSet, Checksum
<1>2. [day |-> day, suffix |-> checksum] \in VersionId
  BY <1>1 DEF VersionId
<1>3. Draft(sample, day) \in Manifest
  BY <1>1, <1>2 DEF Draft, Manifest
<1> QED BY <1>3 DEF Draft, ManifestInv

LEMMA FrozenInv ==
  ASSUME SetInv, NEW m \in Manifest, CanFreeze(m)
  PROVE  /\ ManifestInv(AsFrozen(m)) /\ AsFrozen(m).status = "frozen"
         /\ AsFrozen(m).id = m.id
<1> DEFINE copy == [m EXCEPT !.status = "frozen", !.labels = LabelsOf(m)]
           frozen == [copy EXCEPT !.sum = DatasetChecksum(m), !.digest = Stable(copy)]
<1>1. LabelsOf(m) \in Mappings /\ LabelsOf(m) # Shared
  BY ManifestFields, VersionsAssumption
<1>2. /\ copy \in Manifest /\ copy.labels = LabelsOf(m) /\ copy.rows = m.rows
      /\ copy.fingerprint = m.fingerprint /\ copy.checksum = m.checksum /\ copy.id = m.id
      /\ copy.note = m.note /\ copy.status = "frozen"
  BY <1>1 DEF Manifest
<1>3. Stable(copy) \in Digest /\ LabelsOf(copy) = LabelsOf(m)
  BY <1>1, <1>2, ManifestFields
<1>4. DigestIsSound(Stable(copy))
  BY <1>2, <1>3 DEF Stable, DigestIsSound, CanFreeze, SourceChecksum
<1>5. DatasetChecksum(m) \in [rows : RowSet, labels : Mappings]
  BY ManifestFields
<1>6. /\ frozen \in Manifest /\ frozen.digest = Stable(copy) /\ frozen.labels = LabelsOf(m)
      /\ frozen.status = "frozen" /\ frozen.id = m.id
  <2> HIDE DEF copy
  <2> QED BY <1>2, <1>3, <1>5 DEF Manifest
<1>7. AsFrozen(m) = frozen
  BY DEF AsFrozen
<1> HIDE DEF frozen
<1> QED BY <1>1, <1>4, <1>6, <1>7 DEF ManifestInv

(* A change of one manifest leaves it one.                                 *)
LEMMA ChangedInv ==
  ASSUME SetInv, NEW m, ManifestInv(m), NEW n \in Changes(m)
  PROVE  ManifestInv(n)
<1> USE DEF ManifestInv
<1>1. SourceChecksum(m) \in Checksum
  BY ManifestFields
<1>2. CASE n \in {[m EXCEPT !.rows.sample = x] : x \in Samples}
  <2>1. PICK x \in Samples : n = [m EXCEPT !.rows.sample = x]
    BY <1>2
  <2>2. [m.rows EXCEPT !.sample = x] \in RowSet
    BY DEF Manifest, RowSet
  <2>3. n = [m EXCEPT !.rows = [m.rows EXCEPT !.sample = x]]
    BY <2>1 DEF Manifest, RowSet
  <2> QED BY <2>2, <2>3 DEF Manifest
<1>3. CASE n \in {[m EXCEPT !.note = t] : t \in {"shared", "independent"}}
  BY <1>3 DEF Manifest
<1>4. CASE n \in {[m EXCEPT !.fingerprint = m.rows], [m EXCEPT !.checksum = SourceChecksum(m)],
                  [m EXCEPT !.digest = Nothing]}
  BY <1>1, <1>4 DEF Manifest
<1>5. CASE n = [m EXCEPT !.id.suffix = m.checksum]
  <2>1. [m.id EXCEPT !.suffix = m.checksum] \in VersionId
    BY DEF Manifest, VersionId
  <2>2. n = [m EXCEPT !.id = [m.id EXCEPT !.suffix = m.checksum]]
    BY <1>5 DEF Manifest, VersionId
  <2> QED BY <2>1, <2>2 DEF Manifest
<1> QED BY <1>2, <1>3, <1>4, <1>5 DEF Changes

(* One slot takes a manifest.                                              *)
LEMMA SlotTakes ==
  ASSUME SetInv, NEW s \in Slots, NEW m, ManifestInv(m), held' = [held EXCEPT ![s] = m],
         UNCHANGED mapping,
         registry' = registry \/ \E id : /\ registry' = Keep(id, m) /\ m.status # "draft"
  PROVE  SetInv'
<1>1. held' \in [Slots -> Manifest \cup {Nothing}]
  BY DEF SetInv, ManifestInv
<1>2. \A t \in Slots : held'[t] # Nothing => ManifestInv(held'[t])
  BY DEF SetInv
<1>3. /\ registry' = [id \in DOMAIN registry' |-> registry'[id]]
      /\ \A id \in DOMAIN registry' : ManifestInv(registry'[id]) /\ registry'[id].status # "draft"
  BY DEF SetInv, Keep
<1> QED BY <1>1, <1>2, <1>3 DEF SetInv, ManifestInv

LEMMA BuildStep ==
  ASSUME SetInv, NEW s \in Slots, NEW sample \in Samples, NEW day \in Days, Build(s, sample, day)
  PROVE  SetInv'
BY DraftInv, SlotTakes DEF Build

LEMMA EditStep ==
  ASSUME SetInv, NEW s \in Slots, Edit(s)
  PROVE  SetInv'
<1>1. held[s] # Nothing /\ ManifestInv(held[s]) /\ UNCHANGED registry
  BY DEF Edit, SetInv
<1>2. ASSUME NEW m \in Changes(held[s]), held' = [held EXCEPT ![s] = m], UNCHANGED mapping
      PROVE  SetInv'
  BY <1>1, <1>2, ChangedInv, SlotTakes
<1>3. ASSUME NEW v \in Mappings, held[s].labels = Shared, mapping' = v, UNCHANGED held
      PROVE  SetInv'
  BY <1>1, <1>3 DEF SetInv, ManifestInv
<1>4. ASSUME NEW v \in Mappings, held[s].labels # Shared, UNCHANGED mapping,
             held' = [held EXCEPT ![s].labels = v]
      PROVE  SetInv'
  <2> DEFINE m == [held[s] EXCEPT !.labels = v]
  <2>1. ManifestInv(m)
    BY <1>1, VersionsAssumption DEF ManifestInv, Manifest
  <2>2. held' = [held EXCEPT ![s] = m]
    BY <1>4
  <2> QED BY <1>1, <1>4, <2>1, <2>2, SlotTakes
<1> QED BY <1>2, <1>3, <1>4 DEF Edit

LEMMA FreezeStep ==
  ASSUME SetInv, NEW s \in Slots, FreezeAlone(s) \/ Freeze(s) \/ Adopt(s)
  PROVE  SetInv'
<1>1. held[s] # Nothing /\ held[s] \in Manifest /\ ManifestInv(held[s])
  BY DEF SetInv, ManifestInv, FreezeAlone, Freeze, Adopt
<1>2. CASE FreezeAlone(s) \/ Freeze(s)
  <2>1. ManifestInv(AsFrozen(held[s])) /\ AsFrozen(held[s]).status = "frozen"
    BY <1>1, <1>2, FrozenInv DEF FreezeAlone, Freeze
  <2> QED BY <1>2, <2>1, SlotTakes DEF FreezeAlone, Freeze
<1>3. CASE Adopt(s)
  <2>1. held' = [held EXCEPT ![s] = held[s]] /\ held[s].status # "draft"
    BY <1>3 DEF Adopt, Verifies, SetInv
  <2> QED BY <1>1, <1>3, <2>1, SlotTakes DEF Adopt
<1> QED BY <1>2, <1>3

LEMMA RegistryStep ==
  ASSUME SetInv, NEW id \in DOMAIN registry,
         (\E legacy \in BOOLEAN : Approve(id, legacy)) \/ \E s \in Slots : Take(s, id)
  PROVE  SetInv'
<1>1. ManifestInv(registry[id]) /\ registry[id].status # "draft"
  BY DEF SetInv
<1>2. ASSUME NEW s \in Slots, Take(s, id) PROVE SetInv'
  BY <1>1, <1>2, SlotTakes DEF Take
<1>3. ASSUME NEW legacy, Approve(id, legacy) PROVE SetInv'
  <2> DEFINE m == [registry[id] EXCEPT !.status = "approved"]
  <2>1. ManifestInv(m) /\ m.status = "approved"
    BY <1>1 DEF ManifestInv, Manifest
  <2>2. registry' = Keep(id, m) /\ UNCHANGED <<mapping, held>>
    BY <1>3 DEF Approve
  <2> HIDE DEF m
  <2> QED BY <2>1, <2>2 DEF SetInv, Keep, ManifestInv
<1> QED BY <1>2, <1>3

LEMMA SetRest == ASSUME SetInv, UNCHANGED setVars PROVE SetInv'
BY DEF SetInv, setVars, ManifestInv

-----------------------------------------------------------------------------
(* Exports.                                                                *)

LEMMA ContentIs ==
  ASSUME SetInv, NEW m, ManifestInv(m)
  PROVE  Content(m) \in Files
BY ManifestFields DEF ManifestInv, Content, Files, Manifest

LEMMA StageStep ==
  ASSUME VersionIInv, NEW x \in Exporters, NEW s \in Slots, Stage(x, s)
  PROVE  ExportInv'
<1>1. ManifestInv(held[s])
  BY DEF VersionIInv, SetInv, Stage
<1>2. Content(held[s]) \in Files
  BY <1>1, ContentIs DEF VersionIInv
<1> DEFINE row == [content |-> Content(held[s]), placed |-> FALSE]
<1>3. row \in [content : Files, placed : BOOLEAN] /\ exporters' = [exporters EXCEPT ![x] = row]
  BY <1>2 DEF Stage
<1> QED BY <1>3 DEF Stage, VersionIInv, ExportInv

(* What is there under the name of an exported content is that content;    *)
(* so where there is room, nothing was exported.                           *)
LEMMA PlaceStep ==
  ASSUME ExportInv, NEW x \in Exporters, Place(x)
  PROVE  ExportInv'
<1> DEFINE content == exporters[x].content
           full == [exporters[x] EXCEPT !.placed = TRUE]
<1>1. content \in Files /\ exporters[x] \in [content : Files, placed : BOOLEAN]
  BY DEF Place, ExportInv
<1>2. full \in [content : Files, placed : BOOLEAN] /\ full.content = content /\ full.placed
  BY <1>1
<1>3. CASE /\ Free(content.id)
           /\ versions' = [id \in DOMAIN versions \cup {content.id} |->
                             IF id = content.id THEN content ELSE versions[id]]
           /\ exporters' = [exporters EXCEPT ![x] = full]
           /\ exported' = exported \cup {content}
  <2>1. \A c \in exported : c.id # content.id
    BY <1>3, MarksAreNoRecords DEF Free, ExportInv
  <2>2. /\ DOMAIN versions' = DOMAIN versions \cup {content.id}
        /\ versions'[content.id] = content
        /\ \A id \in DOMAIN versions : id # content.id => versions'[id] = versions[id]
    BY <1>3
  <2>3. versions' = [id \in DOMAIN versions' |-> versions'[id]]
    BY <1>3
  <2>4. \A y \in Exporters : exporters'[y] # Nothing /\ exporters'[y].placed =>
          exporters'[y].content.id \in DOMAIN versions'
    BY <1>2, <1>3, <2>2 DEF ExportInv
  <2>5. exporters' \in [Exporters -> [content : Files, placed : BOOLEAN] \cup {Nothing}]
    BY <1>2, <1>3 DEF ExportInv
  <2>6. \A c \in exported' : c.id \in DOMAIN versions' /\ versions'[c.id] = c
    BY <1>3, <2>1, <2>2 DEF ExportInv
  <2>7. UNCHANGED current
    BY DEF Place
  <2> QED BY <1>1, <1>3, <2>2, <2>3, <2>4, <2>5, <2>6, <2>7 DEF ExportInv
<1>4. CASE /\ InPlace(content) /\ UNCHANGED versions
           /\ exporters' = [exporters EXCEPT ![x] = full]
           /\ exported' = exported \cup {content}
  BY <1>1, <1>2, <1>4 DEF InPlace, Place, ExportInv
<1>5. CASE exporters' = [exporters EXCEPT ![x] = Nothing] /\ UNCHANGED <<versions, exported>>
  BY <1>5 DEF Place, ExportInv
<1> QED BY <1>3, <1>4, <1>5 DEF Place

LEMMA PointStep ==
  ASSUME ExportInv, NEW x \in Exporters, Point(x) \/ Stop(x)
  PROVE  ExportInv'
<1>1. exporters' = [exporters EXCEPT ![x] = Nothing] /\ UNCHANGED <<versions, exported>>
  BY DEF Point, Stop
<1>2. /\ exporters' \in [Exporters -> [content : Files, placed : BOOLEAN] \cup {Nothing}]
      /\ \A y \in Exporters : exporters'[y] # Nothing => exporters'[y] = exporters[y]
  BY <1>1 DEF ExportInv
<1>3. current' # Nothing => current' \in DOMAIN versions
  BY DEF Point, Stop, ExportInv
<1> QED BY <1>1, <1>2, <1>3 DEF ExportInv

LEMMA LossStep ==
  ASSUME ExportInv, NEW id \in DOMAIN versions, LoseFiles(id)
  PROVE  ExportInv'
<1>1. PICK what : versions' = [versions EXCEPT ![id] = what]
  BY DEF LoseFiles
<1>2. /\ DOMAIN versions' = DOMAIN versions
      /\ versions' = [i \in DOMAIN versions' |-> versions'[i]]
      /\ \A i \in DOMAIN versions : i # id => versions'[i] = versions[i]
  BY <1>1 DEF ExportInv
<1>3. exported' = {content \in exported : content.id # id} /\ UNCHANGED <<current, exporters>>
  BY DEF LoseFiles
<1> QED BY <1>2, <1>3 DEF ExportInv

LEMMA ExportRest == ASSUME ExportInv, UNCHANGED exportVars PROVE ExportInv'
BY DEF ExportInv, exportVars

LEMMA VersionStepHolds == ASSUME VersionIInv, VersionStep PROVE VersionIInv'
<1> USE DEF VersionIInv
<1>1. CASE \E s \in Slots, sample \in Samples, day \in Days : Build(s, sample, day)
  BY <1>1, BuildStep, ExportRest DEF Build
<1>2. CASE \E s \in Slots : Edit(s)
  BY <1>2, EditStep, ExportRest DEF Edit
<1>3. CASE \E s \in Slots : FreezeAlone(s) \/ Freeze(s) \/ Adopt(s)
  BY <1>3, FreezeStep, ExportRest DEF FreezeAlone, Freeze, Adopt
<1>4. CASE \E id \in DOMAIN registry : \/ \E legacy \in BOOLEAN : Approve(id, legacy)
                                       \/ \E s \in Slots : Take(s, id)
  BY <1>4, RegistryStep, ExportRest DEF Approve, Take
<1>5. CASE \E x \in Exporters, s \in Slots : Stage(x, s)
  BY <1>5, StageStep, SetRest DEF Stage
<1>6. CASE \E x \in Exporters : Place(x) \/ Point(x) \/ Stop(x)
  BY <1>6, PlaceStep, PointStep, SetRest DEF Place, Point, Stop
<1>7. CASE \E id \in DOMAIN versions : LoseFiles(id)
  BY <1>7, LossStep, SetRest DEF LoseFiles
<1> QED BY <1>1, <1>2, <1>3, <1>4, <1>5, <1>6, <1>7 DEF VersionStep

LEMMA VersionStart == VersionsInit => VersionIInv
BY VersionsAssumption DEF VersionsInit, VersionIInv, SetInv, ExportInv

(* A draft that is said to reproduce a version agrees with it in all that  *)
(* freezing compares.                                                      *)
LEMMA HonestFromInv == ASSUME SetInv PROVE VersionsAreHonest
<1> SUFFICES ASSUME NEW m \in Manifests \ {Nothing}, Verifies(m, FALSE)
             PROVE  /\ m.id.suffix = m.checksum
                    /\ m.checksum = [labels |-> LabelsOf(m), fingerprint |-> m.rows]
                    /\ \A s \in Slots : held[s] # Nothing /\ held[s].status = "draft"
                                          /\ Reproduces(held[s], m) => CanFreeze(held[s])
  BY DEF VersionsAreHonest
<1>1. ManifestInv(m)
  BY DEF Manifests, SetInv, Range
<1>2. DigestIsSound(Stable(m))
  BY <1>1, VerifiedIsSound
<1>3. ASSUME NEW s \in Slots, held[s] # Nothing, held[s].status = "draft", Reproduces(held[s], m)
      PROVE  CanFreeze(held[s])
  <2> DEFINE n == held[s]
  <2>1. Comparable(m) = Comparable(n)
    BY <1>3 DEF Reproduces
  <2>2. n.rows = m.rows /\ n.fingerprint = m.fingerprint /\ n.checksum = m.checksum
    BY <2>1 DEF Comparable, Stable
  <2> QED BY <1>2, <1>3, <2>2 DEF Reproduces, CanFreeze, DigestIsSound, Stable
<1> QED BY <1>2, <1>3 DEF DigestIsSound, Stable

(* What is registered stays: a new version comes under a new id, and only  *)
(* an approval changes a record.                                           *)
RegistryKept ==
  \A id \in DOMAIN registry :
    /\ id \in DOMAIN registry'
    /\ Stable(registry[id])' = Stable(registry[id])
    /\ registry'[id].status # registry[id].status =>
         registry[id].status = "frozen" /\ registry'[id].status = "approved"

LEMMA RegistryKeptBy ==
  ASSUME SetInv, VersionStep \/ UNCHANGED registry
  PROVE  RegistryKept
<1>1. ASSUME NEW id \in DOMAIN registry, id \in DOMAIN registry',
             registry'[id] = registry[id]
             \/ (registry[id].status = "frozen"
                 /\ registry'[id] = [registry[id] EXCEPT !.status = "approved"])
      PROVE  /\ Stable(registry[id])' = Stable(registry[id])
             /\ registry'[id].status # registry[id].status =>
                  registry[id].status = "frozen" /\ registry'[id].status = "approved"
  <2>1. registry[id] \in Manifest /\ registry[id].labels # Shared
    BY DEF SetInv, ManifestInv
  <2>2. /\ registry'[id].rows = registry[id].rows /\ registry'[id].labels = registry[id].labels
        /\ registry'[id].note = registry[id].note /\ registry'[id].id = registry[id].id
        /\ registry'[id].fingerprint = registry[id].fingerprint
        /\ registry'[id].checksum = registry[id].checksum
    BY <1>1, <2>1 DEF Manifest
  <2>3. LabelsOf(registry[id])' = LabelsOf(registry[id])
    BY <2>1, <2>2 DEF LabelsOf
  <2>4. registry'[id].status \in {registry[id].status, "approved"}
    BY <1>1, <2>1 DEF Manifest
  <2> QED BY <1>1, <2>2, <2>3, <2>4 DEF Stable
<1>2. CASE UNCHANGED registry
  BY <1>1, <1>2 DEF RegistryKept
<1>3. ASSUME NEW s \in Slots, Freeze(s) \/ Adopt(s) PROVE RegistryKept
  BY <1>1, <1>3 DEF Freeze, Adopt, Keep, RegistryKept
<1>4. ASSUME NEW id \in DOMAIN registry, NEW legacy, Approve(id, legacy) PROVE RegistryKept
  <2> DEFINE m == [registry[id] EXCEPT !.status = "approved"]
  <2>1. registry' = Keep(id, m) /\ registry[id].status = "frozen"
    BY <1>4 DEF Approve
  <2>2. DOMAIN registry' = DOMAIN registry /\ registry'[id] = m
        /\ \A i \in DOMAIN registry : i # id => registry'[i] = registry[i]
    BY <2>1 DEF Keep
  <2> QED BY <1>1, <2>1, <2>2 DEF RegistryKept
<1>5. ASSUME NEW s, NEW sample, NEW day, Build(s, sample, day) PROVE UNCHANGED registry
  BY <1>5 DEF Build
<1>6. ASSUME NEW s, NEW id, Edit(s) \/ FreezeAlone(s) \/ Take(s, id) PROVE UNCHANGED registry
  BY <1>6 DEF Edit, FreezeAlone, Take
<1>7. ASSUME NEW x, NEW s, NEW id, Stage(x, s) \/ Place(x) \/ Point(x) \/ Stop(x) \/ LoseFiles(id)
      PROVE  UNCHANGED registry
  BY <1>7 DEF Stage, Place, Point, Stop, LoseFiles, setVars
<1>8. CASE \/ \E s \in Slots, sample \in Samples, day \in Days : Build(s, sample, day)
           \/ \E s \in Slots : Edit(s) \/ FreezeAlone(s) \/ Freeze(s) \/ Adopt(s)
  BY <1>2, <1>3, <1>5, <1>6, <1>8
<1>9. CASE \E id \in DOMAIN registry : \/ \E legacy \in BOOLEAN : Approve(id, legacy)
                                       \/ \E s \in Slots : Take(s, id)
  BY <1>2, <1>4, <1>6, <1>9
<1>10. CASE \/ \E x \in Exporters : (\E s \in Slots : Stage(x, s)) \/ Place(x) \/ Point(x) \/ Stop(x)
            \/ \E id \in DOMAIN versions : LoseFiles(id)
  BY <1>2, <1>7, <1>10
<1> QED BY <1>2, <1>8, <1>9, <1>10 DEF VersionStep

-----------------------------------------------------------------------------
(* The hand-over.  Every payload, wherever it is, says of its job what the *)
(* report of that job says; the report was made of a verified manifest.    *)

Backed(p) ==
  /\ p \in Payload /\ reports[p.job] # Nothing
  /\ p.dataset = reports[p.job].dataset /\ p.independent = reports[p.job].independent
ReportIsTrue(r) ==
  /\ r \in Report /\ r.dataset.suffix = [labels |-> r.read.labels, fingerprint |-> r.read.rows]
  /\ r.independent => r.read.rows.sample \notin Leaky

PayloadInv ==
  /\ reports \in [Jobs -> Report \cup {Nothing}]
  /\ \A j \in Jobs : reports[j] # Nothing => ReportIsTrue(reports[j])
  /\ outbox \in [Outboxes -> Payload \cup {Nothing}]
  /\ receipts \in [Outboxes -> Payload \cup {Nothing}]
  /\ results \in [Jobs -> Payload \cup {Nothing}]
  /\ \A p \in Outboxes : outbox[p] # Nothing => Backed(outbox[p])
  /\ \A j \in Jobs : results[j] # Nothing => Backed(results[j]) /\ results[j].job = j
  /\ \A p \in stray : Backed(p)

(* What a sender sends lies in its outbox, and an acknowledgement it holds *)
(* is of what the backend registered.                                      *)
SenderInv ==
  /\ senders \in [Senders -> Sending \cup {Nothing}]
  /\ \A x \in Senders : senders[x] # Nothing =>
       /\ senders[x].payload = outbox[senders[x].path]
       /\ senders[x].answer \in {"accepted", "duplicate"} =>
            results[senders[x].payload.job] = senders[x].payload

HandoverInv == PayloadInv /\ SenderInv /\ ReceiptsHold
SystemIInv == VersionIInv /\ HandoverInv

LEMMA HandoverRestHolds == ASSUME HandoverInv, UNCHANGED trainingVars PROVE HandoverInv'
BY DEF HandoverInv, PayloadInv, SenderInv, ReceiptsHold, Backed, ReportIsTrue, trainingVars

LEMMA TrainStep ==
  ASSUME SystemIInv, NEW s \in Slots, NEW j \in Jobs, Train(s, j)
  PROVE  HandoverInv'
<1> DEFINE m == held[s]
           r == [dataset |-> m.id, digest |-> m.digest, independent |-> Declared(m),
                 read |-> Stable(m)]
<1>1. ManifestInv(m) /\ SetInv /\ m \in Manifest
  BY DEF Train, SystemIInv, VersionIInv, SetInv, ManifestInv
<1>2. DigestIsSound(Stable(m)) /\ m.digest = Stable(m) /\ Stable(m) \in Digest
  BY <1>1, VerifiedIsSound, ManifestFields DEF Train
<1>3. r \in Report
  BY <1>1, <1>2 DEF Report, Manifest, Declared, Independent
<1>4. ReportIsTrue(r)
  BY <1>2, <1>3 DEF ReportIsTrue, DigestIsSound, Stable, Declared, Independent
<1>5. reports[j] = Nothing /\ reports' = [reports EXCEPT ![j] = r] /\ UNCHANGED handoverVars
  BY DEF Train
<1> HIDE DEF r
<1>6. PayloadInv /\ SenderInv /\ ReceiptsHold
  BY DEF SystemIInv, HandoverInv
<1>7. reports' \in [Jobs -> Report \cup {Nothing}] /\ reports'[j] = r
      /\ \A i \in Jobs : i # j => reports'[i] = reports[i]
  BY <1>3, <1>5, <1>6 DEF PayloadInv
<1>8. \A p : Backed(p) => Backed(p)'
  BY <1>5, <1>7 DEF Backed, Payload
<1>9. \A i \in Jobs : reports'[i] # Nothing => ReportIsTrue(reports'[i])
  BY <1>4, <1>6, <1>7 DEF PayloadInv
<1>10. PayloadInv'
  BY <1>5, <1>6, <1>7, <1>8, <1>9 DEF PayloadInv, handoverVars, ReportIsTrue
<1> QED BY <1>5, <1>6, <1>10 DEF HandoverInv, SenderInv, ReceiptsHold, handoverVars

LEMMA PrepareStep ==
  ASSUME SystemIInv, NEW s \in Slots, NEW j \in Jobs, NEW target \in Targets,
         NEW path \in Outboxes, Prepare(s, j, target, path)
  PROVE  HandoverInv'
<1> DEFINE m == held[s]
           p == Submission(j, m, target)
<1>1. ManifestInv(m) /\ SetInv /\ m \in Manifest
  BY DEF Prepare, SystemIInv, VersionIInv, SetInv, ManifestInv
<1>2. m.digest \in Digest
  BY <1>1, VerifiedIsSound, ManifestFields DEF Prepare
<1>3. PayloadInv /\ SenderInv /\ ReceiptsHold
  BY DEF SystemIInv, HandoverInv
<1>4. reports[j] # Nothing /\ reports[j] \in Report /\ reports[j].dataset = m.id
  BY <1>3 DEF Prepare, PayloadInv
<1>5. p \in Payload /\ p.job = j /\ p.dataset = m.id /\ p.independent = reports[j].independent
  BY <1>1, <1>2, <1>4 DEF Submission, Payload, Report, Manifest
<1>6. Backed(p) /\ p # Nothing
  BY <1>4, <1>5, NothingIsNoFile DEF Backed
<1>7. outbox' = Stored(outbox, path, p)
      /\ UNCHANGED <<reports, artifacts, receipts, senders, stray, results>>
  BY DEF Prepare
<1> HIDE DEF p
<1>8. /\ outbox' \in [Outboxes -> Payload \cup {Nothing}]
      /\ \A q \in Outboxes : /\ outbox[q] # Nothing => outbox'[q] = outbox[q]
                             /\ outbox'[q] \in {outbox[q], p}
  BY <1>3, <1>5, <1>7 DEF Stored, MayStore, PayloadInv
<1>9. \A q : Backed(q)' = Backed(q)
  BY <1>7 DEF Backed
<1>10. PayloadInv'
  BY <1>3, <1>6, <1>7, <1>8, <1>9 DEF PayloadInv, ReportIsTrue
<1>11. SenderInv'
  <2>1. \A x \in Senders : senders[x] # Nothing =>
          senders[x].path \in Outboxes /\ senders[x].payload # Nothing
    BY <1>3, NothingIsNoFile DEF SenderInv, Sending
  <2> QED BY <2>1, <1>3, <1>7, <1>8 DEF SenderInv
<1>12. ReceiptsHold'
  BY <1>3, <1>7, <1>8 DEF ReceiptsHold
<1> QED BY <1>10, <1>11, <1>12 DEF HandoverInv

(* One sender changes and nothing else: what it now holds is still in its  *)
(* outbox, and acknowledged only if it was registered.                     *)
LEMMA SenderChanges ==
  ASSUME HandoverInv, NEW x \in Senders, NEW v \in Sending \cup {Nothing},
         senders' = [senders EXCEPT ![x] = v], UNCHANGED <<reports, outbox, receipts, results>>,
         stray' \subseteq stray \cup {p \in Payload : Backed(p)},
         v # Nothing => /\ v.payload = outbox[v.path]
                        /\ v.answer \in {"accepted", "duplicate"} =>
                             results[v.payload.job] = v.payload
  PROVE  HandoverInv'
<1>1. PayloadInv'
  BY DEF HandoverInv, PayloadInv, ReportIsTrue, Backed
<1>2. SenderInv'
  BY DEF HandoverInv, SenderInv
<1> QED BY <1>1, <1>2 DEF HandoverInv, ReceiptsHold

LEMMA SenderHas ==
  ASSUME HandoverInv, NEW x \in Senders, senders[x] # Nothing
  PROVE  /\ senders[x] \in Sending /\ Backed(senders[x].payload)
         /\ senders[x].payload = outbox[senders[x].path] /\ senders[x].path \in Outboxes
         /\ senders[x].payload # Nothing /\ senders[x].payload \in Payload
         /\ senders[x].payload.job \in Jobs
<1>1. senders[x] \in Sending /\ senders[x].payload = outbox[senders[x].path]
  BY DEF HandoverInv, SenderInv
<1>2. senders[x].path \in Outboxes /\ senders[x].payload \in Payload
  BY <1>1 DEF Sending
<1> QED BY <1>1, <1>2, NothingIsNoFile DEF HandoverInv, PayloadInv, Payload

(* The backend registers the first result of a job and no other.           *)
LEMMA RegisteredOnce ==
  ASSUME PayloadInv, NEW p \in Payload, Backed(p), results' = Accepted(p),
         UNCHANGED <<reports, outbox, receipts>>, stray' \subseteq stray
  PROVE  /\ PayloadInv'
         /\ \A j \in Jobs : results[j] # Nothing => results'[j] = results[j]
         /\ Answer(p) \in {"accepted", "duplicate"} => results'[p.job] = p
<1>1. p.job \in Jobs /\ p # Nothing
  BY NothingIsNoFile DEF Payload
<1>2. results' \in [Jobs -> Payload \cup {Nothing}]
  BY <1>1 DEF Accepted, PayloadInv
<1>3. \A j \in Jobs : results'[j] = results[j] \/ (results[j] = Nothing /\ j = p.job /\ results'[j] = p)
  BY <1>1 DEF Accepted, PayloadInv
<1>4. Answer(p) \in {"accepted", "duplicate"} => results'[p.job] = p
  BY <1>1 DEF Answer, Accepted, PayloadInv
<1>5. PayloadInv'
  BY <1>2, <1>3 DEF PayloadInv, Backed, ReportIsTrue
<1> QED BY <1>3, <1>4, <1>5

LEMMA BeginStep ==
  ASSUME HandoverInv, NEW x \in Senders, NEW path \in Outboxes, Begin(x, path)
  PROVE  HandoverInv'
<1> DEFINE v == [path |-> path, payload |-> outbox[path], attempt |-> 1, answer |-> Nothing]
<1>1. v \in Sending
  BY DEF Begin, Sending, HandoverInv, PayloadInv
<1>2. /\ senders' = [senders EXCEPT ![x] = v]
      /\ UNCHANGED <<reports, outbox, receipts, results, stray>>
  BY DEF Begin, HandoverRest
<1>3. v.answer \notin {"accepted", "duplicate"}
  BY NothingIsNoFile DEF Answers
<1> QED BY <1>1, <1>2, <1>3, SenderChanges

LEMMA HandleStep ==
  ASSUME HandoverInv, NEW x \in Senders, Handle(x)
  PROVE  HandoverInv'
<1> DEFINE p == senders[x].payload
<1>1. /\ senders[x] # Nothing /\ senders[x] \in Sending /\ Backed(p) /\ p \in Payload
      /\ p = outbox[senders[x].path]
  BY SenderHas DEF Handle, Waiting
<1>2. UNCHANGED <<reports, outbox, receipts, stray>>
  BY DEF Handle, HandoverRest
<1>3. ASSUME NEW a \in {"refused", "busy"}, senders' = [senders EXCEPT ![x].answer = a],
             UNCHANGED results
      PROVE  HandoverInv'
  <2> DEFINE v == [senders[x] EXCEPT !.answer = a]
  <2>1. v \in Sending /\ v.payload = p /\ v.path = senders[x].path /\ v.answer = a
    BY <1>1 DEF Sending, Answers
  <2>2. senders' = [senders EXCEPT ![x] = v]
    BY <1>3
  <2> HIDE DEF v
  <2> QED BY ZenonT(60), <1>1, <1>2, <1>3, <2>1, <2>2, SenderChanges
<1>4. CASE /\ senders' = [senders EXCEPT ![x].answer = Answer(p)] /\ results' = Accepted(p)
  <2> DEFINE v == [senders[x] EXCEPT !.answer = Answer(p)]
  <2>1. Answer(p) \in Answers
    BY DEF Answer, Answers
  <2>2. v \in Sending /\ v.payload = p /\ v.path = senders[x].path /\ v.answer = Answer(p)
    BY <1>1, <2>1 DEF Sending
  <2>3. senders' = [senders EXCEPT ![x] = v]
    BY <1>4
  <2>4. /\ PayloadInv'
        /\ \A j \in Jobs : results[j] # Nothing => results'[j] = results[j]
        /\ Answer(p) \in {"accepted", "duplicate"} => results'[p.job] = p
    BY <1>1, <1>2, <1>4, RegisteredOnce DEF HandoverInv
  <2> HIDE DEF v
  <2>5. senders' \in [Senders -> Sending \cup {Nothing}]
    BY <2>2, <2>3 DEF HandoverInv, SenderInv
  <2>6. ASSUME NEW y \in Senders, senders'[y] # Nothing
        PROVE  /\ senders'[y].payload = outbox[senders'[y].path]
               /\ senders'[y].answer \in {"accepted", "duplicate"} =>
                    results'[senders'[y].payload.job] = senders'[y].payload
    <3>1. CASE y = x
      <4>1. senders'[y] = v
        BY <3>1, <2>3 DEF HandoverInv, SenderInv
      <4> QED BY <4>1, <1>1, <2>2, <2>4
    <3>2. CASE y # x
      <4>1. senders'[y] = senders[y] /\ senders[y] # Nothing
        BY <3>2, <2>3, <2>6 DEF HandoverInv, SenderInv
      <4>2. /\ senders[y].payload \in Payload /\ senders[y].payload # Nothing
            /\ senders[y].payload.job \in Jobs
        BY <4>1, SenderHas
      <4> QED BY <4>1, <4>2, <2>4 DEF HandoverInv, SenderInv
    <3> QED BY <3>1, <3>2
  <2>7. SenderInv'
    BY <1>2, <2>5, <2>6 DEF SenderInv
  <2>8. ReceiptsHold'
    <3>1. \A q \in Outboxes : receipts[q] # Nothing => receipts[q].job \in Jobs
      BY DEF HandoverInv, PayloadInv, Payload
    <3> QED BY <1>2, <2>4, <3>1 DEF HandoverInv, ReceiptsHold
  <2> QED BY <2>4, <2>7, <2>8 DEF HandoverInv
<1> QED BY <1>3, <1>4 DEF Handle

LEMMA StrayStep ==
  ASSUME HandoverInv, NEW p \in stray, HandleStray(p)
  PROVE  HandoverInv'
<1>1. Backed(p) /\ p \in Payload
  BY DEF HandoverInv, PayloadInv, Backed
<1>2. results' = Accepted(p) /\ UNCHANGED <<reports, outbox, receipts, senders>> /\ stray' \subseteq stray
  BY DEF HandleStray, HandoverRest
<1>3. PayloadInv' /\ \A j \in Jobs : results[j] # Nothing => results'[j] = results[j]
  BY <1>1, <1>2, RegisteredOnce DEF HandoverInv
<1>4. \A x \in Senders : senders[x] # Nothing =>
        senders[x].payload.job \in Jobs /\ senders[x].payload # Nothing
  BY SenderHas
<1>5. SenderInv'
  BY <1>2, <1>3, <1>4 DEF HandoverInv, SenderInv
<1>6. \A q \in Outboxes : receipts[q] # Nothing => receipts[q].job \in Jobs
  BY DEF HandoverInv, PayloadInv, Payload
<1>7. ReceiptsHold'
  BY <1>2, <1>3, <1>6 DEF HandoverInv, ReceiptsHold
<1> QED BY <1>3, <1>5, <1>7 DEF HandoverInv

LEMMA AcknowledgedStep ==
  ASSUME HandoverInv, NEW x \in Senders, Acknowledged(x)
  PROVE  HandoverInv'
<1> DEFINE p == senders[x].payload
           path == senders[x].path
<1>1. /\ p = outbox[path] /\ path \in Outboxes /\ p # Nothing /\ p \in Payload
      /\ results[p.job] = p
  BY SenderHas DEF Acknowledged, HandoverInv, SenderInv
<1>2. /\ receipts' = Stored(receipts, path, p)
      /\ senders' = [senders EXCEPT ![x] = Nothing]
      /\ UNCHANGED <<reports, outbox, stray, results>>
  BY DEF Acknowledged, HandoverRest
<1>3. /\ receipts' \in [Outboxes -> Payload \cup {Nothing}]
      /\ \A q \in Outboxes : receipts'[q] = receipts[q] \/ (q = path /\ receipts'[q] = p)
  BY <1>1, <1>2 DEF Stored, HandoverInv, PayloadInv
<1>4. PayloadInv'
  BY <1>2, <1>3 DEF HandoverInv, PayloadInv, Backed, ReportIsTrue
<1>5. SenderInv'
  BY <1>2 DEF HandoverInv, SenderInv
<1>6. ReceiptsHold'
  BY <1>1, <1>2, <1>3 DEF HandoverInv, ReceiptsHold
<1> QED BY <1>4, <1>5, <1>6 DEF HandoverInv

LEMMA GivesUpStep ==
  ASSUME HandoverInv, NEW x \in Senders, Rejected(x) \/ Retry(x) \/ StopSender(x)
  PROVE  HandoverInv'
<1> DEFINE old == senders[x]
<1>1. /\ old # Nothing /\ old \in Sending /\ Backed(old.payload) /\ old.payload \in Payload
      /\ old.payload = outbox[old.path]
  BY SenderHas DEF Rejected, Retry, StopSender
<1>2. UNCHANGED <<reports, outbox, receipts, results>>
      /\ stray' \subseteq stray \cup {p \in Payload : Backed(p)}
  BY <1>1 DEF Rejected, Retry, StopSender, Strays, HandoverRest
<1>3. PICK again : again = [old EXCEPT !.attempt = old.attempt + 1, !.answer = Nothing]
  OBVIOUS
<1>4. again = [path |-> old.path, payload |-> old.payload, attempt |-> old.attempt + 1,
               answer |-> Nothing]
  BY <1>1, <1>3 DEF Sending
<1>5. again \in Sending /\ again.payload = old.payload /\ again.path = old.path
  BY <1>1, <1>4 DEF Sending
<1>6. again.answer \notin {"accepted", "duplicate"}
  <2>1. Nothing \notin Answers
    BY NothingIsNoFile
  <2> QED BY <2>1, <1>4 DEF Answers
<1>7. senders' = [senders EXCEPT ![x] = again] \/ senders' = [senders EXCEPT ![x] = Nothing]
  <2>1. CASE Retry(x) /\ old.attempt < MaxAttempts
    BY <2>1, <1>3 DEF Retry, Again
  <2>2. CASE Retry(x) /\ ~(old.attempt < MaxAttempts)
    BY <2>2 DEF Retry
  <2>3. CASE Rejected(x) \/ StopSender(x)
    BY <2>3 DEF Rejected, StopSender
  <2> QED BY <2>1, <2>2, <2>3
<1>8. CASE senders' = [senders EXCEPT ![x] = again]
  <2>1. again \in Sending \cup {Nothing} /\ again.payload = outbox[again.path]
    BY <1>1, <1>5
  <2>2. again.answer \in {"accepted", "duplicate"} => results[again.payload.job] = again.payload
    BY <1>6
  <2> QED BY <1>2, <1>8, <2>1, <2>2, SenderChanges
<1>9. CASE senders' = [senders EXCEPT ![x] = Nothing]
  BY <1>2, <1>9, SenderChanges
<1> QED BY <1>7, <1>8, <1>9

LEMMA TrainingStepHolds == ASSUME SystemIInv, TrainingStep PROVE SystemIInv'
<1>1. UNCHANGED <<setVars, exportVars>>
  BY DEF TrainingStep, Train, Prepare, ReplaceArtifact, Begin, Handle, HandleStray,
         Acknowledged, Rejected, Retry, StopSender, HandoverRest, DataRest
<1>2. VersionIInv'
  BY <1>1, SetRest, ExportRest DEF SystemIInv, VersionIInv
<1>3. HandoverInv
  BY DEF SystemIInv
<1>4. CASE \E s \in Slots, j \in Jobs : \/ Train(s, j)
                                       \/ \E t \in Targets, p \in Outboxes : Prepare(s, j, t, p)
  BY <1>2, <1>4, TrainStep, PrepareStep DEF SystemIInv
<1>5. CASE \E j \in Jobs : ReplaceArtifact(j)
  <2>1. UNCHANGED <<reports, handoverVars>>
    BY <1>5 DEF ReplaceArtifact
  <2>2. HandoverInv'
    BY <1>3, <2>1 DEF handoverVars, HandoverInv, PayloadInv, SenderInv, ReceiptsHold, Backed,
                      ReportIsTrue
  <2> QED BY <1>2, <2>2 DEF SystemIInv
<1>6. CASE \E x \in Senders : \/ \E p \in Outboxes : Begin(x, p)
                             \/ Handle(x) \/ Acknowledged(x) \/ Rejected(x) \/ Retry(x) \/ StopSender(x)
  BY <1>2, <1>3, <1>6, BeginStep, HandleStep, AcknowledgedStep, GivesUpStep DEF SystemIInv
<1>7. CASE \E p \in stray : HandleStray(p)
  BY <1>2, <1>3, <1>7, StrayStep DEF SystemIInv
<1> QED BY <1>4, <1>5, <1>6, <1>7 DEF TrainingStep

LEMMA SystemStart == TrainingInit => SystemIInv
<1> SUFFICES ASSUME TrainingInit PROVE SystemIInv
  OBVIOUS
<1>1. VersionIInv
  BY VersionStart DEF TrainingInit
<1>2. PayloadInv /\ SenderInv /\ ReceiptsHold
  BY DEF TrainingInit, PayloadInv, SenderInv, ReceiptsHold
<1> QED BY <1>1, <1>2 DEF SystemIInv, HandoverInv

LEMMA SystemNext == ASSUME SystemIInv, [SystemStep]_systemVars PROVE SystemIInv'
<1>1. CASE VersionStep /\ UNCHANGED trainingVars
  BY <1>1, VersionStepHolds, HandoverRestHolds DEF SystemIInv
<1>2. CASE TrainingStep
  BY <1>2, TrainingStepHolds
<1>3. CASE UNCHANGED systemVars
  BY <1>3, SetRest, ExportRest, HandoverRestHolds DEF systemVars, versionVars, SystemIInv, VersionIInv
<1> QED BY <1>1, <1>2, <1>3 DEF SystemStep

LEMMA HandoffFromInv == ASSUME SystemIInv PROVE HandoffHolds
<1>1. ExportsHold
  BY DEF SystemIInv, VersionIInv, ExportInv, ExportsHold
<1>2. ResultsAreBacked
  <2> SUFFICES ASSUME NEW j \in Jobs, results[j] # Nothing
               PROVE  /\ results[j].dataset.suffix =
                            [labels |-> reports[j].read.labels, fingerprint |-> reports[j].read.rows]
                      /\ results[j].independent => reports[j].read.rows.sample \notin Leaky
    BY DEF ResultsAreBacked
  <2>1. Backed(results[j]) /\ results[j].job = j /\ ReportIsTrue(reports[j])
    BY DEF SystemIInv, HandoverInv, PayloadInv, Backed
  <2> QED BY <2>1 DEF Backed, ReportIsTrue
<1> QED BY <1>1, <1>2 DEF HandoffHolds, SystemIInv, HandoverInv

\* Training data from the manifest to the backend: the inductive invariant, for any
\* processes, samples, exporters, jobs, senders and attempts.
THEOREM HandoffInvariance == SystemSpec => []SystemIInv
<1> QED BY SystemStart, SystemNext, PTL DEF SystemSpec

\* A version that passes the integrity check has an id that tells its rows and labels,
\* and a draft that reproduces it could have been frozen as that version.
THEOREM VersionsStayHonest == SystemSpec => []VersionsAreHonest
<1>1. SystemIInv => VersionsAreHonest
  BY HonestFromInv DEF SystemIInv, VersionIInv
<1> QED BY <1>1, HandoffInvariance, PTL

\* An export, a receipt and a registered result each stand on what they name.
THEOREM HandoffsHold == SystemSpec => []HandoffHolds
<1>1. SystemIInv => HandoffHolds
  BY HandoffFromInv
<1> QED BY <1>1, HandoffInvariance, PTL

\* Both, of every history of processes that freeze, export, hand over and stop.
THEOREM TrainingStays == SystemSpec => []TrainingHolds
<1>1. VersionsAreHonest /\ HandoffHolds => TrainingHolds
  BY DEF TrainingHolds
<1> QED BY <1>1, VersionsStayHonest, HandoffsHold, PTL

\* What the registry froze or adopted never changes, and only an approval changes a
\* status.
THEOREM RegistryStays == SystemSpec => RegistryKeeps
<1>1. SystemIInv /\ [SystemStep]_systemVars => [RegistryKept]_versionVars
  <2> SUFFICES ASSUME SystemIInv, [SystemStep]_systemVars PROVE [RegistryKept]_versionVars
    OBVIOUS
  <2>1. SetInv
    BY DEF SystemIInv, VersionIInv
  <2>2. VersionStep \/ UNCHANGED registry
    <3>1. TrainingStep => UNCHANGED registry
      BY DEF TrainingStep, Train, Prepare, ReplaceArtifact, Begin, Handle, HandleStray,
             Acknowledged, Rejected, Retry, StopSender, HandoverRest, DataRest, setVars
    <3> QED BY <3>1 DEF SystemStep, systemVars, versionVars, setVars
  <2> QED BY <2>1, <2>2, RegistryKeptBy
<1>2. SystemSpec => [][RegistryKept]_versionVars
  BY <1>1, HandoffInvariance, PTL DEF SystemSpec
<1> QED BY <1>2 DEF RegistryKeeps, RegistryKept

-----------------------------------------------------------------------------
(* The registry of models: time of approval orders what rollbacks name.    *)

EntryIs(e) ==
  /\ e = [version |-> e.version, content |-> e.content, status |-> e.status, at |-> e.at]
  /\ e.status = "approved" => e.at \in Int
GoesBack(r) ==
  \E e, f \in entries :
    /\ f.version = r.from /\ f.status = "approved"
    /\ e.version = r.to /\ e.status = "approved" /\ e.content = r.content
    /\ e.at < f.at

ModelsIInv ==
  /\ \A e \in entries : EntryIs(e)
  /\ \A e, f \in entries : e.version = f.version => e = f
  /\ \A r \in rollbacks : GoesBack(r)

LEMMA RegistryDescends == ASSUME ModelsIInv PROVE RollbacksDescend
<1>1. ASSUME NEW r \in rollbacks
      PROVE  \E e \in entries : e.version = r.to /\ e.content = r.content /\ e.status = "approved"
  BY DEF ModelsIInv, GoesBack
<1>2. ASSUME NEW v \in Names(entries)
      PROVE  \E reached \in SUBSET Names(entries) :
               /\ {r.to : r \in {x \in rollbacks : x.from = v}} \subseteq reached
               /\ \A r \in rollbacks : r.from \in reached => r.to \in reached
               /\ v \notin reached
  <2>1. PICK g \in entries : g.version = v
    BY DEF Names
  <2> DEFINE before == {e \in entries : /\ e.status = "approved" /\ g.status = "approved"
                                        /\ e.at < g.at}
             reached == {e.version : e \in before}
  <2>2. reached \in SUBSET Names(entries)
    BY DEF Names
  <2>3. \A e \in entries : e.version \in reached => e \in before
    BY DEF ModelsIInv
  <2>4. ASSUME NEW r \in rollbacks, r.from = v \/ r.from \in reached PROVE r.to \in reached
    <3>1. PICK e, f \in entries :
            /\ f.version = r.from /\ f.status = "approved" /\ e.version = r.to
            /\ e.status = "approved" /\ e.at < f.at
      BY DEF ModelsIInv, GoesBack
    <3>2. e.at \in Int /\ f.at \in Int /\ (g.status = "approved" => g.at \in Int)
      BY <3>1 DEF ModelsIInv, EntryIs
    <3>3. f = g \/ f \in before
      BY <2>1, <2>3, <2>4, <3>1 DEF ModelsIInv
    <3>4. e \in before
      BY <3>1, <3>2, <3>3
    <3> QED BY <3>1, <3>4
  <2>5. v \notin reached
    <3>1. ASSUME v \in reached PROVE FALSE
      <4>1. g \in before
        BY <2>1, <2>3, <3>1
      <4>2. g.at \in Int
        BY <4>1 DEF ModelsIInv, EntryIs
      <4> QED BY <4>1, <4>2
    <3> QED BY <3>1
  <2> HIDE DEF reached
  <2>6. {r.to : r \in {x \in rollbacks : x.from = v}} \subseteq reached
    BY <2>4
  <2>7. \A r \in rollbacks : r.from \in reached => r.to \in reached
    BY <2>4
  <2> QED BY <2>2, <2>5, <2>6, <2>7
<1> QED BY <1>1, <1>2 DEF RollbacksDescend

LEMMA ModelsKept == ASSUME ModelsIInv, [ModelStep]_modelVars PROVE ModelsIInv'
<1>1. CASE UNCHANGED <<entries, rollbacks>>
  BY <1>1 DEF ModelsIInv, GoesBack
<1>2. ASSUME NEW v \in ModelNames, NEW content \in Contents, Register(v, content)
      PROVE  ModelsIInv'
  <2>1. PICK e : /\ e = [version |-> v, content |-> content, status |-> "registered", at |-> -1]
                 /\ entries' = entries \cup {e}
    BY <1>2 DEF Register
  <2>2. EntryIs(e) /\ e.version = v /\ rollbacks' = rollbacks
    BY <1>2, <2>1 DEF EntryIs, Register
  <2>3. \A f \in entries : f.version # v
    BY <1>2 DEF Register, Names
  <2>4. \A r \in rollbacks : GoesBack(r)'
    BY <2>1 DEF ModelsIInv, GoesBack
  <2> QED BY <2>1, <2>2, <2>3, <2>4 DEF ModelsIInv
<1>3. ASSUME NEW e \in entries, NEW moment \in Times, ApproveModel(e, moment) PROVE ModelsIInv'
  <2>1. PICK f : f = [e EXCEPT !.status = "approved", !.at = moment]
    OBVIOUS
  <2>2. /\ entries' = (entries \ {e}) \cup {f} /\ rollbacks' = rollbacks
        /\ e.status = "registered"
    BY <1>3, <2>1 DEF ApproveModel, Replaced
  <2>3. e = [version |-> e.version, content |-> e.content, status |-> e.status, at |-> e.at]
    BY DEF ModelsIInv, EntryIs
  <2>4. f = [version |-> e.version, content |-> e.content, status |-> "approved", at |-> moment]
    BY <2>1, <2>3
  <2>5. EntryIs(f) /\ f.version = e.version
    BY <2>4, TimesAreNumbers DEF EntryIs
  <2>6. \A r \in rollbacks : GoesBack(r)'
    BY <2>2 DEF ModelsIInv, GoesBack
  <2> QED BY <2>2, <2>5, <2>6 DEF ModelsIInv
<1>4. ASSUME NEW e \in entries, NEW f \in entries, NEW e0, Rollback(e, f, e0)
      PROVE  ModelsIInv'
  <2>1. PICK r : /\ r = [from |-> e.version, to |-> f.version, content |-> f.content,
                         environment |-> e0]
                 /\ rollbacks' = rollbacks \cup {r} /\ entries' = entries
    BY <1>4 DEF Rollback
  <2>2. GoesBack(r)
    BY <1>4, <2>1 DEF Rollback, ApprovedBefore, GoesBack
  <2> QED BY <2>1, <2>2 DEF ModelsIInv, GoesBack
<1>5. ASSUME NEW v \in ModelNames, NEW content \in Contents, RegisterBaseline(v, content)
      PROVE  ModelsIInv'
  BY <1>1, <1>5 DEF RegisterBaseline
<1>6. ASSUME NEW b \in frequencyBaselines, ApproveBaseline(b) \/ Activate(b) PROVE ModelsIInv'
  BY <1>1, <1>6 DEF ApproveBaseline, Activate
<1> QED BY <1>1, <1>2, <1>3, <1>4, <1>5, <1>6 DEF ModelStep, modelVars

\* Rollbacks only ever go to what was approved earlier, so they never lead round in a
\* circle: for any models and any clock that may be set back or stand still.
THEOREM RollbacksGoBack == ModelsSpec => []RollbacksDescend
<1>1. ModelsInit => ModelsIInv
  BY DEF ModelsInit, ModelsIInv
<1>2. ModelsIInv => RollbacksDescend
  BY RegistryDescends
<1> QED BY <1>1, <1>2, ModelsKept, PTL DEF ModelsSpec

-----------------------------------------------------------------------------
(* Sequences whose elements have no type of their own.                     *)

Plainly(s) == s \in Seq({s[k] : k \in DOMAIN s})

LEMMA Appended ==
  ASSUME NEW s, NEW e, Plainly(s)
  PROVE  /\ Plainly(Append(s, e)) /\ DOMAIN s = 1..Len(s) /\ Len(s) \in Nat
         /\ DOMAIN Append(s, e) = 1..(Len(s) + 1)
         /\ \A k \in DOMAIN s : Append(s, e)[k] = s[k]
         /\ Append(s, e)[Len(s) + 1] = e
<1> DEFINE S == {s[k] : k \in DOMAIN s} \cup {e}
           t == Append(s, e)
<1>1. s \in Seq(S) /\ e \in S
  BY DEF Plainly
<1>2. /\ DOMAIN s = 1..Len(s) /\ Len(s) \in Nat /\ DOMAIN t = 1..(Len(s) + 1)
      /\ \A k \in DOMAIN s : t[k] = s[k]
      /\ t[Len(s) + 1] = e
  BY <1>1
<1>3. t \in Seq({t[k] : k \in DOMAIN t})
  <2> HIDE DEF S
  <2>1. t \in Seq(S) /\ Len(t) = Len(s) + 1
    BY <1>1
  <2> HIDE DEF t
  <2>2. t \in [1..Len(t) -> {t[k] : k \in DOMAIN t}] /\ Len(t) \in Nat
    BY <2>1
  <2> QED BY <2>2, SeqDef
<1> QED BY <1>2, <1>3 DEF Plainly

-----------------------------------------------------------------------------
(* Model versions: one per version and per job, decided once.              *)

ModelIs(m) ==
  /\ m = [version |-> m.version, content |-> m.content, dataset |-> m.dataset,
          baseline |-> m.baseline, creator |-> m.creator, job |-> m.job, status |-> m.status,
          revision |-> m.revision, history |-> m.history]
  /\ \/ m.status = "pending" /\ m.history = <<>>
     \/ \E h : /\ m.status = h.decision /\ m.status # "pending" /\ m.history = <<h>>
  /\ m.baseline \in DOMAIN baselines /\ baselines[m.baseline].dataset = m.dataset
AcceptedIs(r) ==
  \E m \in models : m.job = <<r.producer, r.job>> /\ m.version = r.version /\ m.content = r.content
DecidedIs(d) ==
  \E m \in models : /\ m.version = d.version /\ m.status = d.decision /\ m.status # "pending"
                    /\ m.creator # d.actor

ModelsInv ==
  /\ Plainly(baselines)
  /\ \A m \in models : ModelIs(m)
  /\ \A m, n \in models : m.version = n.version => m = n
  /\ \A m, n \in models : m.job # None /\ m.job = n.job => m = n
  /\ \A r \in accepted : AcceptedIs(r)
  /\ \A d \in decided : DecidedIs(d)

LEMMA ModelsAnswer == ASSUME ModelsInv PROVE AnswersHold
<1>1. ASSUME NEW m \in models, m.status # "pending" PROVE Len(m.history) = 1
  <2>1. PICK h : m.history = <<h>>
    BY <1>1 DEF ModelsInv, ModelIs
  <2> QED BY <2>1
<1> QED BY <1>1 DEF ModelsInv, AnswersHold, AcceptedIs, DecidedIs, ModelIs

LEMMA BaselineKept == ASSUME ModelsInv, NEW k, NEW a, CreateBaseline(k, a) PROVE ModelsInv'
<1>1. PICK record : baselines' = Append(baselines, record)
  BY DEF CreateBaseline
<1>2. UNCHANGED <<models, accepted, decided>>
  BY DEF CreateBaseline
<1>3. Plainly(baselines') /\ \A j \in DOMAIN baselines : j \in DOMAIN baselines'
                                                         /\ baselines'[j] = baselines[j]
  <2>1. Plainly(baselines)
    BY DEF ModelsInv
  <2> QED BY <1>1, <2>1, Appended
<1>4. \A m \in models : ModelIs(m)'
  BY <1>3 DEF ModelsInv, ModelIs
<1>5. Plainly(baselines)'
  BY <1>3 DEF Plainly
<1> QED BY <1>2, <1>4, <1>5 DEF ModelsInv, AcceptedIs, DecidedIs

LEMMA ModelsRest ==
  ASSUME ModelsInv, UNCHANGED <<models, baselines>>,
         \A r \in accepted' : AcceptedIs(r), \A d \in decided' : DecidedIs(d)
  PROVE  ModelsInv'
<1>1. /\ Plainly(baselines)'
      /\ \A m, n \in models' : m.version = n.version => m = n
      /\ \A m, n \in models' : m.job # None /\ m.job = n.job => m = n
  BY DEF ModelsInv, Plainly
<1>2. \A m \in models' : ModelIs(m)'
  BY DEF ModelsInv, ModelIs
<1>3. (\A r \in accepted : AcceptedIs(r))' /\ (\A d \in decided : DecidedIs(d))'
  BY DEF AcceptedIs, DecidedIs
<1> QED BY <1>1, <1>2, <1>3 DEF ModelsInv

(* A model that is new, by its version and its job.                        *)
LEMMA ModelAdded ==
  ASSUME ModelsInv, NEW r, NEW creator, NEW job, Registrable(r),
         job # None => \A m \in models : m.job # job,
         models' = models \cup {Registered(r, creator, job)}, UNCHANGED <<baselines, decided>>
  PROVE  /\ Plainly(baselines)' /\ \A m \in models' : ModelIs(m)'
         /\ \A m, n \in models' : m.version = n.version => m = n
         /\ \A m, n \in models' : m.job # None /\ m.job = n.job => m = n
         /\ \A d \in decided' : DecidedIs(d)'
<1> DEFINE new == Registered(r, creator, job)
<1>1. /\ new.version = r.version /\ new.job = job /\ new.status = "pending"
      /\ new.history = <<>> /\ new.baseline = r.baseline /\ new.dataset = r.dataset
      /\ new = [version |-> new.version, content |-> new.content, dataset |-> new.dataset,
                baseline |-> new.baseline, creator |-> new.creator, job |-> new.job,
                status |-> new.status, revision |-> new.revision, history |-> new.history]
  BY DEF Registered
<1>2. ModelIs(new)
  BY <1>1 DEF ModelIs, Registrable
<1> HIDE DEF new
<1>3. models' = models \cup {new}
  BY DEF new
<1>4. \A m \in models' : ModelIs(m)
  BY <1>2, <1>3 DEF ModelsInv
<1>5. \A m \in models' : ModelIs(m)'
  BY <1>4 DEF ModelIs
<1>6. \A m \in models : m.version # new.version /\ (job # None => m.job # new.job)
  BY <1>1 DEF Registrable
<1>7. /\ \A m, n \in models' : m.version = n.version => m = n
      /\ \A m, n \in models' : m.job # None /\ m.job = n.job => m = n
  BY <1>1, <1>3, <1>6 DEF ModelsInv
<1>8. \A d \in decided' : DecidedIs(d)'
  BY <1>3 DEF ModelsInv, DecidedIs
<1> QED BY <1>5, <1>7, <1>8 DEF ModelsInv, Plainly

LEMMA SubmitKept == ASSUME ModelsInv, NEW r, SubmitResult(r) PROVE ModelsInv'
<1>1. /\ accepted' = accepted \cup {r} /\ UNCHANGED <<baselines, decided>>
  BY DEF SubmitResult
<1>2. CASE SameJob(r) # {}
  <2>1. PICK m \in SameJob(r) : IsDuplicate(m, r)
    BY <1>2 DEF SubmitResult
  <2>2. models' = models
    BY <1>2 DEF SubmitResult
  <2>3. AcceptedIs(r)
    BY <2>1 DEF SameJob, IsDuplicate, AcceptedIs
  <2>4. \A q \in accepted : AcceptedIs(q)
    BY DEF ModelsInv
  <2>5. \A d \in decided : DecidedIs(d)
    BY DEF ModelsInv
  <2> QED BY <1>1, <2>2, <2>3, <2>4, <2>5, ModelsRest
<1>3. CASE SameJob(r) = {}
  <2> DEFINE job == <<r.producer, r.job>>
             new == Registered(r, r.producer, job)
  <2>1. Registrable(r) /\ models' = models \cup {new}
    BY <1>3 DEF SubmitResult
  <2>2. \A m \in models : m.job # job
    BY <1>3 DEF SameJob
  <2>3. /\ Plainly(baselines)' /\ \A m \in models' : ModelIs(m)'
        /\ \A m, n \in models' : m.version = n.version => m = n
        /\ \A m, n \in models' : m.job # None /\ m.job = n.job => m = n
        /\ \A d \in decided' : DecidedIs(d)'
    BY <1>1, <2>1, <2>2, ModelAdded
  <2>4. new.job = job /\ new.version = r.version /\ new.content = r.content
    BY DEF Registered
  <2>5. AcceptedIs(r)'
    BY <2>1, <2>4 DEF AcceptedIs
  <2>6. \A q \in accepted : AcceptedIs(q)'
    BY <2>1 DEF AcceptedIs, ModelsInv
  <2> QED BY <1>1, <2>3, <2>5, <2>6 DEF ModelsInv
<1> QED BY <1>2, <1>3

LEMMA ReviewKept ==
  ASSUME ModelsInv, NEW o, NEW m \in models, NEW id, NEW decision \in {"approved", "rejected"},
         ReviewModel(o, m, id, decision)
  PROVE  ModelsInv'
<1> DEFINE request == Request(o, id, decision)
           d == [actor |-> o.actor, version |-> m.version, decision |-> decision]
<1>1. /\ UNCHANGED <<baselines, accepted>> /\ decided' = decided \cup {d}
      /\ m.creator # o.actor /\ request.decision = decision /\ decision # "pending"
      /\ d.actor = o.actor /\ d.version = m.version /\ d.decision = decision
  BY DEF ReviewModel, Request
<1>2. CASE Earlier(m, id) # {}
  <2>1. models' = models
    BY <1>2 DEF ReviewModel
  <2>2. PICK h \in Earlier(m, id) : IsRepetition(h, request)
    BY <1>2 DEF ReviewModel
  <2>3. \E k \in DOMAIN m.history : m.history[k] = h
    BY DEF Earlier, Range
  <2>4. m.history # <<>>
    BY <2>3
  <2>5. PICK g : m.status = g.decision /\ m.status # "pending" /\ m.history = <<g>>
    BY <2>4 DEF ModelsInv, ModelIs
  <2>6. h = g
    BY <2>3, <2>5
  <2>7. m.status = decision
    BY <1>1, <2>2, <2>5, <2>6 DEF IsRepetition
  <2>8. DecidedIs(d)
    BY <1>1, <2>7 DEF DecidedIs
  <2>9. (\A r \in accepted : AcceptedIs(r)) /\ \A e \in decided : DecidedIs(e)
    BY DEF ModelsInv
  <2> QED BY <1>1, <2>1, <2>8, <2>9, ModelsRest
<1>3. CASE Earlier(m, id) = {}
  <2>1. PICK new : new = [m EXCEPT !.status = decision, !.revision = @ + 1,
                                   !.history = Append(@, request)]
    OBVIOUS
  <2>2. models' = (models \ {m}) \cup {new} /\ m.status = "pending"
    BY <1>3, <2>1 DEF ReviewModel, Reviewable
  <2>3. ModelIs(m)
    BY DEF ModelsInv
  <2>4. m.history = <<>>
    BY <2>2, <2>3 DEF ModelIs
  <2>5. PICK hs : hs = Append(m.history, request)
    OBVIOUS
  <2>6. hs = <<request>>
    BY <2>4, <2>5
  <2>7. new = [version |-> m.version, content |-> m.content, dataset |-> m.dataset,
               baseline |-> m.baseline, creator |-> m.creator, job |-> m.job,
               status |-> decision, revision |-> m.revision + 1, history |-> hs]
    <3>1. m = [version |-> m.version, content |-> m.content, dataset |-> m.dataset,
               baseline |-> m.baseline, creator |-> m.creator, job |-> m.job, status |-> m.status,
               revision |-> m.revision, history |-> m.history]
      BY <2>3 DEF ModelIs
    <3> QED BY <2>1, <2>5, <3>1
  <2>8. /\ new.version = m.version /\ new.content = m.content /\ new.dataset = m.dataset
        /\ new.baseline = m.baseline /\ new.creator = m.creator /\ new.job = m.job
        /\ new.status = decision /\ new.history = <<request>>
    BY <2>6, <2>7
  <2>9. ModelIs(new)
    BY <1>1, <2>3, <2>6, <2>7, <2>8 DEF ModelIs
  <2>10. \A n \in models' : ModelIs(n)'
    BY <1>1, <2>2, <2>9 DEF ModelsInv, ModelIs
  <2>11. /\ \A n, q \in models' : n.version = q.version => n = q
         /\ \A n, q \in models' : n.job # None /\ n.job = q.job => n = q
    BY <2>2, <2>8 DEF ModelsInv
  <2>12. \A r \in accepted : AcceptedIs(r)'
    <3> TAKE r \in accepted
    <3>1. PICK n \in models : n.job = <<r.producer, r.job>> /\ n.version = r.version
                             /\ n.content = r.content
      BY DEF ModelsInv, AcceptedIs
    <3>2. CASE n = m
      BY <3>1, <3>2, <2>2, <2>8 DEF AcceptedIs
    <3>3. CASE n # m
      BY <3>1, <3>3, <2>2 DEF AcceptedIs
    <3> QED BY <3>2, <3>3
  <2>13. \A e \in decided : DecidedIs(e)'
    BY <2>2 DEF ModelsInv, DecidedIs
  <2>14. DecidedIs(d)'
    BY <1>1, <2>2, <2>8 DEF DecidedIs
  <2>15. Plainly(baselines)'
    BY <1>1 DEF ModelsInv, Plainly
  <2> QED BY <1>1, <2>10, <2>11, <2>12, <2>13, <2>14, <2>15 DEF ModelsInv
<1> QED BY <1>2, <1>3

-----------------------------------------------------------------------------
(* What a version froze: the events and points it was made from have their *)
(* times, and a version is only ever added.                                *)

RowsInv ==
  /\ clock \in Nat
  /\ IsFiniteSet(events) /\ \A e \in events : e.id \in Nat /\ e.at \in Nat
  /\ \A p \in telemetry : p.at \in Nat
  /\ Plainly(datasets)

LEMMA GreatestOf ==
  ASSUME NEW V, IsFiniteSet(V), V # {}, NEW f \in [V -> Int]
  PROVE  \E x \in V : \A y \in V : f[y] <= f[x]
<1> DEFINE T == {f[x] : x \in V}
<1>1. T \in SUBSET Int /\ T # {}
  OBVIOUS
<1>2. IsFiniteSet(T)
  <2>1. f \in Surjection(V, T)
    BY DEF Surjection
  <2> QED BY <2>1, FS_Surjection
<1>3. PICK m \in T : \A y \in T : y <= m
  BY <1>1, <1>2, MaxExists
<1> QED BY <1>3

(* The event whose label a point takes is a reviewed one when there is any. *)
LEMMA ReviewedFirst ==
  ASSUME RowsInv, NEW p, NEW v \in Covering(p), VerifiedEvent(v)
  PROVE  /\ MatchingEvent(p) # {}
         /\ \A e \in MatchingEvent(p) : VerifiedEvent(e) /\ e \in Covering(p)
<1> DEFINE V == {e \in Covering(p) : VerifiedEvent(e)}
<1>1. /\ IsFiniteSet(V) /\ V # {} /\ V \subseteq Covering(p)
      /\ \A e \in Covering(p) : e.at \in Nat /\ e.id \in Nat /\ (VerifiedEvent(e) <=> e \in V)
  <2>1. V \subseteq events /\ v \in V /\ Covering(p) \subseteq events
    BY DEF Covering
  <2> QED BY <2>1, FS_Subset DEF RowsInv
<1>2. PICK x \in V : \A y \in V : y.at <= x.at
  <2> HIDE DEF V
  <2> DEFINE f == [e \in V |-> e.at]
  <2>1. f \in [V -> Int]
    BY <1>1
  <2>2. PICK x \in V : \A y \in V : f[y] <= f[x]
    BY <1>1, <2>1, GreatestOf
  <2> QED BY <2>2
<1> DEFINE W == {e \in V : e.at = x.at}
<1>3. PICK z \in W : \A y \in W : y.id <= z.id
  <2> HIDE DEF V
  <2>1. IsFiniteSet(W) /\ x \in W
    BY <1>1, FS_Subset
  <2> DEFINE f == [e \in W |-> e.id]
  <2>2. f \in [W -> Int]
    BY <1>1
  <2> HIDE DEF W
  <2>3. PICK z \in W : \A y \in W : f[y] <= f[z]
    BY <2>1, <2>2, GreatestOf
  <2> QED BY <2>3
<1>4. z \in V /\ z \in Covering(p) /\ z.at = x.at /\ VerifiedEvent(z)
  OBVIOUS
<1>5. \A f \in Covering(p) : PreferredTo(z, f)
  <2> TAKE f \in Covering(p)
  <2>1. CASE ~VerifiedEvent(f)
    BY <1>4, <2>1 DEF PreferredTo
  <2>2. CASE VerifiedEvent(f)
    <3>1. f \in V /\ f.at <= x.at /\ f.at \in Nat /\ z.at \in Nat
      BY <1>1, <1>2, <1>4, <2>2
    <3>2. f.at = z.at => f.id <= z.id /\ f.id \in Nat /\ z.id \in Nat
      BY <1>1, <1>3, <1>4, <3>1
    <3>3. z.at > f.at \/ (z.at = f.at /\ z.id >= f.id)
      BY <1>4, <3>1, <3>2
    <3> QED BY <1>4, <2>2, <3>3 DEF PreferredTo
  <2> QED BY <2>1, <2>2
<1>6. \A e \in MatchingEvent(p) : e \in Covering(p) /\ PreferredTo(e, v)
  BY DEF MatchingEvent
<1>7. \A e : PreferredTo(e, v) => VerifiedEvent(e)
  BY DEF PreferredTo
<1> QED BY <1>4, <1>5, <1>6, <1>7 DEF MatchingEvent

(* So the row of a point covered by a reviewed event has a reviewer's label. *)
LEMMA RowIsReviewed ==
  ASSUME RowsInv, NEW def, NEW p \in telemetry
  PROVE  LET r == RowOf(def, p)
             labels == {e.label : e \in {e \in events : /\ e.asset = r.asset /\ VerifiedEvent(e)
                                            /\ e.at <= r.at /\ r.at <= e.at + EventLength}}
         IN  labels # {} => r.truth \in labels
<1> DEFINE r == RowOf(def, p)
           Near(e) == e.asset = r.asset /\ VerifiedEvent(e) /\ e.at <= r.at
                      /\ r.at <= e.at + EventLength
<1>1. r.at = p.at /\ r.asset = p.asset /\ r.truth = GroundTruth(p)
  BY DEF RowOf
<1> SUFFICES ASSUME NEW v \in events, Near(v)
             PROVE  \E e \in events : Near(e) /\ r.truth = e.label
  OBVIOUS
<1> HIDE DEF r
<1>2. \A e \in events : e \in Covering(p) /\ VerifiedEvent(e) <=> Near(e)
  <2> TAKE e \in events
  <2>1. e.at \in Nat /\ p.at \in Nat /\ EventLength \in Nat
    BY DatasetsAssumption DEF RowsInv
  <2>2. p.at - e.at \in 0..EventLength <=> e.at <= p.at /\ p.at <= e.at + EventLength
    BY <2>1
  <2> QED BY <1>1, <2>2 DEF Covering
<1>3. v \in Covering(p) /\ VerifiedEvent(v)
  BY <1>2
<1> DEFINE reviewed == {e \in MatchingEvent(p) : VerifiedEvent(e)}
<1>4. reviewed # {}
  BY <1>3, ReviewedFirst
<1>5. PICK e \in reviewed : GroundTruth(p) = e.label
  BY <1>4 DEF GroundTruth
<1>6. e \in events /\ e \in Covering(p)
  BY DEF MatchingEvent, Covering
<1> QED BY <1>1, <1>2, <1>5, <1>6

LEMMA FreezesAsReviewed ==
  ASSUME RowsInv, NEW def, NEW order, CreateDataset(def, order)
  PROVE  /\ Plainly(datasets)'
         /\ \A k \in DOMAIN datasets : datasets'[k] = datasets[k]
         /\ \A k \in DOMAIN datasets' \ DOMAIN datasets : \A r \in datasets'[k].rows :
               LET labels == {e.label : e \in {e \in events : /\ e.asset = r.asset
                                /\ VerifiedEvent(e) /\ e.at <= r.at /\ r.at <= e.at + EventLength}}
               IN  labels # {} => r.truth \in labels
<1>1. PICK record : /\ record = Record(def, Assigned(order, def.split))
                    /\ datasets' = Append(datasets, record)
  BY DEF CreateDataset
<1>2. Plainly(datasets)
  BY DEF RowsInv
<1>3. /\ Plainly(datasets') /\ \A k \in DOMAIN datasets : datasets'[k] = datasets[k]
      /\ \A k \in DOMAIN datasets' \ DOMAIN datasets : datasets'[k] = record
  BY <1>1, <1>2, Appended
<1>4. ASSUME NEW r \in record.rows PROVE \E p \in telemetry : r = RowOf(def, p)
  BY <1>1 DEF Record, PointsOf
<1> HIDE DEF RowsInv
<1>5. ASSUME NEW r \in record.rows
      PROVE  LET labels == {e.label : e \in {e \in events : /\ e.asset = r.asset
                                /\ VerifiedEvent(e) /\ e.at <= r.at /\ r.at <= e.at + EventLength}}
             IN  labels # {} => r.truth \in labels
  BY <1>4, RowIsReviewed
<1>6. Plainly(datasets)'
  BY <1>3 DEF Plainly
<1> QED BY <1>3, <1>5, <1>6

LEMMA RecordsKeepRows == ASSUME RowsInv, RecordsNext, UNCHANGED datasetVars PROVE RowsInv'
<1> USE DEF RowsInv
<1>1. UNCHANGED <<telemetry, datasets>> /\ Plainly(datasets)'
  BY DEF datasetVars, Plainly
<1>2. CASE UNCHANGED <<clock, events>>
  BY <1>1, <1>2
<1>3. ASSUME NEW a \in AssetIds, NEW at \in 1..clock, RaiseEvent(a, at) PROVE RowsInv'
  <2>0. PICK e : /\ events' = events \cup {e}
                 /\ e = [id |-> Cardinality(events) + 1, asset |-> a, at |-> at,
                         version |-> rules[a].version, rule |-> Current(rules[a]),
                         place |-> PlacedAt(a, at), truth |-> Seen(a, at),
                         label |-> "needs_review", reviewed |-> FALSE]
    BY <1>3, Zenon DEF RaiseEvent
  <2>1. e.id = Cardinality(events) + 1 /\ e.at = at /\ clock' = clock /\ events' = events \cup {e}
    BY <1>3, <2>0 DEF RaiseEvent
  <2>2. Cardinality(events) \in Nat /\ IsFiniteSet(events')
    BY <2>1, FS_CardinalityType, FS_AddElement
  <2> QED BY <1>1, <2>1, <2>2
<1>4. ASSUME NEW e \in events, NEW label, ReviewEvent(e, label) PROVE RowsInv'
  <2>1. PICK f : events' = (events \ {e}) \cup {f} /\ f = Labeled(e, label)
    BY <1>4 DEF ReviewEvent
  <2>2. f.id = e.id /\ f.at = e.at /\ clock' = clock
    BY <1>4, <2>1 DEF Labeled, ReviewEvent
  <2>3. IsFiniteSet(events')
    BY <2>1, FS_RemoveElement, FS_AddElement
  <2> QED BY <1>1, <2>1, <2>2, <2>3
<1>5. CASE PassTime
  BY <1>1, <1>5 DEF PassTime, eventRecords
<1>6. CASE \/ \E a \in AssetIds, t \in Thresholds, h \in Hysteresis : UpdateRule(a, t, h)
           \/ \E t \in Thresholds : UpdateParameter("threshold", t)
           \/ \E h \in Hysteresis : UpdateParameter("hysteresis", h)
           \/ \E a \in AssetIds : CreateRuledAsset(a)
  BY <1>2, <1>6 DEF UpdateRule, UpdateParameter, CreateRuledAsset, eventRecords
<1>7. CASE \E a \in AssetIds, s \in {"north", "inactive"} : Install(a, s) \/ Move(a, s)
  BY <1>2, <1>7 DEF Install, Move, Surveyed, eventRecords
<1>8. CASE \/ \E e \in events, c \in Categories : CreateNote(e, c)
           \/ \E n \in notes, c \in Categories : UpdateNote(n, c)
           \/ \E n \in notes : DeleteNote(n)
  BY <1>2, <1>8 DEF CreateNote, UpdateNote, DeleteNote, Noted, eventRecords
<1>9. CASE \E a \in AssetIds, s \in Severities, at \in 1..clock : Inspect(a, s, at)
  BY <1>2, <1>9 DEF Inspect, eventRecords
<1> QED BY <1>3, <1>4, <1>5, <1>6, <1>7, <1>8, <1>9 DEF RecordsNext

LEMMA DatasetsKeepRows == ASSUME RowsInv, DatasetSteps PROVE RowsInv'
<1>1. UNCHANGED <<events, clock>>
  BY DEF DatasetSteps, MeasurePoint, ForgetPoint, UpdateTaxonomy, CreateDataset, eventRecords
<1>2. \A p \in telemetry' : p.at \in Nat
  <2>1. telemetry' \subseteq telemetry \/ \E a, known :
          telemetry' = telemetry \cup {[asset |-> a, at |-> clock, known |-> known]}
    BY DEF DatasetSteps, MeasurePoint, ForgetPoint, UpdateTaxonomy, CreateDataset
  <2> QED BY <2>1 DEF RowsInv
<1>3. Plainly(datasets)'
  <2>1. CASE UNCHANGED datasets
    BY <2>1 DEF RowsInv, Plainly
  <2>2. CASE \E def \in Definitions : \E order \in SetToSeqs({p.asset : p \in PointsOf(def)}) :
               CreateDataset(def, order)
    BY <2>2, FreezesAsReviewed
  <2> QED BY <2>1, <2>2 DEF DatasetSteps, MeasurePoint, ForgetPoint, UpdateTaxonomy
<1> QED BY <1>1, <1>2, <1>3 DEF RowsInv

-----------------------------------------------------------------------------
(* The specification of the records, the datasets and the hand-over.       *)

GovernedIInv == RowsInv /\ ModelsInv

LEMMA HandoffStepKeeps == ASSUME GovernedIInv, HandoffSteps PROVE GovernedIInv'
<1>0. RowsInv /\ ModelsInv
  BY DEF GovernedIInv
<1>1. UNCHANGED <<telemetry, datasets, events, clock>>
  BY ZenonT(60)
  DEF HandoffSteps, DropAsset, DeleteRuledAsset, CreateBaseline, RegisterByHand, SubmitResult,
         OpenModel, ReviewModel, HandoffRest, datasetVars, eventRecords
<1>2. RowsInv'
  BY <1>0, <1>1 DEF RowsInv, Plainly
<1>3. CASE \E a \in AssetIds : DropAsset(a)
  <2>1. UNCHANGED <<models, baselines, accepted, decided>>
    BY <1>3 DEF DropAsset, handoffVars
  <2> QED BY <1>0, <1>2, <2>1, ModelsRest DEF GovernedIInv, ModelsInv
<1>4. CASE \E k \in DOMAIN datasets, a \in AssetIds : CreateBaseline(k, a)
  BY <1>0, <1>2, <1>4, BaselineKept DEF GovernedIInv
<1>5. ASSUME NEW actor \in Reviewers, NEW r \in Results, RegisterByHand(actor, r)
      PROVE  GovernedIInv'
  <2>1. Registrable(r) /\ models' = models \cup {Registered(r, actor, None)}
        /\ UNCHANGED <<baselines, accepted, decided>>
    BY <1>5 DEF RegisterByHand
  <2>2. /\ Plainly(baselines)' /\ \A m \in models' : ModelIs(m)'
        /\ \A m, n \in models' : m.version = n.version => m = n
        /\ \A m, n \in models' : m.job # None /\ m.job = n.job => m = n
        /\ \A d \in decided' : DecidedIs(d)'
    BY <1>0, <2>1, ModelAdded
  <2>3. \A q \in accepted : AcceptedIs(q)'
    BY <1>0, <2>1 DEF AcceptedIs, ModelsInv
  <2> QED BY <1>2, <2>1, <2>2, <2>3 DEF GovernedIInv, ModelsInv
<1>6. CASE \E r \in Results : SubmitResult(r)
  BY <1>0, <1>2, <1>6, SubmitKept DEF GovernedIInv
<1>7. CASE \E actor \in Reviewers, m \in models : OpenModel(actor, m)
  <2>1. UNCHANGED <<models, baselines, accepted, decided>>
    BY <1>7 DEF OpenModel
  <2> QED BY <1>0, <1>2, <2>1, ModelsRest DEF GovernedIInv, ModelsInv
<1>8. CASE \E o \in opened, m \in models, id \in Requests, decision \in {"approved", "rejected"} :
             ReviewModel(o, m, id, decision)
  BY <1>0, <1>2, <1>8, ReviewKept DEF GovernedIInv
<1> QED BY <1>3, <1>4, <1>5, <1>6, <1>7, <1>8 DEF HandoffSteps

LEMMA HandoffRests == ASSUME ModelsInv, UNCHANGED handoffVars PROVE ModelsInv'
<1>1. UNCHANGED <<models, baselines, accepted, decided>>
  BY DEF handoffVars
<1> QED BY <1>1, ModelsRest DEF ModelsInv

LEMMA GovernanceKeeps == ASSUME GovernedIInv, [HandoffNext]_allVars PROVE GovernedIInv'
<1>1. CASE DatasetsNext /\ UNCHANGED handoffVars
  BY <1>1, HandoffRests, RecordsKeepRows, DatasetsKeepRows DEF GovernedIInv, DatasetsNext
<1>2. CASE UNCHANGED allVars
  <2>1. UNCHANGED <<telemetry, datasets, events, clock>> /\ UNCHANGED handoffVars
    BY <1>2 DEF allVars, governedVars, recordVars, datasetVars, eventRecords
  <2> QED BY <2>1, HandoffRests DEF GovernedIInv, RowsInv, Plainly
<1> QED BY <1>1, <1>2, HandoffStepKeeps DEF HandoffNext

LEMMA GovernanceStart == HandoffInit => GovernedIInv
<1> SUFFICES ASSUME HandoffInit PROVE GovernedIInv
  OBVIOUS
<1>1. datasets = <<>> /\ telemetry = {} /\ events = {} /\ clock = 1
  BY DEF HandoffInit, DatasetsInit, RecordsInit
<1>2. baselines = <<>> /\ models = {} /\ accepted = {} /\ decided = {}
  BY DEF HandoffInit
<1>3. Plainly(baselines) /\ Plainly(datasets)
  BY <1>1, <1>2 DEF Plainly
<1>4. IsFiniteSet(events)
  BY <1>1, FS_EmptySet
<1> QED BY <1>1, <1>2, <1>3, <1>4 DEF GovernedIInv, RowsInv, ModelsInv

THEOREM GovernanceInvariance == GovernanceSpec => []GovernedIInv
<1> QED BY GovernanceStart, GovernanceKeeps, PTL DEF GovernanceSpec

\* Every answer a producer or a reviewer was given stays true: for any results, reviewers
\* and requests, however often they are sent again.
THEOREM AnswersStay == GovernanceSpec => []AnswersHold
<1>1. GovernedIInv => AnswersHold
  BY ModelsAnswer DEF GovernedIInv
<1> QED BY <1>1, GovernanceInvariance, PTL

\* A dataset version has the labels reviewers gave its points before it was frozen, and
\* never changes again: for any assets, labels, definitions and length of an event.
THEOREM VersionsStayFrozen == GovernanceSpec => FrozenAsReviewed
<1> DEFINE A == /\ \A k \in DOMAIN datasets : datasets'[k] = datasets[k]
     /\ \A k \in DOMAIN datasets' \ DOMAIN datasets : \A r \in datasets'[k].rows :
          LET labels == {e.label : e \in {e \in events : /\ e.asset = r.asset /\ VerifiedEvent(e)
                                            /\ e.at <= r.at /\ r.at <= e.at + EventLength}}
          IN  labels # {} => r.truth \in labels
<1>1. GovernedIInv /\ [HandoffNext]_allVars => A
  <2> SUFFICES ASSUME GovernedIInv, [HandoffNext]_allVars PROVE A
    OBVIOUS
  <2>1. CASE UNCHANGED datasets
    BY <2>1
  <2>2. CASE \E def \in Definitions : \E order \in SetToSeqs({p.asset : p \in PointsOf(def)}) :
               CreateDataset(def, order)
    <3>1. RowsInv
      BY DEF GovernedIInv
    <3> QED BY <2>2, <3>1, FreezesAsReviewed
  <2>3. CASE HandoffSteps
    BY ZenonT(60), <2>1, <2>3
    DEF HandoffSteps, DropAsset, CreateBaseline, RegisterByHand, SubmitResult,
                      OpenModel, ReviewModel, HandoffRest, datasetVars
  <2>4. CASE UNCHANGED allVars
    BY <2>1, <2>4 DEF allVars, governedVars, datasetVars
  <2>5. CASE RecordsNext /\ UNCHANGED datasetVars
    BY <2>1, <2>5 DEF datasetVars
  <2> QED BY <2>1, <2>2, <2>3, <2>4, <2>5 DEF HandoffNext, DatasetsNext, DatasetSteps,
             MeasurePoint, ForgetPoint, UpdateTaxonomy
<1>2. GovernedIInv /\ [HandoffNext]_allVars => [A]_governedVars
  BY <1>1
<1> QED BY <1>2, GovernanceInvariance, PTL DEF GovernanceSpec, FrozenAsReviewed

-----------------------------------------------------------------------------
(* Rules: every version of a rule is kept, and an event names one of them. *)

RuleIs(rule) ==
  /\ rule = [version |-> rule.version, threshold |-> rule.threshold,
             hysteresis |-> rule.hysteresis, history |-> rule.history]
  /\ Plainly(rule.history) /\ rule.version = Len(rule.history) + 1
  /\ \A k \in DOMAIN rule.history : rule.history[k].version = k
RaisedUnder(e, rule) ==
  \/ e.version = rule.version /\ e.rule = Current(rule)
  \/ e.version \in DOMAIN rule.history /\ e.rule = rule.history[e.version]
RulesInv ==
  /\ DOMAIN rules \subseteq AssetIds
  /\ \A a \in DOMAIN rules : RuleIs(rules[a])
  /\ \A e \in events : e.asset \in DOMAIN rules /\ RaisedUnder(e, rules[e.asset])

LEMMA AppliedIs == ASSUME RulesInv, NEW e \in events PROVE AppliedRule(e) = e.rule
<1> DEFINE rule == rules[e.asset]
           found == {s \in {Current(rule)} \cup Range(rule.history) : s.version = e.version}
<1>1. e.asset \in DOMAIN rules /\ RuleIs(rule) /\ RaisedUnder(e, rule)
  BY DEF RulesInv
<1>2. Current(rule).version = rule.version
  BY DEF Current
<1> HIDE DEF rule
<1>3. Range(rule.history) = {rule.history[k] : k \in DOMAIN rule.history}
  BY DEF Range
<1>4. DOMAIN rule.history = 1..Len(rule.history) /\ Len(rule.history) \in Nat
  BY <1>1 DEF RuleIs, Plainly
<1>5. CASE e.version = rule.version /\ e.rule = Current(rule)
  <2>1. Current(rule) \in found
    BY <1>2, <1>5
  <2> QED BY <1>1, <1>5, <2>1 DEF AppliedRule, rule
<1>6. CASE e.version \in DOMAIN rule.history /\ e.rule = rule.history[e.version]
  <2>1. e.rule \in found
    BY <1>1, <1>3, <1>6 DEF RuleIs
  <2>2. Current(rule) \notin found
    BY <1>1, <1>2, <1>4, <1>6 DEF RuleIs
  <2>3. \A s \in found : s = e.rule
    BY <1>1, <1>3, <1>6, <2>2 DEF RuleIs
  <2>4. found = {e.rule}
    BY <2>1, <2>3
  <2> HIDE DEF found
  <2>5. AppliedRule(e) = (CHOOSE s \in found : TRUE)
    BY <1>1, <2>2, <2>4 DEF AppliedRule, rule, found
  <2> QED BY <2>4, <2>5
<1> QED BY <1>1, <1>5, <1>6 DEF RaisedUnder

LEMMA RevisedIs ==
  ASSUME NEW rule, RuleIs(rule), NEW threshold, NEW hysteresis
  PROVE  /\ RuleIs(Revised(rule, threshold, hysteresis))
         /\ \A e : RaisedUnder(e, rule) => RaisedUnder(e, Revised(rule, threshold, hysteresis))
<1> DEFINE old == Current(rule)
           hs == Append(rule.history, old)
           new == Revised(rule, threshold, hysteresis)
<1>1. old.version = rule.version
  BY DEF Current
<1>2. /\ Plainly(hs) /\ DOMAIN rule.history = 1..Len(rule.history) /\ Len(rule.history) \in Nat
      /\ DOMAIN hs = 1..(Len(rule.history) + 1)
      /\ \A k \in DOMAIN rule.history : hs[k] = rule.history[k]
      /\ hs[Len(rule.history) + 1] = old
  BY Appended DEF RuleIs
<1>3. new = [version |-> Len(rule.history) + 2, threshold |-> threshold,
             hysteresis |-> hysteresis, history |-> hs]
  <2>1. rule = [version |-> rule.version, threshold |-> rule.threshold,
                hysteresis |-> rule.hysteresis, history |-> rule.history]
    BY DEF RuleIs
  <2>2. new = [rule EXCEPT !.history = hs, !.threshold = threshold,
                           !.hysteresis = hysteresis, !.version = Len(rule.history) + 2]
    BY DEF Revised
  <2> HIDE DEF hs, new
  <2> QED BY <2>1, <2>2
<1> HIDE DEF hs, old, new
<1>4. Len(hs) = Len(rule.history) + 1
  BY <1>2 DEF Plainly
<1>5. RuleIs(new)
  <2>1. \A k \in DOMAIN hs : hs[k].version = k
    BY <1>1, <1>2 DEF RuleIs
  <2> QED BY <1>2, <1>3, <1>4, <2>1 DEF RuleIs
<1>6. ASSUME NEW e, RaisedUnder(e, rule) PROVE RaisedUnder(e, new)
  <2>1. CASE e.version = rule.version /\ e.rule = Current(rule)
    BY <1>2, <1>3, <2>1 DEF RaisedUnder, RuleIs, old
  <2>2. CASE e.version \in DOMAIN rule.history /\ e.rule = rule.history[e.version]
    BY <1>2, <1>3, <2>2 DEF RaisedUnder
  <2> QED BY <1>6, <2>1, <2>2 DEF RaisedUnder
<1> QED BY <1>5, <1>6 DEF new

LEMMA RulesChange ==
  ASSUME RulesInv, UNCHANGED events, DOMAIN rules' = DOMAIN rules,
         \A a \in DOMAIN rules : rules'[a] = rules[a] \/ \E t, h : rules'[a] = Revised(rules[a], t, h)
  PROVE  RulesInv'
<1>1. ASSUME NEW a \in DOMAIN rules
      PROVE  RuleIs(rules'[a]) /\ \A e : RaisedUnder(e, rules[a]) => RaisedUnder(e, rules'[a])
  <2>1. RuleIs(rules[a])
    BY DEF RulesInv
  <2>2. CASE rules'[a] = rules[a]
    BY <2>1, <2>2
  <2>3. ASSUME NEW t, NEW h, rules'[a] = Revised(rules[a], t, h)
        PROVE  RuleIs(rules'[a]) /\ \A e : RaisedUnder(e, rules[a]) => RaisedUnder(e, rules'[a])
    BY <2>1, <2>3, RevisedIs
  <2> QED BY <2>2, <2>3
<1>2. (\A a \in DOMAIN rules : RuleIs(rules[a]))'
  BY <1>1 DEF RuleIs
<1>3. (\A e \in events : e.asset \in DOMAIN rules /\ RaisedUnder(e, rules[e.asset]))'
  BY <1>1 DEF RulesInv, RaisedUnder
<1> QED BY <1>2, <1>3 DEF RulesInv

LEMMA RuleStepKeeps ==
  ASSUME RulesInv, NEW a \in AssetIds,
         \/ \E t, h : UpdateRule(a, t, h)
         \/ \E key, value : UpdateParameter(key, value)
         \/ CreateRuledAsset(a)
         \/ \E kept : DeleteRuledAsset(a, kept)
  PROVE  RulesInv'
<1>1. UNCHANGED events
  BY DEF UpdateRule, UpdateParameter, CreateRuledAsset, DeleteRuledAsset, eventRecords
<1>2. ASSUME NEW t, NEW h, UpdateRule(a, t, h) PROVE RulesInv'
  <2>1. rules' = [rules EXCEPT ![a] = Revised(rules[a], t, h)] /\ a \in DOMAIN rules
    BY <1>2 DEF UpdateRule
  <2>2. DOMAIN rules' = DOMAIN rules
        /\ \A b \in DOMAIN rules : rules'[b] = rules[b] \/ rules'[b] = Revised(rules[b], t, h)
    BY <2>1
  <2> QED BY <1>1, <2>2, RulesChange
<1>3. ASSUME NEW key, NEW value, UpdateParameter(key, value) PROVE RulesInv'
  <2>1. DOMAIN rules' = DOMAIN rules
        /\ \A b \in DOMAIN rules : \E t, h : rules'[b] = Revised(rules[b], t, h)
    BY <1>3 DEF UpdateParameter
  <2> QED BY <1>1, <2>1, RulesChange
<1>4. CASE CreateRuledAsset(a)
  <2>1. RuleIs(NewRule(parameters))
    <3>1. Plainly(<< >>) /\ Len(<< >>) = 0 /\ DOMAIN << >> = {}
      BY DEF Plainly
    <3> QED BY <3>1 DEF RuleIs, NewRule
  <2>2. /\ DOMAIN rules' = DOMAIN rules \cup {a} /\ a \notin DOMAIN rules
        /\ rules'[a] = NewRule(parameters) /\ \A b \in DOMAIN rules : rules'[b] = rules[b]
    BY <1>4 DEF CreateRuledAsset
  <2>3. (\A b \in DOMAIN rules : RuleIs(rules[b]))'
    BY <2>1, <2>2 DEF RulesInv, RuleIs
  <2>4. (\A e \in events : e.asset \in DOMAIN rules /\ RaisedUnder(e, rules[e.asset]))'
    BY <1>1, <2>2 DEF RulesInv, RaisedUnder
  <2> QED BY <2>2, <2>3, <2>4 DEF RulesInv
<1>5. ASSUME NEW kept, DeleteRuledAsset(a, kept) PROVE RulesInv'
  <2>1. /\ DOMAIN rules' = DOMAIN rules \ {a} /\ \A b \in DOMAIN rules \ {a} : rules'[b] = rules[b]
        /\ \A e \in events : e.asset # a
    BY <1>5 DEF DeleteRuledAsset, Unreferred
  <2>2. (\A b \in DOMAIN rules : RuleIs(rules[b]))'
    BY <2>1 DEF RulesInv, RuleIs
  <2>3. (\A e \in events : e.asset \in DOMAIN rules /\ RaisedUnder(e, rules[e.asset]))'
    BY <1>1, <2>1 DEF RulesInv, RaisedUnder
  <2> QED BY <2>1, <2>2, <2>3 DEF RulesInv
<1> QED BY <1>2, <1>3, <1>4, <1>5

-----------------------------------------------------------------------------
(* Places: the edits of a point tell where it was at every moment.         *)

PointIs(a) ==
  LET p == points[a] IN
  /\ p = [created |-> p.created, state |-> p.state, edits |-> p.edits]
  /\ p.created \in 1..clock /\ DOMAIN placed[a] = p.created..clock
  /\ Plainly(p.edits) /\ \A k \in DOMAIN p.edits : p.edits[k].at \in 1..clock
  /\ \A t \in p.created..clock : placed[a][t] = StateAt(p, t)
PlacesInv ==
  /\ clock \in Nat \ {0} /\ DOMAIN placed = AssetIds /\ DOMAIN points \subseteq AssetIds
  /\ \A a \in AssetIds : IF a \in DOMAIN points THEN PointIs(a) ELSE DOMAIN placed[a] = {}

LEMMA PlacedIsSeen ==
  ASSUME PlacesInv, NEW a \in AssetIds, NEW at \in 1..clock
  PROVE  PlacedAt(a, at) = Seen(a, at)
<1>1. CASE a \notin DOMAIN points
  BY <1>1 DEF PlacesInv, PlacedAt, Seen
<1>2. CASE a \in DOMAIN points /\ points[a].created > at
  <2>1. at \notin DOMAIN placed[a]
    BY <1>2 DEF PlacesInv, PointIs
  <2> QED BY <1>2, <2>1 DEF PlacedAt, Seen
<1>3. CASE a \in DOMAIN points /\ ~(points[a].created > at)
  <2>1. at \in points[a].created..clock /\ at \in DOMAIN placed[a]
        /\ placed[a][at] = StateAt(points[a], at)
    BY <1>3 DEF PlacesInv, PointIs
  <2> QED BY <1>3, <2>1 DEF PlacedAt, Seen
<1> QED BY <1>1, <1>2, <1>3

(* At the present moment no edit is undone.                                *)
LEMMA PresentState ==
  ASSUME NEW p, NEW at \in Nat, Plainly(p.edits), \A k \in DOMAIN p.edits : p.edits[k].at \in 1..at
  PROVE  StateAt(p, at) = p.state
<1>1. DOMAIN p.edits = 1..Len(p.edits) /\ Len(p.edits) \in Nat
  BY DEF Plainly
<1>2. \A k \in DOMAIN p.edits : k \in k..Len(p.edits) /\ ~Undone(p.edits[k], at)
  BY <1>1 DEF Undone
<1> QED BY <1>2 DEF StateAt

(* An edit of the present moment changes no earlier one.                   *)
LEMMA EarlierState ==
  ASSUME NEW p, NEW q, NEW edit, NEW t \in Nat, Plainly(p.edits),
         q.edits = Append(p.edits, edit), edit.before = p.state, Undone(edit, t)
  PROVE  StateAt(q, t) = StateAt(p, t)
<1> DEFINE U == {k \in DOMAIN p.edits : \A j \in k..Len(p.edits) : Undone(p.edits[j], t)}
           W == {k \in DOMAIN q.edits : \A j \in k..Len(q.edits) : Undone(q.edits[j], t)}
           n == Len(p.edits)
<1>1. /\ DOMAIN p.edits = 1..n /\ n \in Nat /\ DOMAIN q.edits = 1..(n + 1) /\ Len(q.edits) = n + 1
      /\ \A k \in DOMAIN p.edits : q.edits[k] = p.edits[k]
      /\ q.edits[n + 1] = edit
  <2>1. Plainly(q.edits)
    BY Appended
  <2>2. DOMAIN q.edits = 1..(n + 1) /\ n \in Nat
    BY Appended
  <2>3. Len(q.edits) = n + 1
    BY <2>1, <2>2 DEF Plainly
  <2> QED BY <2>2, <2>3, Appended
<1>2. W = U \cup {n + 1}
  <2>1. n + 1 \in W
    BY <1>1
  <2>2. \A k \in 1..n : k \in W <=> k \in U
    <3> TAKE k \in 1..n
    <3>1. k..(n + 1) = (k..n) \cup {n + 1} /\ k \in DOMAIN p.edits /\ k \in DOMAIN q.edits
      BY <1>1
    <3>2. \A j \in k..n : q.edits[j] = p.edits[j]
      BY <1>1
    <3>3. (\A j \in k..(n + 1) : Undone(q.edits[j], t)) <=> \A j \in k..n : Undone(p.edits[j], t)
      BY <1>1, <3>1, <3>2
    <3> QED BY <1>1, <3>1, <3>3
  <2>3. W \subseteq 1..(n + 1) /\ U \subseteq 1..n /\ 1..(n + 1) = (1..n) \cup {n + 1}
    BY <1>1
  <2> HIDE DEF U, W
  <2> QED BY <2>1, <2>2, <2>3
<1>0. /\ StateAt(q, t) = IF W = {} THEN q.state ELSE q.edits[Min(W)].before
      /\ StateAt(p, t) = IF U = {} THEN p.state ELSE p.edits[Min(U)].before
  BY DEF StateAt
<1> HIDE DEF n, U, W
<1>3. CASE U = {}
  <2>1. W = {n + 1} /\ n + 1 \in Int
    BY <1>1, <1>2, <1>3
  <2>2. Min(W) = n + 1
    <3> HIDE DEF W
    <3>1. W \in SUBSET Int /\ W # {} /\ IsFiniteSet(W)
      BY <2>1, FS_Singleton
    <3> QED BY <2>1, <3>1, MinIs
  <2> QED BY <1>0, <1>1, <1>3, <2>1, <2>2
<1>4. CASE U # {}
  <2>1. U \subseteq 1..n /\ IsFiniteSet(U) /\ U \in SUBSET Int
    <3>1. U \subseteq 1..n
      BY <1>1 DEF U
    <3>2. IsFiniteSet(1..n) /\ 1..n \subseteq Int
      BY <1>1, FS_Interval
    <3> QED BY <3>1, <3>2, FS_Subset
  <2>2. Min(U) \in U /\ \A y \in U : Min(U) <= y
    BY <1>4, <2>1, MinIs
  <2>3. W \in SUBSET Int /\ W # {} /\ IsFiniteSet(W)
    BY <1>1, <1>2, <2>1, FS_AddElement
  <2>4. Min(W) \in W /\ \A y \in W : Min(W) <= y
    BY <2>3, MinIs
  <2>5. Min(W) = Min(U)
    <3>1. Min(U) \in W /\ Min(U) \in 1..n /\ n \in Nat
      BY <1>1, <1>2, <2>1, <2>2
    <3>2. Min(W) <= Min(U) /\ Min(W) \in Int
      BY <2>3, <2>4, <3>1
    <3>5. Min(W) # n + 1
      <4>1. ASSUME NEW x \in Int, NEW y \in 1..n, x <= y PROVE x # n + 1
        BY <3>1, <4>1
      <4> QED BY <3>1, <3>2, <4>1
    <3>3. Min(W) \in U
      BY <1>2, <2>4, <3>5
    <3>4. Min(U) <= Min(W)
      BY <2>2, <3>3
    <3> QED BY <3>1, <3>2, <3>4
  <2>6. Min(U) \in DOMAIN p.edits
    BY <1>1, <2>1, <2>2
  <2>7. StateAt(q, t) = q.edits[Min(W)].before /\ StateAt(p, t) = p.edits[Min(U)].before
    BY <1>0, <1>4, <2>3
  <2> QED BY <1>1, <2>5, <2>6, <2>7
<1> QED BY <1>3, <1>4

LEMMA PointKept ==
  ASSUME NEW a, PointIs(a), points'[a] = points[a], placed'[a] = placed[a], clock' = clock
  PROVE  PointIs(a)'
BY DEF PointIs

LEMMA PlacesRest == ASSUME PlacesInv, UNCHANGED <<points, placed, clock>> PROVE PlacesInv'
<1>1. \A a \in AssetIds : PointIs(a) => PointIs(a)'
  BY PointKept
<1> QED BY <1>1 DEF PlacesInv

(* What a survey changes is the record of the moment.                      *)
LEMMA SurveyIs ==
  ASSUME PlacesInv, NEW a \in AssetIds, NEW state, Surveyed(a, state)
  PROVE  /\ clock' = clock /\ DOMAIN placed' = AssetIds
         /\ DOMAIN placed'[a] = DOMAIN placed[a] \cup {clock} /\ placed'[a][clock] = state
         /\ \A t \in DOMAIN placed[a] : t # clock => placed'[a][t] = placed[a][t]
         /\ \A b \in AssetIds : b # a => placed'[b] = placed[b]
<1> DEFINE new == [t \in DOMAIN placed[a] \cup {clock} |-> IF t = clock THEN state ELSE placed[a][t]]
<1>1. placed' = [placed EXCEPT ![a] = new] /\ clock' = clock
  BY DEF Surveyed
<1>2. placed'[a] = new
  BY <1>1 DEF PlacesInv
<1>3. DOMAIN new = DOMAIN placed[a] \cup {clock} /\ new[clock] = state
      /\ \A t \in DOMAIN placed[a] : t # clock => new[t] = placed[a][t]
  OBVIOUS
<1> HIDE DEF new
<1> QED BY <1>1, <1>2, <1>3 DEF PlacesInv

LEMMA InstallKeeps ==
  ASSUME PlacesInv, NEW a \in AssetIds, NEW state, Install(a, state)
  PROVE  PlacesInv'
<1>1. PICK p : /\ p = [created |-> clock, state |-> state, edits |-> << >>]
               /\ points' = [b \in DOMAIN points \cup {a} |-> IF b = a THEN p ELSE points[b]]
               /\ a \notin DOMAIN points /\ Surveyed(a, state)
  BY DEF Install
<1>2. /\ p.created = clock /\ p.state = state /\ p.edits = << >> /\ Plainly(p.edits)
      /\ p = [created |-> p.created, state |-> p.state, edits |-> p.edits]
      /\ \A k \in DOMAIN p.edits : p.edits[k].at \in 1..clock
  BY <1>1 DEF Plainly
<1>3. /\ DOMAIN points' = DOMAIN points \cup {a} /\ points'[a] = p
      /\ \A b \in DOMAIN points : points'[b] = points[b]
  BY <1>1
<1>4. /\ clock' = clock /\ DOMAIN placed' = AssetIds
      /\ DOMAIN placed'[a] = DOMAIN placed[a] \cup {clock} /\ placed'[a][clock] = state
      /\ \A b \in AssetIds : b # a => placed'[b] = placed[b]
  BY <1>1, SurveyIs
<1>5. clock \in Nat \ {0} /\ DOMAIN placed[a] = {} /\ clock..clock = {clock}
  BY <1>1 DEF PlacesInv
<1>6. StateAt(p, clock) = state
  BY <1>2, <1>5, PresentState
<1>7. PointIs(a)'
  BY <1>2, <1>3, <1>4, <1>5, <1>6 DEF PointIs
<1>8. \A b \in AssetIds : b # a => IF b \in DOMAIN points' THEN PointIs(b)'
                                                     ELSE DOMAIN placed'[b] = {}
  BY <1>3, <1>4, PointKept DEF PlacesInv
<1> QED BY <1>3, <1>4, <1>7, <1>8 DEF PlacesInv

LEMMA MoveKeeps ==
  ASSUME PlacesInv, NEW a \in AssetIds, NEW state, Move(a, state)
  PROVE  PlacesInv'
<1> DEFINE p == points[a]
<1>1. PICK edit, q : /\ edit = [at |-> clock, before |-> p.state]
                     /\ q = Moved(p, state)
                     /\ points' = [points EXCEPT ![a] = q]
                     /\ a \in DOMAIN points /\ Surveyed(a, state)
  BY DEF Move
<1>2. PointIs(a) /\ clock \in Nat \ {0}
  BY <1>1 DEF PlacesInv
<1>3. /\ p = [created |-> p.created, state |-> p.state, edits |-> p.edits] /\ Plainly(p.edits)
      /\ p.created \in 1..clock /\ DOMAIN placed[a] = p.created..clock
      /\ \A k \in DOMAIN p.edits : p.edits[k].at \in 1..clock
      /\ \A t \in p.created..clock : placed[a][t] = StateAt(p, t)
  BY <1>2 DEF PointIs
<1> HIDE DEF p
<1>4. q = [p EXCEPT !.state = state, !.edits = Append(p.edits, edit)]
  BY <1>1 DEF Moved
<1>5. PICK es : es = Append(p.edits, edit)
  OBVIOUS
<1>6. /\ q = [created |-> p.created, state |-> state, edits |-> es]
      /\ q.created = p.created /\ q.state = state /\ q.edits = es
  BY <1>3, <1>4, <1>5
<1>7. /\ Plainly(q.edits) /\ \A k \in DOMAIN q.edits : q.edits[k].at \in 1..clock
  <2>1. /\ Plainly(es) /\ DOMAIN p.edits = 1..Len(p.edits) /\ Len(p.edits) \in Nat
        /\ DOMAIN es = 1..(Len(p.edits) + 1) /\ \A k \in DOMAIN p.edits : es[k] = p.edits[k]
        /\ es[Len(p.edits) + 1] = edit
    BY <1>3, <1>5, Appended
  <2>2. edit.at = clock /\ clock \in 1..clock
    BY <1>1, <1>2
  <2>3. \A k \in DOMAIN es : k = Len(p.edits) + 1 \/ k \in DOMAIN p.edits
    BY <2>1
  <2> QED BY <1>3, <1>6, <2>1, <2>2, <2>3
<1>8. /\ DOMAIN points' = DOMAIN points /\ points'[a] = q
      /\ \A b \in DOMAIN points : b # a => points'[b] = points[b]
  BY <1>1
<1>9. /\ clock' = clock /\ DOMAIN placed' = AssetIds
      /\ DOMAIN placed'[a] = DOMAIN placed[a] \cup {clock} /\ placed'[a][clock] = state
      /\ \A t \in DOMAIN placed[a] : t # clock => placed'[a][t] = placed[a][t]
      /\ \A b \in AssetIds : b # a => placed'[b] = placed[b]
  BY <1>1, SurveyIs
<1>10. (p.created..clock) \cup {clock} = p.created..clock
  BY <1>2, <1>3
<1>11. ASSUME NEW t \in p.created..clock PROVE placed'[a][t] = StateAt(q, t)
  <2>1. t \in Nat
    BY <1>2, <1>3
  <2>2. CASE t = clock
    BY <1>2, <1>6, <1>7, <1>9, <2>1, <2>2, PresentState
  <2>3. CASE t # clock
    <3>1. Undone(edit, t)
      BY <1>1, <1>2, <1>3, <2>1, <2>3 DEF Undone
    <3>2. StateAt(q, t) = StateAt(p, t)
      BY ZenonT(60), <1>1, <1>3, <1>5, <1>6, <2>1, <3>1, EarlierState
    <3>3. t \in DOMAIN placed[a] /\ placed[a][t] = StateAt(p, t)
      BY <1>3
    <3>4. placed'[a][t] = placed[a][t]
      BY <1>9, <2>3, <3>3
    <3> QED BY <3>2, <3>3, <3>4
  <2> QED BY <2>2, <2>3
<1>12. PointIs(a)'
  BY <1>3, <1>6, <1>7, <1>8, <1>9, <1>10, <1>11 DEF PointIs
<1>13. \A b \in AssetIds : b # a => IF b \in DOMAIN points' THEN PointIs(b)'
                                                      ELSE DOMAIN placed'[b] = {}
  BY <1>8, <1>9, PointKept DEF PlacesInv
<1> QED BY <1>1, <1>8, <1>9, <1>12, <1>13 DEF PlacesInv

LEMMA TimeKeepsPlaces == ASSUME PlacesInv, PassTime PROVE PlacesInv'
<1>1. /\ clock' = clock + 1 /\ points' = points /\ clock \in Nat \ {0}
      /\ DOMAIN placed' = AssetIds
  BY DEF PassTime, PlacesInv
<1>2. ASSUME NEW a \in AssetIds, a \in DOMAIN points PROVE PointIs(a)'
  <2> DEFINE p == points[a]
             new == [t \in DOMAIN placed[a] \cup {clock + 1} |->
                       IF t = clock + 1 THEN placed[a][clock] ELSE placed[a][t]]
  <2>1. /\ p = [created |-> p.created, state |-> p.state, edits |-> p.edits] /\ Plainly(p.edits)
        /\ p.created \in 1..clock /\ DOMAIN placed[a] = p.created..clock
        /\ \A k \in DOMAIN p.edits : p.edits[k].at \in 1..clock
        /\ \A t \in p.created..clock : placed[a][t] = StateAt(p, t)
    BY <1>2 DEF PlacesInv, PointIs
  <2> HIDE DEF p
  <2>2. clock \in DOMAIN placed[a] /\ clock \in p.created..clock
    BY <1>1, <2>1
  <2>3. placed'[a] = new
    BY <2>2 DEF PassTime
  <2>4. /\ (p.created..clock) \cup {clock + 1} = p.created..(clock + 1)
        /\ clock + 1 \notin p.created..clock /\ p.created \in 1..(clock + 1)
    BY <1>1, <2>1
  <2>5. \A k \in DOMAIN p.edits : p.edits[k].at \in 1..(clock + 1)
    BY <1>1, <2>1
  <2>6. StateAt(p, clock + 1) = p.state /\ StateAt(p, clock) = p.state
    BY <1>1, <2>1, <2>5, PresentState
  <2>7. /\ DOMAIN new = p.created..(clock + 1)
        /\ \A t \in p.created..(clock + 1) : new[t] = StateAt(p, t)
    <3>1. DOMAIN new = p.created..(clock + 1)
      BY <2>1, <2>4
    <3>2. new[clock + 1] = StateAt(p, clock + 1)
      <4>1. placed[a][clock] = StateAt(p, clock)
        BY <2>1, <2>2
      <4> QED BY <2>6, <4>1
    <3>3. ASSUME NEW t \in p.created..clock PROVE new[t] = StateAt(p, t)
      <4>1. t \in DOMAIN placed[a] /\ placed[a][t] = StateAt(p, t)
        BY <2>1
      <4>2. t # clock + 1
        BY <2>4
      <4> QED BY <4>1, <4>2
    <3> HIDE DEF new
    <3> QED BY <2>4, <3>1, <3>2, <3>3
  <2> HIDE DEF new
  <2>8. points'[a] = p
    BY <1>1 DEF p
  <2> QED BY <1>1, <2>1, <2>3, <2>4, <2>5, <2>7, <2>8 DEF PointIs
<1>3. ASSUME NEW a \in AssetIds, a \notin DOMAIN points PROVE DOMAIN placed'[a] = {}
  BY <1>3 DEF PlacesInv, PassTime
<1> QED BY <1>1, <1>2, <1>3 DEF PlacesInv

LEMMA DeleteKeepsPlaces ==
  ASSUME PlacesInv, NEW a \in AssetIds, NEW kept, DeleteRuledAsset(a, kept)
  PROVE  PlacesInv'
<1>1. /\ clock' = clock /\ DOMAIN points' = DOMAIN points \ {a}
      /\ \A b \in DOMAIN points \ {a} : points'[b] = points[b]
      /\ DOMAIN placed' = AssetIds /\ DOMAIN placed'[a] = {}
      /\ \A b \in AssetIds : b # a => placed'[b] = placed[b]
  BY DEF DeleteRuledAsset, PlacesInv
<1> QED BY <1>1, PointKept DEF PlacesInv

LEMMA PlaceStepKeeps ==
  ASSUME PlacesInv, NEW a \in AssetIds,
         \/ \E state : Install(a, state) \/ Move(a, state)
         \/ \E kept : DeleteRuledAsset(a, kept)
         \/ PassTime
  PROVE  PlacesInv'
BY InstallKeeps, MoveKeeps, DeleteKeepsPlaces, TimeKeepsPlaces

-----------------------------------------------------------------------------
(* Notes: each note tells which change of the history is its last.         *)

NoteIs(n) ==
  /\ n = [id |-> n.id, event |-> n.event, category |-> n.category, version |-> n.version,
          changed |-> n.changed, deleted |-> n.deleted]
  /\ n.id \in 1..Cardinality(notes) /\ n.version \in Nat
  /\ n.changed \in DOMAIN noteHistory
  /\ noteHistory[n.changed].note = n.id /\ noteHistory[n.changed].version = n.version
  /\ noteHistory[n.changed].category = n.category
  /\ \A k \in DOMAIN noteHistory :
       noteHistory[k].note = n.id /\ k # n.changed => noteHistory[k].version < n.version
NotesInv ==
  /\ Plainly(noteHistory) /\ IsFiniteSet(notes)
  /\ \A k \in DOMAIN noteHistory : /\ noteHistory[k].note \in 1..Cardinality(notes)
                                   /\ noteHistory[k].version \in Nat
  /\ \A n \in notes : NoteIs(n)
  /\ \A m, n \in notes : m.id = n.id => m = n

LEMMA NotesRest == ASSUME NotesInv, UNCHANGED noteVars PROVE NotesInv'
BY DEF NotesInv, NoteIs, noteVars, Plainly

(* A change writes one entry of the history, for a new note or a new       *)
(* version of one.                                                         *)
LEMMA NoteChanges ==
  ASSUME NotesInv, NEW note, NEW h, NEW gone,
         note = [id |-> note.id, event |-> note.event, category |-> note.category,
                 version |-> note.version, changed |-> note.changed, deleted |-> note.deleted],
         note.changed = Len(noteHistory) + 1,
         h.note = note.id, h.version = note.version, h.category = note.category,
         noteHistory' = Append(noteHistory, h),
         notes' = (notes \ gone) \cup {note},
         \/ gone = {} /\ note.id = Cardinality(notes) + 1 /\ note.version = 1
         \/ \E n \in notes : gone = {n} /\ note.id = n.id /\ note.version = n.version + 1
  PROVE  NotesInv'
<1> DEFINE c == Cardinality(notes)
           len == Len(noteHistory)
<1>1. /\ Plainly(noteHistory)' /\ DOMAIN noteHistory = 1..len /\ len \in Nat
      /\ DOMAIN noteHistory' = 1..(len + 1)
      /\ \A k \in DOMAIN noteHistory : noteHistory'[k] = noteHistory[k]
      /\ noteHistory'[len + 1] = h
  <2>1. Plainly(noteHistory)
    BY DEF NotesInv
  <2>2. Plainly(Append(noteHistory, h))
    BY <2>1, Appended
  <2>3. Plainly(noteHistory)'
    BY <2>2 DEF Plainly
  <2> QED BY <2>1, <2>3, Appended
<1>2. c \in Nat /\ IsFiniteSet(notes)
  BY FS_CardinalityType DEF NotesInv
<1>3. /\ IsFiniteSet(notes') /\ Cardinality(notes') \in Nat /\ c <= Cardinality(notes')
      /\ note.id \in 1..Cardinality(notes') /\ note.version \in Nat
      /\ \A m \in notes' : m # note => m \in notes /\ m.id # note.id
  <2>1. CASE gone = {} /\ note.id = c + 1 /\ note.version = 1
    <3>1. \A m \in notes : m.id # note.id
      BY <1>2, <2>1 DEF NotesInv, NoteIs
    <3>2. note \notin notes /\ notes' = notes \cup {note}
      BY <2>1, <3>1
    <3>4. /\ IsFiniteSet(notes \cup {note})
          /\ Cardinality(notes \cup {note}) = Cardinality(notes) + 1
      BY <1>2, <3>2, FS_AddElement
    <3>3. IsFiniteSet(notes') /\ Cardinality(notes') = c + 1
      BY <3>2, <3>4
    <3> QED BY <1>2, <2>1, <3>1, <3>2, <3>3
  <2>2. ASSUME NEW n \in notes, gone = {n}, note.id = n.id, note.version = n.version + 1
        PROVE  /\ IsFiniteSet(notes') /\ Cardinality(notes') \in Nat /\ c <= Cardinality(notes')
               /\ note.id \in 1..Cardinality(notes') /\ note.version \in Nat
               /\ \A m \in notes' : m # note => m \in notes /\ m.id # note.id
    <3>1. \A m \in notes \ {n} : m.id # note.id
      BY <2>2 DEF NotesInv
    <3>2. note \notin notes \ {n}
      BY <3>1
    <3>3. IsFiniteSet(notes \ {n}) /\ Cardinality(notes \ {n}) = c - 1
      BY <1>2, FS_RemoveElement
    <3>4. IsFiniteSet(notes') /\ Cardinality(notes') = c - 1 + 1
      BY ZenonT(60), <2>2, <3>2, <3>3, FS_AddElement
    <3>5. Cardinality(notes') = c /\ n.id \in 1..c /\ n.version \in Nat
      BY <1>2, <3>4 DEF NotesInv, NoteIs
    <3> QED BY <1>2, <2>2, <3>1, <3>4, <3>5
  <2> QED BY <2>1, <2>2
<1>4. \A k \in DOMAIN noteHistory : noteHistory[k].note = note.id =>
        noteHistory[k].version < note.version
  <2> TAKE k \in DOMAIN noteHistory
  <2>1. noteHistory[k].note \in 1..c /\ noteHistory[k].version \in Nat
    BY DEF NotesInv
  <2>2. CASE gone = {} /\ note.id = c + 1 /\ note.version = 1
    BY <1>2, <2>1, <2>2
  <2>3. ASSUME NEW n \in notes, gone = {n}, note.id = n.id, note.version = n.version + 1,
               noteHistory[k].note = note.id
        PROVE  noteHistory[k].version < note.version
    <3>1. /\ n.version \in Nat /\ (k # n.changed => noteHistory[k].version < n.version)
          /\ noteHistory[n.changed].version = n.version
      BY <2>3 DEF NotesInv, NoteIs
    <3> QED BY <2>1, <2>3, <3>1
  <2> QED BY <2>2, <2>3
<1> HIDE DEF c, len
<1>5. \A k \in DOMAIN noteHistory' : /\ noteHistory'[k].note \in 1..Cardinality(notes')
                                     /\ noteHistory'[k].version \in Nat
  <2> TAKE k \in DOMAIN noteHistory'
  <2>1. CASE k = len + 1
    BY <1>1, <1>3, <2>1
  <2>2. CASE k \in DOMAIN noteHistory
    <3>1. noteHistory[k].note \in 1..c /\ noteHistory[k].version \in Nat
      BY <2>2 DEF NotesInv, c
    <3> QED BY <1>1, <1>2, <1>3, <2>2, <3>1
  <2> QED BY <1>1, <2>1, <2>2
<1>6. NoteIs(note)'
  <2>1. note.changed = len + 1 /\ len + 1 \in DOMAIN noteHistory'
    BY <1>1 DEF len
  <2>2. \A k \in DOMAIN noteHistory' : k # len + 1 => k \in DOMAIN noteHistory
    BY <1>1
  <2> QED BY <1>1, <1>3, <1>4, <2>1, <2>2 DEF NoteIs
<1>7. ASSUME NEW m \in notes, m.id # note.id PROVE NoteIs(m)'
  <2>1. NoteIs(m) /\ m.id \in 1..c /\ m.changed \in DOMAIN noteHistory
    BY DEF NotesInv, NoteIs, c
  <2>2. m.id \in 1..Cardinality(notes') /\ m.changed \in DOMAIN noteHistory'
    BY <1>1, <1>2, <1>3, <2>1
  <2>3. noteHistory'[m.changed] = noteHistory[m.changed]
    BY <1>1, <2>1
  <2>4. ASSUME NEW k \in DOMAIN noteHistory', noteHistory'[k].note = m.id, k # m.changed
        PROVE  noteHistory'[k].version < m.version
    <3>1. k \in DOMAIN noteHistory
      BY <1>1, <1>7, <2>4
    <3> QED BY <1>1, <2>1, <2>4, <3>1 DEF NoteIs
  <2> QED BY <2>1, <2>2, <2>3, <2>4 DEF NoteIs
<1>8. \A m \in notes' : NoteIs(m)'
  BY <1>3, <1>6, <1>7
<1>9. \A m, n \in notes' : m.id = n.id => m = n
  BY <1>3 DEF NotesInv
<1> QED BY <1>1, <1>3, <1>5, <1>8, <1>9 DEF NotesInv

LEMMA NoteStepKeeps ==
  ASSUME NotesInv,
         \/ \E e, c : CreateNote(e, c)
         \/ \E n \in notes : DeleteNote(n) \/ \E c : UpdateNote(n, c)
  PROVE  NotesInv'
<1>1. ASSUME NEW e, NEW c, CreateNote(e, c) PROVE NotesInv'
  <2>1. PICK note : note = [id |-> Cardinality(notes) + 1, event |-> e.id, category |-> c,
                 version |-> 1, changed |-> ChangeSequence(1), deleted |-> FALSE]
    OBVIOUS
  <2>2. PICK h : h = [note |-> note.id, action |-> "created", version |-> note.version,
                      category |-> note.category]
    OBVIOUS
  <2>3. notes' = (notes \ {}) \cup {note} /\ noteHistory' = Append(noteHistory, h)
    BY <1>1, <2>1, <2>2 DEF CreateNote, Noted
  <2> QED BY <2>1, <2>2, <2>3, NoteChanges DEF ChangeSequence
<1>2. ASSUME NEW n \in notes, NEW c, UpdateNote(n, c) PROVE NotesInv'
  <2>1. PICK note : note = [n EXCEPT !.category = c, !.version = @ + 1,
                                     !.changed = ChangeSequence(n.version + 1)]
    OBVIOUS
  <2>2. n = [id |-> n.id, event |-> n.event, category |-> n.category, version |-> n.version,
             changed |-> n.changed, deleted |-> n.deleted]
    BY DEF NotesInv, NoteIs
  <2>3. note = [id |-> n.id, event |-> n.event, category |-> c, version |-> n.version + 1,
                changed |-> Len(noteHistory) + 1, deleted |-> n.deleted]
    BY <2>1, <2>2 DEF ChangeSequence
  <2>4. PICK h : h = [note |-> note.id, action |-> "updated", version |-> note.version,
                      category |-> note.category]
    OBVIOUS
  <2>5. notes' = (notes \ {n}) \cup {note} /\ noteHistory' = Append(noteHistory, h)
    BY <1>2, <2>1, <2>4 DEF UpdateNote, Noted
  <2> QED BY <2>3, <2>4, <2>5, NoteChanges
<1>3. ASSUME NEW n \in notes, DeleteNote(n) PROVE NotesInv'
  <2>1. PICK note : note = [n EXCEPT !.deleted = TRUE, !.version = @ + 1,
                                     !.changed = ChangeSequence(n.version + 1)]
    OBVIOUS
  <2>2. n = [id |-> n.id, event |-> n.event, category |-> n.category, version |-> n.version,
             changed |-> n.changed, deleted |-> n.deleted]
    BY DEF NotesInv, NoteIs
  <2>3. note = [id |-> n.id, event |-> n.event, category |-> n.category,
                version |-> n.version + 1, changed |-> Len(noteHistory) + 1, deleted |-> TRUE]
    BY <2>1, <2>2 DEF ChangeSequence
  <2>4. PICK h : h = [note |-> note.id, action |-> "deleted", version |-> note.version,
                      category |-> note.category]
    OBVIOUS
  <2>5. notes' = (notes \ {n}) \cup {note} /\ noteHistory' = Append(noteHistory, h)
    BY <1>3, <2>1, <2>4 DEF DeleteNote, Noted
  <2> QED BY <2>3, <2>4, <2>5, NoteChanges
<1> QED BY <1>1, <1>2, <1>3

LEMMA NotesShown ==
  ASSUME NotesInv, NEW e, NEW c
  PROVE  NoteIsLatest(e, c)
<1> DEFINE mine == {k \in DOMAIN noteHistory : \E n \in Standing(e) :
                        n.id = noteHistory[k].note /\ n.version = noteHistory[k].version
                        /\ n.category = c}
           S == {n \in Standing(e) : n.category = c}
<1> SUFFICES {n.id : n \in LatestOf(e, c)} = IF mine = {} THEN {} ELSE {noteHistory[Max(mine)].note}
  BY DEF NoteIsLatest
<1>1. S \subseteq notes /\ S \subseteq Standing(e)
  BY DEF Standing
<1>2. \A n \in notes : /\ n.changed \in DOMAIN noteHistory /\ noteHistory[n.changed].note = n.id
                       /\ noteHistory[n.changed].version = n.version
                       /\ n.id \in Int /\ n.version \in Nat
                       /\ \A k \in DOMAIN noteHistory :
                            noteHistory[k].note = n.id /\ noteHistory[k].version = n.version
                              => k = n.changed
  BY DEF NotesInv, NoteIs
<1>3. mine = {n.changed : n \in S}
  <2>1. ASSUME NEW n \in S PROVE n.changed \in mine
    BY <1>1, <1>2
  <2>2. ASSUME NEW k \in mine PROVE \E n \in S : k = n.changed
    <3>1. PICK n \in Standing(e) : n.id = noteHistory[k].note
                        /\ n.version = noteHistory[k].version /\ n.category = c
      OBVIOUS
    <3> QED BY <1>1, <1>2, <3>1
  <2> QED BY <2>1, <2>2
<1>4. mine \in SUBSET Int /\ IsFiniteSet(mine)
  <2>1. DOMAIN noteHistory = 1..Len(noteHistory) /\ Len(noteHistory) \in Nat
    BY DEF NotesInv, Plainly
  <2>2. IsFiniteSet(1..Len(noteHistory)) /\ mine \subseteq 1..Len(noteHistory)
    BY <2>1, FS_Interval
  <2> QED BY <2>1, <2>2, FS_Subset
<1>5. LatestOf(e, c) = {n \in S : \A m \in S : m.changed < n.changed
                                     \/ (m.changed = n.changed /\ m.id <= n.id)}
  BY DEF LatestOf
<1> HIDE DEF mine, S
<1>6. CASE mine = {}
  <2>1. S = {}
    BY <1>3, <1>6
  <2>2. LatestOf(e, c) = {}
    BY <1>5, <2>1
  <2> QED BY <1>6, <2>2
<1>7. CASE mine # {}
  <2>1. Max(mine) \in mine /\ \A k \in mine : k <= Max(mine)
    BY <1>4, <1>7, MaxIs
  <2>2. PICK n \in S : n.changed = Max(mine)
    BY <1>3, <2>1
  <2>3. ASSUME NEW m \in S
        PROVE  /\ m.changed \in Int /\ m.changed <= n.changed /\ m.id \in Int
               /\ m.changed = n.changed => m.id = n.id
    <3>1. m \in notes /\ n \in notes /\ m.changed \in mine
      BY <1>1, <1>3
    <3>2. m.id \in Int /\ noteHistory[m.changed].note = m.id /\ noteHistory[n.changed].note = n.id
      BY <1>2, <3>1
    <3> QED BY <1>4, <2>1, <2>2, <3>1, <3>2
  <2>4. n \in LatestOf(e, c)
    BY <1>5, <2>3
  <2>5. \A m \in LatestOf(e, c) : m.id = n.id
    <3> TAKE m \in LatestOf(e, c)
    <3>1. m \in S /\ (n.changed < m.changed \/ (n.changed = m.changed /\ n.id <= m.id))
      BY <1>5
    <3> QED BY <2>3, <3>1
  <2>6. noteHistory[Max(mine)].note = n.id
    BY <1>1, <1>2, <2>2
  <2>7. {m.id : m \in LatestOf(e, c)} = {n.id}
    BY <2>4, <2>5
  <2> QED BY <1>7, <2>6, <2>7
<1> QED BY <1>6, <1>7

-----------------------------------------------------------------------------
(* Inspections: the latest visit of an asset, and of one moment the last.  *)

LatestVisit(a, k) ==
  /\ inspections[k].asset = a
  /\ environment[a] = [status |-> inspections[k].status, at |-> inspections[k].at]
  /\ \A j \in DOMAIN inspections : inspections[j].asset = a =>
       \/ inspections[j].at < inspections[k].at
       \/ inspections[j].at = inspections[k].at /\ j <= k
VisitsInv ==
  /\ DOMAIN environment = AssetIds /\ Plainly(inspections)
  /\ \A k \in DOMAIN inspections : /\ inspections[k].at \in Nat \ {0}
                                   /\ inspections[k].asset \in AssetIds
  /\ \A a \in AssetIds :
       \/ environment[a].at = 0 /\ \A k \in DOMAIN inspections : inspections[k].asset # a
       \/ \E k \in DOMAIN inspections : LatestVisit(a, k)

LEMMA VisitsRest == ASSUME VisitsInv, UNCHANGED visitVars PROVE VisitsInv'
BY DEF VisitsInv, LatestVisit, visitVars, Plainly

LEMMA VisitKeeps ==
  ASSUME VisitsInv, NEW a \in AssetIds, NEW s, NEW at \in Nat \ {0}, Inspect(a, s, at)
  PROVE  VisitsInv'
<1> DEFINE len == Len(inspections)
<1>1. PICK i : i = [asset |-> a, at |-> at, status |-> s] /\ inspections' = Append(inspections, i)
  BY DEF Inspect
<1>2. i.asset = a /\ i.at = at /\ i.status = s
  BY <1>1
<1>3. /\ Plainly(inspections)' /\ DOMAIN inspections = 1..len /\ len \in Nat
      /\ DOMAIN inspections' = 1..(len + 1)
      /\ \A k \in DOMAIN inspections : inspections'[k] = inspections[k]
      /\ inspections'[len + 1] = i
  <2>1. Plainly(inspections)
    BY DEF VisitsInv
  <2>2. Plainly(Append(inspections, i))
    BY <2>1, Appended
  <2>3. Plainly(inspections)'
    BY <1>1, <2>2 DEF Plainly
  <2> QED BY <1>1, <2>1, <2>3, Appended
<1>4. /\ DOMAIN environment' = AssetIds /\ \A b \in AssetIds : b # a => environment'[b] = environment[b]
      /\ environment'[a] = IF Supersedes(a, at) THEN [status |-> s, at |-> at] ELSE environment[a]
  BY DEF Inspect, VisitsInv
<1> HIDE DEF len
<1>5. \A k \in DOMAIN inspections' : /\ inspections'[k].at \in Nat \ {0}
                                     /\ inspections'[k].asset \in AssetIds
  BY <1>2, <1>3 DEF VisitsInv
<1>6. \A k \in DOMAIN inspections' : k = len + 1 \/ (k \in DOMAIN inspections /\ k \in Nat /\ k < len + 1)
  BY <1>3
<1>7. ASSUME NEW b \in AssetIds, b # a
      PROVE  \/ environment'[b].at = 0 /\ \A k \in DOMAIN inspections' : inspections'[k].asset # b
             \/ \E k \in DOMAIN inspections' : LatestVisit(b, k)'
  <2>1. CASE environment[b].at = 0 /\ \A k \in DOMAIN inspections : inspections[k].asset # b
    BY <1>2, <1>3, <1>4, <1>6, <1>7, <2>1
  <2>2. ASSUME NEW k \in DOMAIN inspections, LatestVisit(b, k)
        PROVE  k \in DOMAIN inspections' /\ LatestVisit(b, k)'
    BY <1>2, <1>3, <1>4, <1>6, <1>7, <2>2 DEF LatestVisit
  <2> QED BY <2>1, <2>2 DEF VisitsInv
<1>8. \E k \in DOMAIN inspections' : LatestVisit(a, k)'
  <2>1. CASE Supersedes(a, at)
    <3>1. ASSUME NEW j \in DOMAIN inspections, inspections[j].asset = a
          PROVE  inspections[j].at \in Nat /\ inspections[j].at <= at
      <4>1. PICK k \in DOMAIN inspections : LatestVisit(a, k)
        BY <3>1 DEF VisitsInv
      <4>2. environment[a].at = inspections[k].at /\ inspections[k].at \in Nat \ {0}
        BY <4>1 DEF LatestVisit, VisitsInv
      <4>3. inspections[k].at <= at
        BY <2>1, <4>2 DEF Supersedes
      <4>4. inspections[j].at \in Nat /\ inspections[j].at <= inspections[k].at
        BY <3>1, <4>1 DEF LatestVisit, VisitsInv
      <4> QED BY <4>2, <4>3, <4>4
    <3>2. PICK z \in DOMAIN inspections' : z = len + 1
      BY <1>3
    <3>3. \A j \in DOMAIN inspections' : inspections'[j].asset = a =>
            inspections'[j].at < at \/ (inspections'[j].at = at /\ j <= z)
      <4> TAKE j \in DOMAIN inspections'
      <4>1. CASE j = len + 1
        BY <1>2, <1>3, <3>2, <4>1
      <4>2. CASE j \in DOMAIN inspections /\ j \in Nat /\ j < len + 1
        <5>1. inspections[j].asset = a => inspections[j].at \in Nat /\ inspections[j].at <= at
          BY <3>1, <4>2
        <5>2. j <= z
          BY <1>3, <3>2, <4>2
        <5> QED BY <1>3, <4>2, <5>1, <5>2
      <4> QED BY <1>6, <4>1, <4>2
    <3>5. inspections'[z] = i /\ environment'[a] = [status |-> s, at |-> at]
      BY <1>3, <1>4, <2>1, <3>2
    <3>4. LatestVisit(a, z)'
      BY <1>2, <3>3, <3>5 DEF LatestVisit
    <3> QED BY <3>2, <3>4
  <2>2. CASE ~Supersedes(a, at)
    <3>1. PICK k \in DOMAIN inspections : LatestVisit(a, k)
      BY <2>2 DEF Supersedes, VisitsInv
    <3>2. environment[a].at = inspections[k].at /\ inspections[k].at \in Nat
      BY <3>1 DEF LatestVisit, VisitsInv
    <3>3. at < inspections[k].at
      BY <2>2, <3>2 DEF Supersedes
    <3>4. LatestVisit(a, k)'
      BY <1>2, <1>3, <1>4, <1>6, <2>2, <3>1, <3>3 DEF LatestVisit
    <3> QED BY <1>3, <3>1, <3>4
  <2> QED BY <2>1, <2>2
<1>9. (\A b \in AssetIds :
       \/ environment[b].at = 0 /\ \A k \in DOMAIN inspections : inspections[k].asset # b
       \/ \E k \in DOMAIN inspections : LatestVisit(b, k))'
  BY <1>7, <1>8
<1> QED BY <1>3, <1>4, <1>5, <1>9 DEF VisitsInv

LEMMA VisitsShown ==
  ASSUME VisitsInv, NEW a \in {i.asset : i \in Range(inspections)}
  PROVE  VisitIsLatest(a)
<1> DEFINE mine == {k \in DOMAIN inspections : inspections[k].asset = a}
           ats == {inspections[k].at : k \in mine}
           same == {k \in mine : inspections[k].at = Max(ats)}
<1>1. \E k \in DOMAIN inspections : inspections[k].asset = a
  BY DEF Range
<1>2. PICK k \in DOMAIN inspections : LatestVisit(a, k)
  BY <1>1 DEF VisitsInv
<1>3. /\ DOMAIN inspections = 1..Len(inspections) /\ Len(inspections) \in Nat
      /\ \A j \in DOMAIN inspections : inspections[j].at \in Int
  BY DEF VisitsInv, Plainly
<1>4. /\ k \in mine /\ \A j \in mine : inspections[j].at <= inspections[k].at
      /\ \A j \in mine : inspections[j].at = inspections[k].at => j <= k
  BY <1>2, <1>3 DEF LatestVisit
<1>5. IsFiniteSet(mine) /\ mine \subseteq Int
  <2>1. IsFiniteSet(1..Len(inspections)) /\ mine \subseteq 1..Len(inspections)
    BY <1>3, FS_Interval
  <2> QED BY <1>3, <2>1, FS_Subset
<1>6. ats \in SUBSET Int /\ ats # {} /\ IsFiniteSet(ats)
  <2> DEFINE f == [j \in mine |-> inspections[j].at]
  <2>1. f \in Surjection(mine, ats)
    BY DEF Surjection
  <2>2. IsFiniteSet(ats)
    BY <1>5, <2>1, FS_Surjection
  <2>3. ats \in SUBSET Int
    BY <1>3
  <2> QED BY <1>4, <2>2, <2>3
<1>7. Max(ats) = inspections[k].at
  <2>1. inspections[k].at \in ats
    BY <1>4
  <2>2. ASSUME NEW y \in ats PROVE y <= inspections[k].at
    <3>1. PICK j \in mine : y = inspections[j].at
      OBVIOUS
    <3> HIDE DEF mine
    <3>2. \A q \in mine : inspections[q].at <= inspections[k].at
      BY <1>4
    <3> QED BY <3>1, <3>2
  <2> HIDE DEF ats
  <2> QED BY <1>6, <2>1, <2>2, MaxGiven
<1> HIDE DEF ats
<1> HIDE DEF mine
<1>8. k \in same /\ same \in SUBSET Int /\ \A j \in same : j <= k
  <2>1. same = {j \in mine : inspections[j].at = inspections[k].at}
    BY <1>7
  <2> HIDE DEF same
  <2>2. \A j \in mine : inspections[j].at = inspections[k].at => j <= k
    BY <1>4
  <2> QED BY <1>4, <1>5, <2>1, <2>2
<1> HIDE DEF same
<1>9. Max(same) = k
  BY <1>8, MaxGiven
<1>10. environment[a] = [status |-> inspections[k].status, at |-> inspections[k].at]
  BY <1>2 DEF LatestVisit
<1> QED BY <1>9, <1>10 DEF VisitIsLatest, same, ats, mine

-----------------------------------------------------------------------------
(* The records together.                                                   *)

PlaceIsTruth == \A e \in events : e.place = e.truth
RecordsIInv == RulesInv /\ PlacesInv /\ NotesInv /\ VisitsInv /\ PlaceIsTruth

LEMMA RecordsHolding == ASSUME RecordsIInv PROVE EvidenceHolds /\ LatestShown
<1>1. EvidenceHolds
  BY AppliedIs DEF RecordsIInv, EvidenceHolds, PlaceIsTruth
<1>2. NotesInv /\ VisitsInv
  BY DEF RecordsIInv
<1>3. \A e \in events, c \in Categories : NoteIsLatest(e, c)
  BY <1>2, NotesShown
<1>4. \A a \in {i.asset : i \in Range(inspections)} : VisitIsLatest(a)
  BY <1>2, VisitsShown
<1>5. LatestShown
  BY <1>3, <1>4 DEF LatestShown
<1> QED BY <1>1, <1>5

LEMMA RulesRest == ASSUME RulesInv, UNCHANGED <<rules, events>> PROVE RulesInv'
BY DEF RulesInv, RuleIs, RaisedUnder

LEMMA RecordsRest ==
  ASSUME RecordsIInv, UNCHANGED <<ruleVars, pointVars, eventRecords, noteVars, visitVars, clock>>
  PROVE  RecordsIInv'
<1>1. UNCHANGED <<rules, events, points, placed, clock>> /\ UNCHANGED noteVars
      /\ UNCHANGED visitVars
  BY DEF ruleVars, pointVars, eventRecords
<1>2. RulesInv' /\ PlacesInv' /\ NotesInv' /\ VisitsInv'
  BY <1>1, RulesRest, PlacesRest, NotesRest, VisitsRest DEF RecordsIInv
<1> QED BY <1>1, <1>2 DEF RecordsIInv, PlaceIsTruth

LEMMA RaiseKeeps ==
  ASSUME RecordsIInv, NEW a \in AssetIds, NEW at \in 1..clock, RaiseEvent(a, at)
  PROVE  RecordsIInv'
<1>1. PICK e : /\ events' = events \cup {e}
               /\ e = [id |-> Cardinality(events) + 1, asset |-> a, at |-> at,
                       version |-> rules[a].version, rule |-> Current(rules[a]),
                       place |-> PlacedAt(a, at), truth |-> Seen(a, at),
                       label |-> "needs_review", reviewed |-> FALSE]
  BY Zenon DEF RaiseEvent
<1>2. /\ e.asset = a /\ e.version = rules[a].version /\ e.rule = Current(rules[a])
      /\ e.place = PlacedAt(a, at) /\ e.truth = Seen(a, at)
  BY <1>1
<1>3. /\ UNCHANGED <<rules, points, placed, clock>> /\ UNCHANGED noteVars
      /\ UNCHANGED visitVars /\ a \in DOMAIN rules
  BY DEF RaiseEvent, ruleVars, pointVars
<1>4. PlacesInv' /\ NotesInv' /\ VisitsInv'
  BY <1>3, PlacesRest, NotesRest, VisitsRest DEF RecordsIInv
<1>5. e.place = e.truth
  BY <1>2, PlacedIsSeen DEF RecordsIInv
<1>6. RaisedUnder(e, rules[a])
  BY <1>2 DEF RaisedUnder
<1>7. RulesInv'
  BY <1>1, <1>2, <1>3, <1>6 DEF RecordsIInv, RulesInv, RuleIs, RaisedUnder
<1>8. PlaceIsTruth'
  BY <1>1, <1>5 DEF RecordsIInv, PlaceIsTruth
<1> QED BY <1>4, <1>7, <1>8 DEF RecordsIInv

LEMMA LabelKeeps ==
  ASSUME RecordsIInv, NEW e \in events, NEW label, ReviewEvent(e, label)
  PROVE  RecordsIInv'
<1>1. PICK f : f = Labeled(e, label)
  OBVIOUS
<1>2. /\ f.asset = e.asset /\ f.version = e.version /\ f.rule = e.rule
      /\ f.place = e.place /\ f.truth = e.truth
  BY <1>1 DEF Labeled
<1>3. /\ UNCHANGED <<rules, points, placed, clock>> /\ UNCHANGED noteVars
      /\ UNCHANGED visitVars /\ events' = (events \ {e}) \cup {f}
  BY <1>1 DEF ReviewEvent, ruleVars, pointVars
<1>4. PlacesInv' /\ NotesInv' /\ VisitsInv'
  BY <1>3, PlacesRest, NotesRest, VisitsRest DEF RecordsIInv
<1>5. RulesInv'
  BY <1>2, <1>3 DEF RecordsIInv, RulesInv, RuleIs, RaisedUnder
<1>6. PlaceIsTruth'
  BY <1>2, <1>3 DEF RecordsIInv, PlaceIsTruth
<1> QED BY <1>4, <1>5, <1>6 DEF RecordsIInv

LEMMA RulesKeepRecords ==
  ASSUME RecordsIInv, NEW a \in AssetIds,
         \/ \E t, h : UpdateRule(a, t, h)
         \/ \E key, value : UpdateParameter(key, value)
         \/ CreateRuledAsset(a)
  PROVE  RecordsIInv'
<1>1. RulesInv'
  BY RuleStepKeeps DEF RecordsIInv
<1>2. UNCHANGED <<events, points, placed, clock>> /\ UNCHANGED noteVars /\ UNCHANGED visitVars
  BY DEF UpdateRule, UpdateParameter, CreateRuledAsset, eventRecords, pointVars
<1>3. PlacesInv' /\ NotesInv' /\ VisitsInv'
  BY <1>2, PlacesRest, NotesRest, VisitsRest DEF RecordsIInv
<1> QED BY <1>1, <1>2, <1>3 DEF RecordsIInv, PlaceIsTruth

LEMMA DeletionKeepsRecords ==
  ASSUME RecordsIInv, NEW a \in AssetIds, NEW kept, DeleteRuledAsset(a, kept)
  PROVE  RecordsIInv'
<1>1. RulesInv' /\ PlacesInv'
  BY RuleStepKeeps, PlaceStepKeeps DEF RecordsIInv
<1>2. UNCHANGED events /\ UNCHANGED noteVars /\ UNCHANGED visitVars
  BY DEF DeleteRuledAsset, eventRecords
<1>3. NotesInv' /\ VisitsInv'
  BY <1>2, NotesRest, VisitsRest DEF RecordsIInv
<1> QED BY <1>1, <1>2, <1>3 DEF RecordsIInv, PlaceIsTruth

LEMMA PlacesKeepRecords ==
  ASSUME RecordsIInv, NEW a \in AssetIds, NEW s, Install(a, s) \/ Move(a, s)
  PROVE  RecordsIInv'
<1>1. UNCHANGED <<rules, events>> /\ UNCHANGED noteVars /\ UNCHANGED visitVars
  BY DEF Install, Move, Surveyed, ruleVars, eventRecords
<1>2. PlacesInv'
  BY PlaceStepKeeps DEF RecordsIInv
<1>3. RulesInv' /\ NotesInv' /\ VisitsInv'
  BY <1>1, RulesRest, NotesRest, VisitsRest DEF RecordsIInv
<1> QED BY <1>1, <1>2, <1>3 DEF RecordsIInv, PlaceIsTruth

LEMMA TimeKeepsRecords == ASSUME RecordsIInv, PassTime PROVE RecordsIInv'
<1>1. UNCHANGED <<rules, events>> /\ UNCHANGED noteVars /\ UNCHANGED visitVars
  BY DEF PassTime, ruleVars, eventRecords
<1>2. PlacesInv'
  BY TimeKeepsPlaces DEF RecordsIInv
<1>3. RulesInv' /\ NotesInv' /\ VisitsInv'
  BY <1>1, RulesRest, NotesRest, VisitsRest DEF RecordsIInv
<1> QED BY <1>1, <1>2, <1>3 DEF RecordsIInv, PlaceIsTruth

LEMMA NotesKeepRecords ==
  ASSUME RecordsIInv,
         \/ \E e, c : CreateNote(e, c)
         \/ \E n \in notes : DeleteNote(n) \/ \E c : UpdateNote(n, c)
  PROVE  RecordsIInv'
<1>1. UNCHANGED <<rules, events, points, placed, clock>> /\ UNCHANGED visitVars
  BY DEF CreateNote, DeleteNote, UpdateNote, Noted, ruleVars, pointVars, eventRecords
<1>2. NotesInv'
  BY NoteStepKeeps DEF RecordsIInv
<1>3. RulesInv' /\ PlacesInv' /\ VisitsInv'
  BY <1>1, RulesRest, PlacesRest, VisitsRest DEF RecordsIInv
<1> QED BY <1>1, <1>2, <1>3 DEF RecordsIInv, PlaceIsTruth

LEMMA VisitKeepsRecords ==
  ASSUME RecordsIInv, NEW a \in AssetIds, NEW s, NEW at \in 1..clock, Inspect(a, s, at)
  PROVE  RecordsIInv'
<1>1. UNCHANGED <<rules, events, points, placed, clock>> /\ UNCHANGED noteVars
  BY DEF Inspect, ruleVars, pointVars, eventRecords
<1>2. at \in Nat \ {0}
  BY DEF RecordsIInv, PlacesInv
<1>3. VisitsInv'
  BY <1>2, VisitKeeps DEF RecordsIInv
<1>4. RulesInv' /\ PlacesInv' /\ NotesInv'
  BY <1>1, RulesRest, PlacesRest, NotesRest DEF RecordsIInv
<1> QED BY <1>1, <1>3, <1>4 DEF RecordsIInv, PlaceIsTruth

LEMMA RecordsKept == ASSUME RecordsIInv, RecordsNext PROVE RecordsIInv'
<1>1. CASE \E a \in AssetIds, t \in Thresholds, h \in Hysteresis : UpdateRule(a, t, h)
  BY <1>1, RulesKeepRecords
<1>2. CASE \/ \E t \in Thresholds : UpdateParameter("threshold", t)
           \/ \E h \in Hysteresis : UpdateParameter("hysteresis", h)
  <2>1. \E key, value : UpdateParameter(key, value)
    BY <1>2
  <2>2. CASE \E a : a \in AssetIds
    BY <2>1, <2>2, RulesKeepRecords
  <2>3. CASE AssetIds = {}
    <3>1. /\ UNCHANGED <<events, points, placed, clock>> /\ UNCHANGED noteVars
          /\ UNCHANGED visitVars /\ DOMAIN rules' = DOMAIN rules
      BY <2>1 DEF UpdateParameter, eventRecords, pointVars
    <3>2. DOMAIN rules = {} /\ events = {}
      BY <2>3 DEF RecordsIInv, RulesInv
    <3>3. RulesInv'
      BY <3>1, <3>2 DEF RulesInv
    <3>4. PlacesInv' /\ NotesInv' /\ VisitsInv'
      BY <3>1, PlacesRest, NotesRest, VisitsRest DEF RecordsIInv
    <3> QED BY <3>1, <3>3, <3>4 DEF RecordsIInv, PlaceIsTruth
  <2> QED BY <2>2, <2>3
<1>3. CASE \E a \in AssetIds : CreateRuledAsset(a)
  BY <1>3, RulesKeepRecords
<1>4. CASE \E a \in AssetIds, s \in {"north", "inactive"} : Install(a, s) \/ Move(a, s)
  BY <1>4, PlacesKeepRecords
<1>5. CASE \E a \in AssetIds, at \in 1..clock : RaiseEvent(a, at)
  BY <1>5, RaiseKeeps
<1>6. CASE \E e \in events, label \in Labels : ReviewEvent(e, label)
  BY <1>6, LabelKeeps
<1>7. CASE \/ \E e \in events, c \in Categories : CreateNote(e, c)
           \/ \E n \in notes, c \in Categories : UpdateNote(n, c)
           \/ \E n \in notes : DeleteNote(n)
  BY <1>7, NotesKeepRecords
<1>8. CASE \E a \in AssetIds, s \in Severities, at \in 1..clock : Inspect(a, s, at)
  BY <1>8, VisitKeepsRecords
<1> QED BY <1>1, <1>2, <1>3, <1>4, <1>5, <1>6, <1>7, <1>8, TimeKeepsRecords DEF RecordsNext

LEMMA GovernanceKeepsRecords == ASSUME RecordsIInv, [HandoffNext]_allVars PROVE RecordsIInv'
<1>1. CASE RecordsNext
  BY <1>1, RecordsKept
<1>2. CASE DatasetSteps
  <2>1. UNCHANGED <<ruleVars, pointVars, eventRecords, noteVars, visitVars, clock>>
    BY <1>2 DEF DatasetSteps, MeasurePoint, ForgetPoint, UpdateTaxonomy, CreateDataset
  <2> QED BY <2>1, RecordsRest
<1>3. CASE \E a \in AssetIds : DropAsset(a)
  BY <1>3, DeletionKeepsRecords DEF DropAsset
<1>4. CASE HandoffSteps /\ ~\E a \in AssetIds : DropAsset(a)
  <2>1. UNCHANGED <<ruleVars, pointVars, eventRecords, noteVars, visitVars, clock>>
    BY ZenonT(60), <1>4 DEF HandoffSteps, CreateBaseline, RegisterByHand, SubmitResult, OpenModel,
                ReviewModel, HandoffRest
  <2> QED BY <2>1, RecordsRest
<1>5. CASE UNCHANGED allVars
  <2>1. UNCHANGED <<ruleVars, pointVars, eventRecords, noteVars, visitVars, clock>>
    BY <1>5 DEF allVars, governedVars, recordVars
  <2> QED BY <2>1, RecordsRest
<1> QED BY <1>1, <1>2, <1>3, <1>4, <1>5 DEF HandoffNext, DatasetsNext

LEMMA RecordsStart == HandoffInit => RecordsIInv
<1> SUFFICES ASSUME RecordsInit PROVE RecordsIInv
  BY DEF HandoffInit, DatasetsInit
<1>1. Plainly(<< >>) /\ Len(<< >>) = 0 /\ DOMAIN << >> = {}
  BY DEF Plainly
<1>2. RulesInv
  <2>1. RuleIs(NewRule(parameters))
    BY <1>1 DEF RuleIs, NewRule
  <2>2. PICK as \in SUBSET AssetIds : rules = [a \in as |-> NewRule(parameters)]
    BY DEF RecordsInit
  <2> QED BY <2>1, <2>2 DEF RulesInv, RecordsInit
<1>3. PlacesInv
  BY DEF PlacesInv, RecordsInit
<1>4. NotesInv
  <2>1. notes = {} /\ noteHistory = << >> /\ IsFiniteSet(notes)
    BY FS_EmptySet DEF RecordsInit
  <2> QED BY <1>1, <2>1 DEF NotesInv
<1>5. VisitsInv
  BY <1>1 DEF VisitsInv, RecordsInit
<1>6. PlaceIsTruth
  BY DEF PlaceIsTruth, RecordsInit
<1> QED BY <1>2, <1>3, <1>4, <1>5, <1>6 DEF RecordsIInv

LEMMA RecordsInvariance == GovernanceSpec => []RecordsIInv
<1> QED BY RecordsStart, GovernanceKeepsRecords, PTL DEF GovernanceSpec

\* What an event was raised on stays true, and the notes and inspections shown are the
\* latest: for any assets, rules, places and times of report.
THEOREM RecordsTellTheTruth == GovernanceSpec => []RecordsHold
<1>1. RecordsIInv => RecordsHold
  BY RecordsHolding DEF RecordsHold
<1> QED BY <1>1, RecordsInvariance, PTL

(* Raw windows: what the tables of windows hold.                           *)

Modes == {"legacy", "priority", "replay"}
Sent(w, mode) == \E b \in Batches : b.mode = mode /\ w \in Range(b.windows)
RowIs(r) ==
  /\ r = [n |-> r.n, w |-> r.w, mode |-> r.mode, status |-> r.status, lane |-> r.lane,
          gap |-> r.gap, verdicts |-> r.verdicts, model |-> r.model]
  /\ r.n \in Nat /\ r.w \in Windows /\ r.mode \in Modes
  /\ r.status \in {"queued", "completed", "unavailable"}
  /\ Sent(r.w, r.mode)

(* A table of windows: rows are found by number and by what was measured,  *)
(* and each stream has seen the newest of its rows.                        *)
TableIs(table, ends, next) ==
  /\ IsFiniteSet(table) /\ next \in Nat
  /\ \A r \in table : /\ RowIs(r) /\ r.n < next
                      /\ r.w.idx <= ends[r.w.boot].idx /\ ends[r.w.boot].asset # NoRow
  /\ \A q, r \in table : q.n = r.n \/ SameKey(q, r.w) => q = r
StreamsAre(ends) ==
  /\ ends = [b \in DOMAIN BootTime |-> [idx |-> ends[b].idx, asset |-> ends[b].asset]]
  /\ \A b \in DOMAIN BootTime : /\ ends[b].idx \in Int /\ ends[b].idx >= -1
                                /\ ends[b].asset = NoRow => ends[b].idx = -1

(* The worker holds a queued row, the oldest of a boot that delivers        *)
(* without metadata.                                                       *)
PickedIs ==
  picked # NoRow =>
    /\ picked \in rows /\ picked.status = "queued"
    /\ \A r \in rows : r # picked /\ r.status = "queued" /\ r.w.boot = picked.w.boot
         /\ r.mode = "legacy" /\ picked.mode = "legacy" => r.w.idx > picked.w.idx
WindowsInv ==
  /\ TableIs(rows, streams, ordinal) /\ StreamsAre(streams) /\ PickedIs
  /\ time \in Nat /\ model \in {1, 2}
  /\ acked \subseteq stored /\ stored \subseteq Windows
  /\ \A r \in rows : r.w \in stored
  /\ \A w \in acked : (\E r \in rows : r.w = w) \/ At(w) + WindowRetention < time

-----------------------------------------------------------------------------
(* Chains of verdicts are those of windows measured one after the other.   *)

Consecutive(boot, idx, a, seq) ==
  /\ seq \in Seq({w.verdict : w \in Windows})
  /\ \A k \in DOMAIN seq : Measured(boot, idx - Len(seq) + k, seq[k], a)
ChainInv == \A r \in rows : Consecutive(r.w.boot, r.w.idx, r.w.asset, r.verdicts)

-----------------------------------------------------------------------------
(* Incidents.                                                              *)

LifeIs ==
  /\ lifecycle = [active |-> lifecycle.active, boot |-> lifecycle.boot, idx |-> lifecycle.idx,
                  asset |-> lifecycle.asset, model |-> lifecycle.model, at |-> lifecycle.at,
                  hits |-> lifecycle.hits]
  /\ lifecycle.at \in Int
  /\ Consecutive(lifecycle.boot, lifecycle.idx, lifecycle.asset, lifecycle.hits)

(* An incident is named for the window it began with, which is not analysed *)
(* again; the one that is open is the one windows are compared with.        *)
CoreIs(i) ==
  /\ i = [id |-> i.id, asset |-> i.asset, model |-> i.model, from |-> i.from,
          status |-> i.status, until |-> i.until, observed |-> i.observed, rev |-> i.rev,
          projected |-> i.projected]
  /\ i.from \in Windows /\ i.model \in {1, 2}
  /\ i.id = IncidentId(i.from, i.model) /\ i.asset = i.from.asset
  /\ i.status \in {"open", "closed"} /\ ThreeOf(i.from, "high")
  /\ i.until # NoRow => /\ i.status = "closed" /\ ThreeOf(i.until, "low")
                        /\ i.until.asset = i.asset
  /\ i.rev \in Nat /\ i.projected \in Nat /\ i.projected <= i.rev
PastIs(i) ==
  /\ i.from.idx <= streams[i.from.boot].idx
  /\ \A r \in rows : SameKey(r, i.from) /\ r.mode # "replay" => r.status # "queued"
IncidentIs(i) == CoreIs(i) /\ PastIs(i) /\ (i.status = "open" <=> lifecycle.active = i.id)
IncidentsInv ==
  /\ LifeIs
  /\ \A i \in incidents : IncidentIs(i)
  /\ \A i, j \in incidents : i.id = j.id => i = j

(* Times: what is applied is not older than what was, so the low windows in *)
(* the chain of an open incident come after it began.                      *)
LowsLater(t, at, seq) ==
  \A k \in DOMAIN seq : seq[k] = "low" => t < at - Len(seq) + k
LifeTimes ==
  lifecycle.asset # NoRow =>
    /\ \E w \in Windows : /\ w.boot = lifecycle.boot /\ w.idx = lifecycle.idx
                          /\ lifecycle.at = At(w) /\ w.idx <= streams[w.boot].idx
    /\ \A r \in rows : r.mode = "legacy" /\ r.status = "queued" /\ r.w.boot = lifecycle.boot
         => lifecycle.idx < r.w.idx
BeganBefore(i) ==
  /\ i.status = "open" => /\ lifecycle.asset # NoRow /\ At(i.from) <= lifecycle.at
                          /\ LowsLater(At(i.from), lifecycle.at, lifecycle.hits)
  /\ i.until # NoRow => At(i.until) > At(i.from) + 2
TimesInv == LegacyIsLast => LifeTimes /\ \A i \in incidents : BeganBefore(i)

-----------------------------------------------------------------------------
(* What operators see.                                                     *)

(* A copy of an incident is of now or before; of now, it is the same.      *)
CopyOf(c, i) ==
  /\ c.id = i.id /\ c.rev \in Nat /\ c.rev <= i.rev /\ (c.rev = i.rev => c.status = i.status)
  /\ c.status = "closed" => i.status = "closed"
Shows(e, i) == e.inc.id = i.id /\ e.inc.rev = i.rev /\ e.inc.status = i.status
ViewInv ==
  /\ \A c \in copied : \E i \in incidents : CopyOf(c, i)
  /\ \A c, d \in copied : c.id = d.id => c = d
  /\ \A e \in view : /\ e = [inc |-> e.inc, reviewed |-> e.reviewed] /\ e.reviewed \in BOOLEAN
                     /\ \E i \in incidents : CopyOf(e.inc, i)
  /\ \A e, f \in view : e.inc.id = f.inc.id => e = f
  /\ \A e \in view, c \in copied : e.inc.id = c.id =>
       /\ c.rev >= e.inc.rev /\ e.inc.status = "closed" => c.status = "closed"
       /\ c.rev = e.inc.rev => c.status = e.inc.status
  /\ marking # NoRow => /\ \E i \in incidents : CopyOf(marking, i)
                        /\ \E e \in view : e.inc.id = marking.id /\ e.inc.rev >= marking.rev
  /\ \A i \in incidents : i.projected = i.rev => \E e \in view : Shows(e, i)

RawIInv == WindowsInv /\ ChainInv /\ IncidentsInv /\ TimesInv /\ ViewInv

-----------------------------------------------------------------------------
(* A batch, window by window.                                              *)

Begun == [ok |-> TRUE, rows |-> Unexpired(rows), streams |-> streams, ordinal |-> ordinal]
StepsOf(f, b, n) ==
  f = [k \in 0..n |-> IF k = 0 THEN Begun ELSE StoreWindow(f[k - 1], b.windows[k], b.mode)]

LEMMA StepsExist == ASSUME NEW b, NEW n \in Nat PROVE \E f : StepsOf(f, b, n)
<1> DEFINE T == {m \in Nat : \E f : StepsOf(f, b, m)}
<1>1. 0 \in T
  <2> DEFINE f == [k \in 0..0 |-> Begun]
  <2>1. \A k \in 0..0 : k = 0
    OBVIOUS
  <2>2. StepsOf(f, b, 0)
    BY <2>1 DEF StepsOf
  <2> QED BY <2>2
<1>2. ASSUME NEW m \in T PROVE m + 1 \in T
  <2>1. PICK f : StepsOf(f, b, m)
    OBVIOUS
  <2>2. PICK g : g = [k \in 0..(m + 1) |-> IF k <= m THEN f[k]
                                           ELSE StoreWindow(f[m], b.windows[m + 1], b.mode)]
    OBVIOUS
  <2>3. ASSUME NEW k \in 0..(m + 1)
        PROVE  g[k] = IF k = 0 THEN Begun ELSE StoreWindow(g[k - 1], b.windows[k], b.mode)
    <3>1. CASE k <= m
      <4>1. k \in 0..m /\ g[k] = f[k] /\ (k # 0 => k - 1 \in 0..(m + 1) /\ k - 1 <= m)
        BY <2>2, <3>1
      <4>2. f[k] = IF k = 0 THEN Begun ELSE StoreWindow(f[k - 1], b.windows[k], b.mode)
        BY <2>1, <4>1 DEF StepsOf
      <4>3. k # 0 => g[k - 1] = f[k - 1]
        BY <2>2, <4>1
      <4> QED BY <4>1, <4>2, <4>3
    <3>2. CASE k = m + 1
      <4>1. m \in 0..(m + 1) /\ k - 1 = m /\ k # 0 /\ ~(k <= m) /\ m <= m
        BY <3>2
      <4>2. g[m] = f[m] /\ g[k] = StoreWindow(f[m], b.windows[m + 1], b.mode)
        BY <2>2, <4>1
      <4> QED BY <3>2, <4>1, <4>2
    <3> QED BY <3>1, <3>2
  <2>4. StepsOf(g, b, m + 1)
    BY <2>2, <2>3 DEF StepsOf
  <2> QED BY <2>4
<1> HIDE DEF T
<1>3. T = Nat
  <2>1. T \subseteq Nat
    BY DEF T
  <2> QED BY <1>1, <1>2, <2>1, AllNaturals
<1> QED BY <1>3 DEF T

LEMMA BatchedIs ==
  ASSUME NEW b \in Batches
  PROVE  /\ Len(b.windows) \in Nat
         /\ \E f : StepsOf(f, b, Len(b.windows)) /\ Batched(b) = f[Len(b.windows)]
<1> DEFINE n == Len(b.windows)
           after == CHOOSE f : StepsOf(f, b, n)
<1>1. n \in Nat
  BY RawConstants
<1>2. StepsOf(after, b, n)
  BY <1>1, StepsExist
<1>3. Batched(b) = after[n]
  BY DEF Batched, StepsOf, Begun
<1> QED BY <1>1, <1>2, <1>3

(* What a batch has done so far, if no window of it was refused.           *)
Sofar(s, b, k) ==
  s.ok =>
    /\ TableIs(s.rows, s.streams, s.ordinal) /\ StreamsAre(s.streams)
    /\ Unexpired(rows) \subseteq s.rows
    /\ \A r \in s.rows \ Unexpired(rows) :
         /\ r.status = "queued" /\ r.verdicts = <<>> /\ r.w \in Range(b.windows) /\ r.mode = b.mode
         /\ b.mode # "replay" => r.w.idx > streams[r.w.boot].idx
    /\ \A boot \in DOMAIN BootTime : s.streams[boot].idx >= streams[boot].idx
    /\ \A j \in 1..k : \E r \in s.rows : r.w = b.windows[j]
StateIs(s) ==
  \/ s = Failed
  \/ s = [ok |-> TRUE, rows |-> s.rows, streams |-> s.streams, ordinal |-> s.ordinal]

NewRow(s, w, mode) ==
  [n |-> s.ordinal, w |-> w, mode |-> mode, status |-> "queued", lane |-> "none",
   gap |-> w.idx > s.streams[w.boot].idx + 1, verdicts |-> <<>>, model |-> 0]

LEMMA InsertIs ==
  ASSUME NEW s, s = [ok |-> TRUE, rows |-> s.rows, streams |-> s.streams, ordinal |-> s.ordinal],
         NEW w, NEW mode
  PROVE  LET t == Insert(s, w, mode) IN
         /\ t = [ok |-> TRUE, rows |-> t.rows, streams |-> t.streams, ordinal |-> t.ordinal]
         /\ t.ok /\ t.rows = s.rows \cup {NewRow(s, w, mode)} /\ t.ordinal = s.ordinal + 1
         /\ t.streams = [s.streams EXCEPT ![w.boot] =
              IF w.idx > s.streams[w.boot].idx THEN [idx |-> w.idx, asset |-> w.asset] ELSE @]
<1> DEFINE row == NewRow(s, w, mode)
           ends == [s.streams EXCEPT ![w.boot] =
              IF w.idx > s.streams[w.boot].idx THEN [idx |-> w.idx, asset |-> w.asset] ELSE @]
<1>1. Insert(s, w, mode) = [s EXCEPT !.rows = @ \cup {row}, !.ordinal = @ + 1,
                !.streams[w.boot] = IF w.idx > s.streams[w.boot].idx
                                    THEN [idx |-> w.idx, asset |-> w.asset] ELSE @]
  BY DEF Insert, NewRow
<1>2. Insert(s, w, mode) = [s EXCEPT !.rows = s.rows \cup {row}, !.ordinal = s.ordinal + 1,
                                     !.streams = ends]
  BY <1>1
<1> HIDE DEF row, ends
<1>3. PICK x, y, z : x = s.rows /\ y = s.streams /\ z = s.ordinal
  OBVIOUS
<1>4. s = [ok |-> TRUE, rows |-> x, streams |-> y, ordinal |-> z]
  BY <1>3
<1>5. PICK t : t = [s EXCEPT !.rows = x \cup {row}, !.ordinal = z + 1, !.streams = ends]
  OBVIOUS
<1>6. t = [ok |-> TRUE, rows |-> x \cup {row}, streams |-> ends, ordinal |-> z + 1]
  BY <1>4, <1>5
<1>7. t = Insert(s, w, mode)
  BY <1>2, <1>3, <1>5
<1>8. /\ t = [ok |-> TRUE, rows |-> t.rows, streams |-> t.streams, ordinal |-> t.ordinal]
      /\ t.ok /\ t.rows = s.rows \cup {row} /\ t.ordinal = s.ordinal + 1 /\ t.streams = ends
  BY <1>3, <1>6
<1> QED BY <1>7, <1>8 DEF row, ends

LEMMA InsertStep ==
  ASSUME WindowsInv, NEW b \in Batches, NEW s, NEW k \in Nat, NEW w \in Range(b.windows),
         s = [ok |-> TRUE, rows |-> s.rows, streams |-> s.streams, ordinal |-> s.ordinal],
         Sofar(s, b, k), InOrder(s, w, b.mode), ~\E r \in s.rows : SameKey(r, w)
  PROVE  LET t == Insert(s, w, b.mode) IN
         /\ StateIs(t) /\ Sofar(t, b, k) /\ \E r \in t.rows : r.w = w
<1>0. PICK t : /\ t = Insert(s, w, b.mode)
               /\ t = [ok |-> TRUE, rows |-> t.rows, streams |-> t.streams, ordinal |-> t.ordinal]
               /\ t.ok /\ t.rows = s.rows \cup {NewRow(s, w, b.mode)} /\ t.ordinal = s.ordinal + 1
               /\ t.streams = [s.streams EXCEPT ![w.boot] =
                    IF w.idx > s.streams[w.boot].idx THEN [idx |-> w.idx, asset |-> w.asset]
                    ELSE @]
  BY InsertIs
<1> DEFINE row == NewRow(s, w, b.mode)
           boot == w.boot
<1>1. /\ t = [ok |-> TRUE, rows |-> t.rows, streams |-> t.streams, ordinal |-> t.ordinal]
      /\ t.ok /\ t.rows = s.rows \cup {row} /\ t.ordinal = s.ordinal + 1
      /\ t.streams = [s.streams EXCEPT ![w.boot] =
              IF w.idx > s.streams[w.boot].idx THEN [idx |-> w.idx, asset |-> w.asset] ELSE @]
  BY <1>0
<1>2. /\ s.ok /\ TableIs(s.rows, s.streams, s.ordinal) /\ StreamsAre(s.streams)
      /\ Unexpired(rows) \subseteq s.rows /\ s.ordinal \in Nat
  BY DEF Sofar, TableIs
<1>3. w \in Windows /\ boot \in DOMAIN BootTime /\ w.idx \in Nat /\ w.asset # NoRow
      /\ b.mode \in Modes
  BY RawConstants DEF Windows, Modes
<1>4. /\ DOMAIN s.streams = DOMAIN BootTime /\ DOMAIN t.streams = DOMAIN BootTime
      /\ \A q \in DOMAIN BootTime : s.streams[q] = [idx |-> s.streams[q].idx, asset |-> s.streams[q].asset]
      /\ s.streams[boot].idx \in Int /\ s.streams[boot].idx >= -1
      /\ s.streams[boot].asset = NoRow => s.streams[boot].idx = -1
  BY <1>1, <1>2, <1>3 DEF StreamsAre
<1>5. \A q \in DOMAIN BootTime : q # boot => t.streams[q] = s.streams[q]
  BY <1>1, <1>4
<1>6. t.streams[boot] = IF w.idx > s.streams[boot].idx THEN [idx |-> w.idx, asset |-> w.asset]
                        ELSE s.streams[boot]
  BY <1>1, <1>3, <1>4
<1>7. /\ t.streams[boot].idx >= s.streams[boot].idx /\ t.streams[boot].idx >= w.idx
      /\ t.streams[boot].idx \in Int /\ t.streams[boot].idx >= -1 /\ t.streams[boot].asset # NoRow
      /\ t.streams[boot] = [idx |-> t.streams[boot].idx, asset |-> t.streams[boot].asset]
  <2>1. CASE w.idx > s.streams[boot].idx
    BY <1>3, <1>4, <1>6, <2>1
  <2>2. CASE ~(w.idx > s.streams[boot].idx)
    BY <1>3, <1>4, <1>6, <2>2
  <2> QED BY <2>1, <2>2
<1>8. StreamsAre(t.streams)
  <2>1. ASSUME NEW q \in DOMAIN BootTime
        PROVE  /\ t.streams[q] = [idx |-> t.streams[q].idx, asset |-> t.streams[q].asset]
               /\ t.streams[q].idx \in Int /\ t.streams[q].idx >= -1
               /\ t.streams[q].asset = NoRow => t.streams[q].idx = -1
    BY <1>2, <1>4, <1>5, <1>7 DEF StreamsAre
  <2>2. t.streams = [q \in DOMAIN BootTime |-> [idx |-> t.streams[q].idx, asset |-> t.streams[q].asset]]
    <3>1. t.streams = [q \in DOMAIN BootTime |-> t.streams[q]]
      BY <1>1, <1>4
    <3> QED BY <2>1, <3>1
  <2> QED BY <2>1, <2>2 DEF StreamsAre
<1>9. \A q \in DOMAIN BootTime : t.streams[q].idx >= s.streams[q].idx
                                 /\ (s.streams[q].asset # NoRow => t.streams[q].asset # NoRow)
  BY <1>2, <1>5, <1>7 DEF StreamsAre
<1>10. /\ row.n = s.ordinal /\ row.w = w /\ row.mode = b.mode /\ row.status = "queued"
       /\ row.verdicts = <<>> /\ RowIs(row)
  BY <1>2, <1>3 DEF NewRow, RowIs, Sent
<1> HIDE DEF row
<1>11. \A r \in s.rows : r.w.boot \in DOMAIN BootTime /\ r.w.idx \in Nat /\ r.n \in Nat
  <2> TAKE r \in s.rows
  <2>1. r.w \in Windows /\ r.n \in Nat
    BY <1>2 DEF TableIs, RowIs
  <2> QED BY <2>1, RawConstants
<1>12. TableIs(t.rows, t.streams, t.ordinal)
  <2>1. IsFiniteSet(t.rows) /\ t.ordinal \in Nat
    BY <1>1, <1>2, FS_AddElement DEF TableIs
  <2>2. ASSUME NEW r \in t.rows
        PROVE  /\ RowIs(r) /\ r.n < t.ordinal
               /\ r.w.idx <= t.streams[r.w.boot].idx /\ t.streams[r.w.boot].asset # NoRow
    <3>1. CASE r = row
      BY <3>1, <1>1, <1>2, <1>7, <1>10
    <3>2. CASE r \in s.rows
      <4>1. /\ RowIs(r) /\ r.n < s.ordinal /\ r.w.idx <= s.streams[r.w.boot].idx
            /\ s.streams[r.w.boot].asset # NoRow
        BY <3>2, <1>2 DEF TableIs
      <4>2. /\ r.w.boot \in DOMAIN BootTime /\ r.w.idx \in Nat /\ r.n \in Nat
            /\ s.streams[r.w.boot].idx \in Int /\ t.streams[r.w.boot].idx \in Int
        BY <3>2, <1>2, <1>8, <1>11 DEF StreamsAre
      <4>3. r.n < t.ordinal
        BY <1>1, <1>2, <4>1, <4>2
      <4>4. r.w.idx <= t.streams[r.w.boot].idx
        BY <1>9, <4>1, <4>2
      <4> QED BY <1>9, <4>1, <4>2, <4>3, <4>4
    <3> QED BY <1>1, <3>1, <3>2
  <2>3. ASSUME NEW q \in t.rows, NEW r \in t.rows, q.n = r.n \/ SameKey(q, r.w)
        PROVE  q = r
    <3>1. CASE q \in s.rows /\ r \in s.rows
      BY <1>2, <2>3, <3>1 DEF TableIs
    <3>2. CASE q = row /\ r \in s.rows
      <4>1. r.n < s.ordinal /\ r.n \in Nat
        BY <3>2, <1>2, <1>11 DEF TableIs
      <4>2. ~SameKey(r, w)
        BY <3>2
      <4> QED BY <1>2, <1>10, <2>3, <3>2, <4>1, <4>2 DEF SameKey
    <3>3. CASE r = row /\ q \in s.rows
      <4>1. q.n < s.ordinal /\ q.n \in Nat
        BY <3>3, <1>2, <1>11 DEF TableIs
      <4>2. ~SameKey(q, w)
        BY <3>3
      <4> QED BY <1>2, <1>10, <2>3, <3>3, <4>1, <4>2
    <3> QED BY <1>1, <3>1, <3>2, <3>3
  <2> QED BY <2>1, <2>2, <2>3 DEF TableIs
<1>13. \A q \in DOMAIN BootTime : t.streams[q].idx >= streams[q].idx
  <2> TAKE q \in DOMAIN BootTime
  <2>1. /\ t.streams[q].idx >= s.streams[q].idx /\ s.streams[q].idx >= streams[q].idx
        /\ t.streams[q].idx \in Int /\ s.streams[q].idx \in Int /\ streams[q].idx \in Int
    BY <1>2, <1>8, <1>9 DEF Sofar, StreamsAre, WindowsInv
  <2> QED BY <2>1
<1>14. b.mode # "replay" => w.idx > streams[boot].idx
  <2>1. /\ s.streams[boot].idx >= streams[boot].idx /\ streams[boot].idx \in Int
    BY <1>2, <1>3 DEF Sofar, StreamsAre, WindowsInv
  <2>2. b.mode # "replay" => w.idx > s.streams[boot].idx
    BY <1>3, <1>4 DEF InOrder
  <2> QED BY <1>3, <1>4, <2>1, <2>2
<1>15. Sofar(t, b, k)
  <2>1. ASSUME NEW r \in t.rows \ Unexpired(rows)
        PROVE  /\ r.status = "queued" /\ r.verdicts = <<>> /\ r.w \in Range(b.windows)
               /\ r.mode = b.mode /\ (b.mode # "replay" => r.w.idx > streams[r.w.boot].idx)
    BY <1>1, <1>2, <1>10, <1>14 DEF Sofar
  <2>2. \A j \in 1..k : \E r \in t.rows : r.w = b.windows[j]
    BY <1>1, <1>2 DEF Sofar
  <2>3. Unexpired(rows) \subseteq t.rows
    BY <1>1, <1>2
  <2> QED BY <1>8, <1>12, <1>13, <2>1, <2>2, <2>3 DEF Sofar
<1>16. StateIs(t) /\ \E r \in t.rows : r.w = w
  BY <1>1, <1>10 DEF StateIs
<1> QED BY <1>0, <1>15, <1>16

LEMMA WindowStep ==
  ASSUME WindowsInv, NEW b \in Batches, NEW s, StateIs(s), NEW k \in Nat, Sofar(s, b, k),
         b.windows[k + 1] \in Range(b.windows)
  PROVE  LET t == StoreWindow(s, b.windows[k + 1], b.mode) IN StateIs(t) /\ Sofar(t, b, k + 1)
<1> DEFINE w == b.windows[k + 1]
<1>1. PICK t : t = StoreWindow(s, w, b.mode)
  OBVIOUS
<1> SUFFICES StateIs(t) /\ Sofar(t, b, k + 1)
  BY <1>1
<1>2. Failed.ok = FALSE /\ StateIs(Failed)
  BY DEF Failed, StateIs
<1>3. CASE t = Failed
  BY <1>2, <1>3 DEF Sofar
<1>4. \A j \in 1..(k + 1) : j \in 1..k \/ j = k + 1
  OBVIOUS
<1>5. ASSUME Sofar(t, b, k), StateIs(t), \E r \in t.rows : r.w = w
      PROVE  StateIs(t) /\ Sofar(t, b, k + 1)
  BY <1>4, <1>5 DEF Sofar
<1>6. CASE t = s /\ s.ok /\ \E r \in s.rows : r.w = w
  BY <1>5, <1>6
<1>7. CASE /\ t = Insert(s, w, b.mode) /\ s.ok /\ InOrder(s, w, b.mode)
           /\ ~\E r \in s.rows : SameKey(r, w) /\ r.w # w
           /\ ~\E r \in s.rows : r.w = w
  <2>1. ~\E r \in s.rows : SameKey(r, w)
    BY <1>7
  <2>2. s = [ok |-> TRUE, rows |-> s.rows, streams |-> s.streams, ordinal |-> s.ordinal]
    BY <1>2, <1>7 DEF StateIs
  <2>3. StateIs(t) /\ Sofar(t, b, k) /\ \E r \in t.rows : r.w = w
    BY <1>7, <2>1, <2>2, InsertStep
  <2> QED BY <1>5, <2>3
<1>8. CASE ~s.ok
  <2>1. s = Failed
    BY <1>8 DEF StateIs
  <2> QED BY <1>1, <1>2, <1>3, <1>8, <2>1 DEF StoreWindow
<1> QED BY <1>1, <1>3, <1>6, <1>7, <1>8 DEF StoreWindow

LEMMA KeptTable ==
  ASSUME WindowsInv PROVE TableIs(Unexpired(rows), streams, ordinal) /\ Unexpired(rows) \subseteq rows
<1>1. Unexpired(rows) \subseteq rows
  BY DEF Unexpired
<1>2. IsFiniteSet(Unexpired(rows))
  BY <1>1, FS_Subset DEF WindowsInv, TableIs
<1> QED BY <1>1, <1>2 DEF WindowsInv, TableIs

LEMMA BatchDone ==
  ASSUME WindowsInv, NEW b \in Batches
  PROVE  StateIs(Batched(b)) /\ Sofar(Batched(b), b, Len(b.windows))
<1> DEFINE n == Len(b.windows)
<1>1. n \in Nat /\ \E f : StepsOf(f, b, n) /\ Batched(b) = f[n]
  BY BatchedIs
<1>2. PICK f : StepsOf(f, b, n) /\ Batched(b) = f[n]
  BY <1>1
<1>3. \A k \in 0..n : f[k] = IF k = 0 THEN Begun ELSE StoreWindow(f[k - 1], b.windows[k], b.mode)
  BY <1>2 DEF StepsOf
<1> DEFINE T == {k \in Nat : k <= n => StateIs(f[k]) /\ Sofar(f[k], b, k)}
<1>4. 0 \in T
  <2>1. 0 \in 0..n /\ f[0] = Begun
    BY <1>1, <1>3
  <2>2. /\ Begun.ok /\ Begun.rows = Unexpired(rows) /\ Begun.streams = streams
        /\ Begun.ordinal = ordinal /\ StateIs(Begun)
    BY DEF Begun, StateIs
  <2>3. \A q \in DOMAIN BootTime : streams[q].idx >= streams[q].idx
    BY DEF WindowsInv, StreamsAre
  <2>4. 1..0 = {}
    OBVIOUS
  <2>5. Sofar(Begun, b, 0)
    BY <2>2, <2>3, <2>4, KeptTable DEF Sofar, WindowsInv
  <2> QED BY <2>1, <2>2, <2>5
<1>5. ASSUME NEW k \in T PROVE k + 1 \in T
  <2>1. k \in Nat /\ k + 1 \in Nat
    OBVIOUS
  <2>2. SUFFICES ASSUME k + 1 <= n PROVE StateIs(f[k + 1]) /\ Sofar(f[k + 1], b, k + 1)
    BY <2>1
  <2>3. StateIs(f[k]) /\ Sofar(f[k], b, k)
    BY <1>1, <2>1, <2>2
  <2>4. k + 1 \in 0..n /\ k + 1 # 0 /\ (k + 1) - 1 = k /\ k + 1 \in 1..n
    BY <1>1, <2>1, <2>2
  <2>5. f[k + 1] = StoreWindow(f[k], b.windows[k + 1], b.mode)
    BY <1>3, <2>4
  <2>6. DOMAIN b.windows = 1..n
    BY RawConstants
  <2>7. b.windows[k + 1] \in Range(b.windows)
    BY <2>4, <2>6 DEF Range
  <2> QED BY <2>1, <2>3, <2>5, <2>7, WindowStep
<1> HIDE DEF T
<1>6. T = Nat
  <2>1. T \subseteq Nat
    BY DEF T
  <2> QED BY <1>4, <1>5, <2>1, AllNaturals
<1>7. StateIs(f[n]) /\ Sofar(f[n], b, n)
  BY <1>1, <1>6 DEF T
<1> QED BY <1>2, <1>7

-----------------------------------------------------------------------------
(* Rows are taken in, kept while they are due, and analysed once.          *)

LEMMA TimesOfWindows ==
  ASSUME NEW w \in Windows
  PROVE  At(w) \in Int /\ w.boot \in DOMAIN BootTime /\ w.idx \in Nat /\ w.asset # NoRow
BY RawConstants DEF At

LEMMA PickedStays ==
  ASSUME WindowsInv, picked' = picked,
         \A r \in rows : r.status = "queued" => r \in rows',
         \A r \in rows' \ rows :
           /\ r.w \in Windows /\ r.mode \in Modes
           /\ r.mode # "replay" => r.w.idx > streams[r.w.boot].idx
  PROVE  PickedIs'
<1> SUFFICES ASSUME picked # NoRow PROVE PickedIs'
  BY DEF PickedIs
<1>1. /\ picked \in rows /\ picked.status = "queued"
      /\ picked.w.idx <= streams[picked.w.boot].idx /\ picked.w \in Windows
  BY DEF WindowsInv, PickedIs, TableIs, RowIs
<1>2. ASSUME NEW r \in rows', r # picked, r.status = "queued", r.w.boot = picked.w.boot,
             r.mode = "legacy", picked.mode = "legacy"
      PROVE  r.w.idx > picked.w.idx
  <2>1. CASE r \in rows
    BY <1>2, <2>1 DEF WindowsInv, PickedIs
  <2>2. CASE r \notin rows
    <3>1. r.w.idx > streams[r.w.boot].idx /\ r.w.idx \in Nat /\ r.w.boot \in DOMAIN BootTime
      BY <1>2, <2>2, TimesOfWindows
    <3>2. streams[r.w.boot].idx \in Int /\ picked.w.idx \in Nat
      BY <1>1, <3>1, TimesOfWindows DEF WindowsInv, StreamsAre
    <3> QED BY <1>1, <1>2, <3>1, <3>2
  <2> QED BY <2>1, <2>2
<1> QED BY <1>1, <1>2 DEF PickedIs

LEMMA DueStays ==
  ASSUME WindowsInv, NEW w \in acked, UNCHANGED time, Unexpired(rows) \subseteq rows'
  PROVE  (\E r \in rows' : r.w = w) \/ At(w) + WindowRetention < time
<1>1. CASE At(w) + WindowRetention < time
  BY <1>1
<1>2. CASE \E r \in rows : r.w = w
  <2>1. PICK r \in rows : r.w = w
    BY <1>2
  <2>2. CASE r \in Unexpired(rows)
    BY <2>1, <2>2
  <2>3. CASE r \notin Unexpired(rows)
    <3>1. ~(At(w) + WindowRetention >= time)
      BY <2>1, <2>3 DEF Unexpired
    <3>2. At(w) \in Int /\ WindowRetention \in Nat /\ time \in Nat
      <4>1. w \in Windows
        BY DEF WindowsInv
      <4> QED BY <4>1, TimesOfWindows, RawConstants DEF WindowsInv
    <3> QED BY <3>1, <3>2
  <2> QED BY <2>2, <2>3
<1> QED BY <1>1, <1>2 DEF WindowsInv

(* What an ingest does, accepted or refused.                               *)
LEMMA IngestIs ==
  ASSUME WindowsInv, NEW b \in Batches, NEW lost \in BOOLEAN, Ingest(b, lost)
  PROVE  /\ TableIs(rows', streams', ordinal') /\ StreamsAre(streams')
         /\ Unexpired(rows) \subseteq rows' /\ stored \subseteq stored' /\ stored' \subseteq Windows
         /\ \A r \in rows' \ rows :
              /\ r.status = "queued" /\ r.verdicts = <<>> /\ r.mode = b.mode /\ r.mode \in Modes
              /\ r.w \in Range(b.windows) /\ r.w \in Windows /\ r.w \in stored'
              /\ r.mode # "replay" => r.w.idx > streams[r.w.boot].idx
         /\ \A q \in DOMAIN BootTime : streams'[q].idx >= streams[q].idx
         /\ acked' \subseteq stored'
         /\ \A w \in acked' : (\E r \in rows' : r.w = w) \/ At(w) + WindowRetention < time
<1> DEFINE s == Batched(b)
<1>1. StateIs(s) /\ Sofar(s, b, Len(b.windows))
  BY BatchDone
<1>2. b.mode \in Modes /\ \A w \in Range(b.windows) : w \in Windows
  BY RawConstants DEF Modes, Windows
<1>3. UNCHANGED time
  BY DEF Ingest, worldVars
<1>4. stored \subseteq Windows /\ acked \subseteq stored
  BY DEF WindowsInv
<1>5. CASE ~s.ok
  <2>1. rows' = Unexpired(rows) /\ UNCHANGED <<streams, ordinal, stored, acked>>
    BY <1>5 DEF Ingest
  <2>2. TableIs(rows', streams', ordinal') /\ rows' \subseteq rows /\ StreamsAre(streams')
    BY <2>1, KeptTable DEF WindowsInv
  <2>3. \A q \in DOMAIN BootTime : streams'[q].idx >= streams[q].idx
    BY <2>1 DEF WindowsInv, StreamsAre
  <2>4. \A w \in acked' : (\E r \in rows' : r.w = w) \/ At(w) + WindowRetention < time
    BY <1>3, <2>1, DueStays
  <2> QED BY <1>4, <2>1, <2>2, <2>3, <2>4
<1>6. CASE s.ok
  <2>1. /\ rows' = s.rows /\ streams' = s.streams /\ ordinal' = s.ordinal
        /\ stored' = stored \cup Range(b.windows)
        /\ acked' \subseteq acked \cup Range(b.windows)
    BY <1>6 DEF Ingest
  <2> HIDE DEF s
  <2>2. /\ TableIs(rows', streams', ordinal') /\ StreamsAre(streams') /\ Unexpired(rows) \subseteq rows'
        /\ \A q \in DOMAIN BootTime : streams'[q].idx >= streams[q].idx
        /\ \A r \in rows' \ Unexpired(rows) :
             /\ r.status = "queued" /\ r.verdicts = <<>> /\ r.w \in Range(b.windows)
             /\ r.mode = b.mode /\ (b.mode # "replay" => r.w.idx > streams[r.w.boot].idx)
        /\ \A j \in 1..Len(b.windows) : \E r \in rows' : r.w = b.windows[j]
    BY <1>1, <1>6, <2>1 DEF Sofar
  <2>3. ASSUME NEW w \in acked' PROVE (\E r \in rows' : r.w = w) \/ At(w) + WindowRetention < time
    <3>1. CASE w \in acked
      BY <1>3, <2>2, <3>1, DueStays
    <3>2. CASE w \in Range(b.windows)
      <4>1. DOMAIN b.windows = 1..Len(b.windows)
        BY RawConstants
      <4>2. PICK j \in 1..Len(b.windows) : w = b.windows[j]
        BY <3>2, <4>1 DEF Range
      <4> QED BY <2>2, <4>2
    <3> QED BY <2>1, <3>1, <3>2
  <2>4. Unexpired(rows) \subseteq rows
    BY KeptTable
  <2> QED BY <1>2, <1>4, <2>1, <2>2, <2>3, <2>4
<1> QED BY <1>5, <1>6

LEMMA IngestRows ==
  ASSUME WindowsInv, NEW b \in Batches, NEW lost \in BOOLEAN, Ingest(b, lost)
  PROVE  WindowsInv'
<1>1. picked' = picked /\ UNCHANGED <<time, model>>
  BY DEF Ingest, worldVars
<1>2. \A r \in rows : r.status = "queued" => r \in rows'
  BY IngestIs DEF Unexpired
<1>3. PickedIs'
  BY <1>1, <1>2, IngestIs, PickedStays
<1>4. \A r \in rows' : r.w \in stored'
  BY IngestIs DEF WindowsInv
<1> QED BY <1>1, <1>3, <1>4, IngestIs DEF WindowsInv, At

(* Among queued rows there is one that precedes all others.                *)
LEMMA FirstExists ==
  ASSUME WindowsInv, NEW Q, Q \subseteq rows, Q # {}
  PROVE  \E r \in Q : \A q \in Q \ {r} : Precedes(r, q)
<1>1. \A r \in Q : Priority(r) \in Nat /\ At(r.w) \in Int /\ r.n \in Nat
  BY TimesOfWindows DEF WindowsInv, TableIs, RowIs, Priority
<1> DEFINE P == {Priority(r) : r \in Q}
<1>2. PICK p \in P : \A y \in P : p <= y
  <2>1. P \subseteq Nat /\ P # {}
    BY <1>1
  <2> HIDE DEF P
  <2> QED BY <2>1, LeastOfNaturals
<1> DEFINE Q2 == {r \in Q : Priority(r) = p}
           A == {At(r.w) : r \in Q2}
<1>3. Q2 # {} /\ IsFiniteSet(Q2)
  <2>1. Q2 # {}
    OBVIOUS
  <2>2. Q2 \subseteq rows
    OBVIOUS
  <2> HIDE DEF Q2
  <2> QED BY <2>1, <2>2, FS_Subset DEF WindowsInv, TableIs
<1>4. PICK a \in A : \A y \in A : a <= y
  <2>1. A \in SUBSET Int /\ A # {}
    BY <1>1, <1>3
  <2>2. IsFiniteSet(A)
    <3> DEFINE f == [r \in Q2 |-> At(r.w)]
    <3>1. f \in Surjection(Q2, A)
      BY DEF Surjection
    <3> QED BY <1>3, <3>1, FS_Surjection
  <2> HIDE DEF A
  <2> QED BY <2>1, <2>2, MinIs
<1> DEFINE Q3 == {r \in Q2 : At(r.w) = a}
           N == {r.n : r \in Q3}
<1>5. PICK m \in N : \A y \in N : m <= y
  <2>1. N \subseteq Nat /\ N # {}
    BY <1>1
  <2> HIDE DEF N
  <2> QED BY <2>1, LeastOfNaturals
<1>6. PICK r \in Q3 : r.n = m
  OBVIOUS
<1>7. r \in Q /\ Priority(r) = p /\ At(r.w) = a
  BY <1>6
<1>8. ASSUME NEW q \in Q \ {r} PROVE Precedes(r, q)
  <2>1. /\ Priority(q) \in Nat /\ At(q.w) \in Int /\ q.n \in Nat
        /\ p \in Nat /\ a \in Int /\ m \in Nat /\ p <= Priority(q)
    BY <1>1, <1>2, <1>6, <1>7
  <2>2. CASE Priority(q) # p
    BY <1>7, <2>1, <2>2 DEF Precedes
  <2>3. CASE Priority(q) = p /\ At(q.w) # a
    <3>1. a <= At(q.w)
      BY <1>4, <2>3
    <3> QED BY <1>7, <2>1, <2>3, <3>1 DEF Precedes
  <2>4. CASE Priority(q) = p /\ At(q.w) = a
    <3>1. m <= q.n
      BY <1>5, <2>4
    <3>2. q.n # r.n
      BY <1>7 DEF WindowsInv, TableIs
    <3> QED BY <1>6, <1>7, <2>1, <2>4, <3>1, <3>2 DEF Precedes
  <2> QED BY <2>2, <2>3, <2>4
<1> QED BY <1>7, <1>8

LEMMA PickRows == ASSUME WindowsInv, Pick PROVE WindowsInv'
<1>1. /\ Queued # {} /\ Queued \subseteq rows
      /\ UNCHANGED <<rows, streams, ordinal, stored, acked, time, model>>
  BY DEF Pick, worldVars, Queued
<1>2. picked' \in Queued /\ \A q \in Queued \ {picked'} : Precedes(picked', q)
  <2>1. \E r \in Queued : \A q \in Queued \ {r} : Precedes(r, q)
    BY <1>1, FirstExists
  <2> QED BY <2>1 DEF Pick
<1>3. ASSUME NEW r \in rows, r # picked', r.status = "queued", r.w.boot = picked'.w.boot,
             r.mode = "legacy", picked'.mode = "legacy"
      PROVE  r.w.idx > picked'.w.idx
  <2>1. Precedes(picked', r)
    BY <1>2, <1>3 DEF Queued
  <2>2. At(picked'.w) <= At(r.w)
    <3>1. At(picked'.w) \in Int /\ At(r.w) \in Int
      BY <1>1, <1>2, TimesOfWindows DEF WindowsInv, TableIs, RowIs
    <3> QED BY <1>3, <2>1, <3>1 DEF Precedes, Priority
  <2>3. r.w.idx # picked'.w.idx
    BY <1>1, <1>2, <1>3 DEF WindowsInv, TableIs, SameKey
  <2>4. /\ r.w.boot \in DOMAIN BootTime /\ r.w.idx \in Nat /\ picked'.w.idx \in Nat
    BY <1>1, <1>2, TimesOfWindows DEF WindowsInv, TableIs, RowIs
  <2>5. BootTime[r.w.boot] \in Int
    BY <2>4, RawConstants
  <2> QED BY <1>3, <2>2, <2>3, <2>4, <2>5 DEF At
<1>4. PickedIs'
  BY <1>1, <1>2, <1>3 DEF PickedIs, Queued
<1> QED BY <1>1, <1>4 DEF WindowsInv, At

(* The row that was analysed: what it says, and what it leaves alone.      *)
LEMMA ResultIs ==
  ASSUME WindowsInv, picked # NoRow, NEW r, r = Result(picked, Lane(picked))
  PROVE  /\ RowIs(r) /\ r.n = picked.n /\ r.w = picked.w /\ r.mode = picked.mode
         /\ r.status # "queued" /\ r.verdicts = Confirmed(picked, Lane(picked))
<1>1. picked \in rows /\ RowIs(picked)
  BY DEF WindowsInv, PickedIs, TableIs
<1> DEFINE status == IF picked.w.verdict = "bad" THEN "unavailable" ELSE "completed"
           chain == Confirmed(picked, Lane(picked))
           lane == Lane(picked)
<1>2. r = [picked EXCEPT !.status = status, !.lane = lane, !.verdicts = chain, !.model = model]
  BY DEF Result
<1>3. status \in {"completed", "unavailable"}
  OBVIOUS
<1> HIDE DEF status, chain, lane
<1>4. PICK n, w, mode, gap :
        /\ n = picked.n /\ w = picked.w /\ mode = picked.mode /\ gap = picked.gap
  OBVIOUS
<1>5. PICK s0, l0, v0, m0 :
        picked = [n |-> n, w |-> w, mode |-> mode, status |-> s0, lane |-> l0,
                  gap |-> gap, verdicts |-> v0, model |-> m0]
  BY <1>1, <1>4 DEF RowIs
<1>6. r = [n |-> n, w |-> w, mode |-> mode, status |-> status, lane |-> lane,
           gap |-> gap, verdicts |-> chain, model |-> model]
  BY <1>2, <1>5
<1>7. /\ r = [n |-> r.n, w |-> r.w, mode |-> r.mode, status |-> r.status, lane |-> r.lane,
              gap |-> r.gap, verdicts |-> r.verdicts, model |-> r.model]
      /\ r.n = n /\ r.w = w /\ r.mode = mode /\ r.status = status /\ r.verdicts = chain
  BY <1>6
<1> QED BY <1>1, <1>3, <1>4, <1>7 DEF RowIs, chain, lane

LEMMA FinishRows == ASSUME WindowsInv, Finish PROVE WindowsInv'
<1>1. picked # NoRow /\ picked' = NoRow /\ picked \in rows
  BY DEF Finish, WindowsInv, PickedIs
<1>2. PICK r : r = Result(picked, Lane(picked))
  OBVIOUS
<1>3. /\ rows' = (rows \ {picked}) \cup {r}
      /\ UNCHANGED <<streams, ordinal, stored, acked, time, model>>
  BY <1>2 DEF Finish, worldVars
<1>4. /\ RowIs(r) /\ r.n = picked.n /\ r.w = picked.w /\ r.mode = picked.mode /\ r.status # "queued"
  BY <1>1, <1>2, ResultIs
<1>5. IsFiniteSet(rows')
  <2>1. IsFiniteSet(rows \ {picked})
    BY FS_RemoveElement DEF WindowsInv, TableIs
  <2> QED BY <1>3, <2>1, FS_AddElement
<1>6. ASSUME NEW q \in rows'
      PROVE  /\ RowIs(q) /\ q.n < ordinal /\ q.w \in stored
             /\ q.w.idx <= streams[q.w.boot].idx /\ streams[q.w.boot].asset # NoRow
  BY <1>1, <1>3, <1>4 DEF WindowsInv, TableIs
<1>7. ASSUME NEW p \in rows', NEW q \in rows', p.n = q.n \/ SameKey(q, p.w) PROVE p = q
  <2>1. PICK p0 \in rows : p0.n = p.n /\ p0.w = p.w /\ (IF p = r THEN p0 = picked ELSE p0 = p)
    BY <1>1, <1>3, <1>4
  <2>2. PICK q0 \in rows : q0.n = q.n /\ q0.w = q.w /\ (IF q = r THEN q0 = picked ELSE q0 = q)
    BY <1>1, <1>3, <1>4
  <2>3. p0 = q0
    BY <1>7, <2>1, <2>2 DEF WindowsInv, TableIs, SameKey
  <2>4. picked # r
    BY <1>1, <1>4 DEF WindowsInv, PickedIs
  <2>5. p # r => p # picked
    BY <1>3, <2>4
  <2>6. q # r => q # picked
    BY <1>3, <2>4
  <2> QED BY <2>1, <2>2, <2>3, <2>5, <2>6
<1>8. TableIs(rows', streams', ordinal')
  BY <1>3, <1>5, <1>6, <1>7 DEF TableIs, WindowsInv, SameKey
<1>9. \A w \in acked : (\E q \in rows : q.w = w) => \E q \in rows' : q.w = w
  BY <1>3, <1>4
<1> QED BY <1>1, <1>3, <1>6, <1>8, <1>9 DEF WindowsInv, PickedIs, At

LEMMA OtherRows ==
  ASSUME WindowsInv, UNCHANGED <<rows, streams, ordinal, stored, acked>>,
         picked' \in {picked, NoRow}, model' \in {1, 2}, time' \in {time, time + 1}
  PROVE  WindowsInv'
<1>1. PickedIs'
  BY DEF WindowsInv, PickedIs
<1>2. ASSUME NEW w \in acked PROVE (\E r \in rows : r.w = w) \/ At(w) + WindowRetention < time'
  <2>1. At(w) \in Int /\ WindowRetention \in Nat /\ time \in Nat
    <3>1. w \in Windows
      BY DEF WindowsInv
    <3> QED BY <3>1, TimesOfWindows, RawConstants DEF WindowsInv
  <2> QED BY <2>1 DEF WindowsInv
<1>3. time' \in Nat
  BY DEF WindowsInv
<1> QED BY <1>1, <1>2, <1>3 DEF WindowsInv, At

-----------------------------------------------------------------------------
(* Chains.                                                                 *)

LEMMA Extended ==
  ASSUME NEW w \in Windows, w \in stored, NEW seq,
         seq = <<>> \/ Consecutive(w.boot, w.idx - 1, w.asset, seq)
  PROVE  Consecutive(w.boot, w.idx, w.asset, LastThree(Append(seq, w.verdict)))
<1> DEFINE V == {v.verdict : v \in Windows}
           s == Append(seq, w.verdict)
           n == Len(s)
           m == IF n > 3 THEN n - 2 ELSE 1
           t == SubSeq(s, m, n)
<1>1. w.verdict \in V /\ w.idx \in Nat
  BY TimesOfWindows
<1>2. seq \in Seq(V)
  <2>1. <<>> \in Seq(V)
    OBVIOUS
  <2> QED BY <2>1 DEF Consecutive
<1> HIDE DEF V
<1>3. /\ s \in Seq(V) /\ n = Len(seq) + 1 /\ Len(seq) \in Nat /\ s[n] = w.verdict
      /\ \A j \in 1..Len(seq) : s[j] = seq[j]
  BY <1>1, <1>2
<1>4. \A j \in 1..Len(seq) : Measured(w.boot, w.idx - 1 - Len(seq) + j, seq[j], w.asset)
  <2>1. DOMAIN seq = 1..Len(seq)
    BY <1>2
  <2>2. CASE seq = <<>>
    BY <2>2
  <2>3. CASE Consecutive(w.boot, w.idx - 1, w.asset, seq)
    BY <2>1, <2>3 DEF Consecutive
  <2> QED BY <2>2, <2>3
<1>5. Measured(w.boot, w.idx, w.verdict, w.asset)
  BY DEF Measured
<1> HIDE DEF s
<1>6. \A j \in 1..n : Measured(w.boot, w.idx - n + j, s[j], w.asset)
  <2> TAKE j \in 1..n
  <2>1. CASE j = n
    <3>1. w.idx - n + j = w.idx
      BY <1>1, <1>3, <2>1
    <3> QED BY <1>3, <1>5, <2>1, <3>1
  <2>2. CASE j # n
    <3>1. j \in 1..Len(seq) /\ w.idx - n + j = w.idx - 1 - Len(seq) + j
      BY SMTT(60), <1>1, <1>3, <2>2
    <3> QED BY <1>3, <1>4, <3>1
  <2> QED BY <2>1, <2>2
<1>7. /\ m \in 1..n /\ n \in 1..n /\ n \in Nat /\ m <= n + 1
  BY <1>3
<1>8. t \in Seq(V) /\ Len(t) = n - m + 1 /\ \A k \in 1..(n - m + 1) : t[k] = s[m + k - 1]
  <2> HIDE DEF n, m
  <2>1. n = Len(s)
    BY DEF n
  <2>2. \A i \in m..n : s[i] \in V
    BY <1>3, <1>7, <2>1
  <2> QED BY <1>3, <1>7, <2>1, <2>2, SubSeqProperties
<1> HIDE DEF n, m, t
<1>9. \A k \in DOMAIN t : Measured(w.boot, w.idx - Len(t) + k, t[k], w.asset)
  <2> TAKE k \in DOMAIN t
  <2>1. k \in 1..(n - m + 1)
    BY <1>8
  <2>2. m + k - 1 \in 1..n /\ w.idx - Len(t) + k = w.idx - n + (m + k - 1)
    BY SMTT(60), <1>1, <1>7, <1>8, <2>1
  <2> QED BY <1>6, <1>8, <2>1, <2>2
<1>10. t = LastThree(Append(seq, w.verdict))
  BY DEF LastThree, t, n, m, s
<1> QED BY <1>8, <1>9, <1>10 DEF Consecutive, V

LEMMA NoChain == ASSUME NEW boot, NEW idx, NEW a PROVE Consecutive(boot, idx, a, <<>>)
BY DEF Consecutive

LEMMA MeasuredStays ==
  ASSUME stored \subseteq stored', NEW boot, NEW idx, NEW v, NEW a, Measured(boot, idx, v, a)
  PROVE  Measured(boot, idx, v, a)'
BY DEF Measured

LEMMA ChainStays ==
  ASSUME stored \subseteq stored', NEW boot, NEW idx, NEW a, NEW seq,
         Consecutive(boot, idx, a, seq)
  PROVE  Consecutive(boot, idx, a, seq)'
BY MeasuredStays DEF Consecutive

LEMMA IngestChains ==
  ASSUME WindowsInv, ChainInv, NEW b \in Batches, NEW lost \in BOOLEAN, Ingest(b, lost)
  PROVE  ChainInv'
<1>1. ASSUME NEW r \in rows' PROVE Consecutive(r.w.boot, r.w.idx, r.w.asset, r.verdicts)'
  <2>1. CASE r \in rows
    BY <2>1, IngestIs, ChainStays DEF ChainInv
  <2>2. CASE r \notin rows
    <3>1. r.verdicts = <<>> /\ stored \subseteq stored'
      BY <2>2, IngestIs
    <3> QED BY <3>1, NoChain, ChainStays
  <2> QED BY <2>1, <2>2
<1> QED BY <1>1 DEF ChainInv

LEMMA FinishChains == ASSUME WindowsInv, ChainInv, Finish PROVE ChainInv'
<1>1. picked # NoRow /\ picked \in rows
  BY DEF Finish, WindowsInv, PickedIs
<1>2. PICK r : r = Result(picked, Lane(picked))
  OBVIOUS
<1>3. rows' = (rows \ {picked}) \cup {r} /\ UNCHANGED stored
  BY <1>2 DEF Finish
<1>4. r.w = picked.w /\ r.verdicts = Confirmed(picked, Lane(picked))
  BY <1>1, <1>2, ResultIs
<1> DEFINE before == {q \in Previous(picked, Lane(picked)) : Continues(picked, q)}
           q0 == CHOOSE q \in before : TRUE
           w == picked.w
<1>5. w \in Windows /\ w \in stored
  BY <1>1 DEF WindowsInv, TableIs, RowIs
<1>6. before \subseteq rows
  <2> DEFINE lane == Lane(picked)
  <2>1. lane \in {"none", "live", "history"}
    BY DEF Lane
  <2> HIDE DEF lane
  <2>2. Previous(picked, lane) \subseteq rows
    <3>1. CASE lane = "none"
      BY <3>1 DEF Previous
    <3>2. CASE lane = "history"
      BY <3>2 DEF Previous
    <3>3. CASE lane = "live"
      BY <3>3 DEF Previous, HeadRow
    <3> QED BY <2>1, <3>1, <3>2, <3>3
  <2> QED BY <2>2 DEF lane
<1>7. CASE w.verdict = "bad"
  <2>1. r.verdicts = <<>>
    BY <1>4, <1>7 DEF Confirmed
  <2>2. Consecutive(r.w.boot, r.w.idx, r.w.asset, r.verdicts)
    BY <2>1, NoChain
  <2> QED BY <1>3, <2>2, ChainStays DEF ChainInv
<1>8. CASE w.verdict # "bad"
  <2> DEFINE seq == IF before = {} THEN <<>> ELSE q0.verdicts
  <2>1. r.verdicts = LastThree(Append(seq, w.verdict))
    BY <1>4, <1>8 DEF Confirmed
  <2>2. ASSUME before # {} PROVE Consecutive(w.boot, w.idx - 1, w.asset, q0.verdicts)
    <3>1. q0 \in before
      BY <2>2
    <3>2. q0 \in rows /\ Continues(picked, q0)
      BY <1>6, <3>1
    <3> HIDE DEF q0
    <3>3. Consecutive(q0.w.boot, q0.w.idx, q0.w.asset, q0.verdicts)
      BY <3>2 DEF ChainInv
    <3>4. q0.w.boot = w.boot /\ q0.w.asset = w.asset /\ w.idx = q0.w.idx + 1
      BY <3>2 DEF Continues
    <3>5. q0.w.idx \in Nat
      BY <3>2, TimesOfWindows DEF WindowsInv, TableIs, RowIs
    <3>6. q0.w.idx = w.idx - 1
      BY <3>4, <3>5
    <3> QED BY <3>3, <3>4, <3>6
  <2>3. seq = <<>> \/ Consecutive(w.boot, w.idx - 1, w.asset, seq)
    BY <2>2
  <2> HIDE DEF seq
  <2>4. Consecutive(r.w.boot, r.w.idx, r.w.asset, r.verdicts)
    BY <1>4, <1>5, <2>1, <2>3, Extended
  <2> QED BY <1>3, <2>4, ChainStays DEF ChainInv
<1> QED BY <1>7, <1>8

LEMMA OtherChains == ASSUME ChainInv, UNCHANGED <<rows, stored>> PROVE ChainInv'
BY DEF ChainInv, Consecutive, Measured

-----------------------------------------------------------------------------
(* Incidents.                                                              *)

LEMMA CoreStays == ASSUME NEW i, CoreIs(i), stored \subseteq stored' PROVE CoreIs(i)'
<1>1. ASSUME NEW w, NEW v, ThreeOf(w, v) PROVE ThreeOf(w, v)'
  BY <1>1, MeasuredStays DEF ThreeOf
<1> QED BY <1>1 DEF CoreIs

LEMMA PastStays ==
  ASSUME WindowsInv, NEW i, CoreIs(i), PastIs(i),
         \A q \in DOMAIN BootTime : streams'[q].idx >= streams[q].idx /\ streams'[q].idx \in Int,
         \A r \in rows' : r.status = "queued" /\ r.mode # "replay" =>
           r \in rows \/ r.w.idx > streams[r.w.boot].idx
  PROVE  PastIs(i)'
<1>1. i.from.boot \in DOMAIN BootTime /\ i.from.idx \in Nat
  BY TimesOfWindows DEF CoreIs
<1>2. streams[i.from.boot].idx \in Int
  BY <1>1 DEF WindowsInv, StreamsAre
<1>3. ASSUME NEW r \in rows', SameKey(r, i.from), r.mode # "replay" PROVE r.status # "queued"
  <2>1. CASE r \in rows
    BY <1>3, <2>1 DEF PastIs
  <2>2. CASE r \notin rows
    BY <1>1, <1>2, <1>3, <2>2 DEF PastIs, SameKey
  <2> QED BY <2>1, <2>2
<1>4. i.from.idx <= streams'[i.from.boot].idx
  BY <1>1, <1>2 DEF PastIs
<1> QED BY <1>3, <1>4 DEF PastIs, SameKey

(* What happens to the rows alone.                                         *)
LEMMA RowsGrow ==
  ASSUME WindowsInv, IncidentsInv, stored \subseteq stored', UNCHANGED incidentVars,
         \A q \in DOMAIN BootTime : streams'[q].idx >= streams[q].idx /\ streams'[q].idx \in Int,
         \A r \in rows' : r.status = "queued" /\ r.mode # "replay" =>
           r \in rows \/ r.w.idx > streams[r.w.boot].idx
  PROVE  IncidentsInv'
<1>1. UNCHANGED <<incidents, lifecycle>>
  BY DEF incidentVars
<1>2. LifeIs'
  BY <1>1, ChainStays DEF IncidentsInv, LifeIs
<1>3. ASSUME NEW i \in incidents PROVE IncidentIs(i)'
  <2>1. CoreIs(i)' /\ PastIs(i)'
    BY CoreStays, PastStays DEF IncidentsInv, IncidentIs
  <2> QED BY <1>1, <2>1 DEF IncidentsInv, IncidentIs
<1> QED BY <1>1, <1>2, <1>3 DEF IncidentsInv

LEMMA IngestIncidents ==
  ASSUME WindowsInv, IncidentsInv, NEW b \in Batches, NEW lost \in BOOLEAN, Ingest(b, lost)
  PROVE  IncidentsInv'
<1>1. \A q \in DOMAIN BootTime : streams'[q].idx >= streams[q].idx /\ streams'[q].idx \in Int
  BY IngestIs DEF StreamsAre
<1>2. \A r \in rows' : r.status = "queued" /\ r.mode # "replay" =>
           r \in rows \/ r.w.idx > streams[r.w.boot].idx
  BY IngestIs
<1>3. stored \subseteq stored' /\ UNCHANGED incidentVars
  BY IngestIs DEF Ingest
<1> QED BY <1>1, <1>2, <1>3, RowsGrow

LEMMA HitsChain ==
  ASSUME LifeIs, NEW w \in Windows, w \in stored
  PROVE  Consecutive(w.boot, w.idx, w.asset, Hits(w))
<1>1. CASE w.verdict = "bad" \/ ~IsFresh(w)
  <2>1. Hits(w) = <<>>
    BY <1>1 DEF Hits
  <2> QED BY <2>1, NoChain
<1> DEFINE continuous == /\ lifecycle.boot = w.boot /\ lifecycle.idx = w.idx - 1
                         /\ lifecycle.asset = w.asset /\ lifecycle.model = model
<1>2. CASE ~(w.verdict = "bad" \/ ~IsFresh(w)) /\ continuous
  <2>1. Consecutive(w.boot, w.idx - 1, w.asset, lifecycle.hits)
    BY <1>2 DEF LifeIs
  <2>2. Hits(w) = LastThree(Append(lifecycle.hits, w.verdict))
    BY <1>2 DEF Hits
  <2> QED BY <2>1, <2>2, Extended
<1>3. CASE ~(w.verdict = "bad" \/ ~IsFresh(w)) /\ ~continuous
  <2>1. Hits(w) = <<w.verdict>>
    BY <1>3 DEF Hits
  <2>2. Measured(w.boot, w.idx - 1 + 1, w.verdict, w.asset)
    BY TimesOfWindows DEF Measured
  <2>3. w.idx - 1 + 1 = w.idx /\ w.idx - Len(<<w.verdict>>) + 1 = w.idx
    BY TimesOfWindows
  <2>4. <<w.verdict>> \in Seq({v.verdict : v \in Windows})
    OBVIOUS
  <2>5. DOMAIN <<w.verdict>> = {1} /\ <<w.verdict>>[1] = w.verdict
    OBVIOUS
  <2> QED BY <2>1, <2>2, <2>3, <2>4, <2>5 DEF Consecutive
<1> QED BY <1>1, <1>2, <1>3

LEMMA ThreeHits ==
  ASSUME NEW w \in Windows, NEW v, Consecutive(w.boot, w.idx, w.asset, <<v, v, v>>)
  PROVE  ThreeOf(w, v)
<1> DEFINE s == <<v, v, v>>
<1>1. Len(s) = 3 /\ DOMAIN s = {1, 2, 3} /\ s[1] = v /\ s[2] = v /\ s[3] = v
  OBVIOUS
<1> HIDE DEF s
<1>2. \A k \in {1, 2, 3} : Measured(w.boot, w.idx - 3 + k, v, w.asset)
  BY <1>1 DEF Consecutive, s
<1>3. ASSUME NEW k \in 0..2 PROVE Measured(w.boot, w.idx - k, v, w.asset)
  <2>1. 3 - k \in {1, 2, 3} /\ w.idx - 3 + (3 - k) = w.idx - k
    BY TimesOfWindows
  <2> QED BY <1>2, <2>1
<1> QED BY <1>3 DEF ThreeOf

(* The window being analysed.                                              *)
LEMMA FinishedWindow ==
  ASSUME WindowsInv, Finish
  PROVE  /\ picked \in rows /\ picked.status = "queued" /\ picked.w \in Windows
         /\ picked.w \in stored /\ UNCHANGED <<streams, stored, model, time>> /\ model \in {1, 2}
         /\ picked.w.idx <= streams[picked.w.boot].idx /\ picked.mode \in Modes
         /\ \E r : /\ rows' = (rows \ {picked}) \cup {r} /\ r.w = picked.w
                   /\ r.mode = picked.mode /\ r.status # "queued"
         /\ \A r \in rows' : r.status = "queued" => r \in rows /\ r # picked
         /\ Applies(picked, Lane(picked)) => picked.mode # "replay"
<1>1. picked # NoRow /\ picked \in rows /\ picked.status = "queued"
  BY DEF Finish, WindowsInv, PickedIs
<1>2. PICK r : r = Result(picked, Lane(picked))
  OBVIOUS
<1>3. rows' = (rows \ {picked}) \cup {r} /\ UNCHANGED <<streams, stored, model, time>>
  BY <1>2 DEF Finish, worldVars
<1>4. r.w = picked.w /\ r.mode = picked.mode /\ r.status # "queued"
  BY <1>1, <1>2, ResultIs
<1>5. Applies(picked, Lane(picked)) => picked.mode # "replay"
  BY DEF Applies, Lane
<1> QED BY <1>1, <1>3, <1>4, <1>5 DEF WindowsInv, TableIs, RowIs

LEMMA FinishPast ==
  ASSUME WindowsInv, Finish, NEW i, CoreIs(i), PastIs(i)
  PROVE  CoreIs(i)' /\ PastIs(i)'
<1>1. \A q \in DOMAIN BootTime : streams'[q].idx >= streams[q].idx /\ streams'[q].idx \in Int
  BY FinishedWindow DEF WindowsInv, StreamsAre
<1>2. \A r \in rows' : r.status = "queued" /\ r.mode # "replay" =>
           r \in rows \/ r.w.idx > streams[r.w.boot].idx
  BY FinishedWindow
<1>3. stored \subseteq stored'
  BY FinishedWindow
<1> QED BY <1>1, <1>2, <1>3, CoreStays, PastStays

(* What becomes of the incident that windows are compared with.            *)
LEMMA ObserveIs ==
  ASSUME WindowsInv, IncidentsInv, Finish, NEW i \in incidents, lifecycle.active = i.id,
         NEW j, j = Observe(i, picked.w)
  PROVE  /\ CoreIs(j)' /\ PastIs(j)' /\ j.id = i.id /\ j.from = i.from
         /\ i.rev <= j.rev /\ j.projected = i.projected
         /\ j.rev = i.rev => j = i
         /\ j = i \/ (j.status = i.status /\ j.until = i.until)
            \/ (j.status = "closed" /\ j.until = picked.w
                /\ Hits(picked.w) = <<"low", "low", "low">>)
<1> DEFINE w == picked.w
<1>1. CoreIs(i) /\ PastIs(i) /\ i.status = "open" /\ w \in Windows /\ w \in stored
  BY FinishedWindow DEF IncidentsInv, IncidentIs
<1>2. CoreIs(i)' /\ PastIs(i)' /\ stored \subseteq stored'
  BY <1>1, FinishPast, FinishedWindow
<1>3. PICK id, a, mdl, from, st, un, ob, rev, pr :
        /\ id = i.id /\ a = i.asset /\ mdl = i.model /\ from = i.from /\ st = i.status
        /\ un = i.until /\ ob = i.observed /\ rev = i.rev /\ pr = i.projected
  OBVIOUS
<1>4. /\ i = [id |-> id, asset |-> a, model |-> mdl, from |-> from, status |-> st,
              until |-> un, observed |-> ob, rev |-> rev, projected |-> pr]
      /\ rev \in Nat /\ pr \in Nat /\ pr <= rev
  BY <1>1, <1>3 DEF CoreIs
<1>5. CASE Hits(w) = <<"low", "low", "low">> /\ SameTarget(i, w)
  <2>1. PICK k : k = [i EXCEPT !.status = "closed", !.until = w, !.observed = "recovered",
                               !.rev = rev + 1]
    OBVIOUS
  <2>2. j = k
    BY <1>3, <1>5, <2>1 DEF Observe, Closed, w
  <2>3. j = [id |-> id, asset |-> a, model |-> mdl, from |-> from, status |-> "closed",
             until |-> w, observed |-> "recovered", rev |-> rev + 1, projected |-> pr]
    BY ZenonT(60), <1>4, <2>1, <2>2
  <2>4. ThreeOf(w, "low")
    BY <1>1, <1>5, HitsChain, ThreeHits DEF IncidentsInv
  <2>5. /\ j = [id |-> j.id, asset |-> j.asset, model |-> j.model, from |-> j.from,
                status |-> j.status, until |-> j.until, observed |-> j.observed, rev |-> j.rev,
                projected |-> j.projected]
        /\ j.id = id /\ j.asset = a /\ j.model = mdl /\ j.from = from /\ j.status = "closed"
        /\ j.until = w /\ j.rev = rev + 1 /\ j.projected = pr
    BY <2>3
  <2> HIDE DEF w
  <2>6. w.asset = a
    BY <1>3, <1>5 DEF SameTarget
  <2>7. pr <= rev + 1 /\ rev + 1 \in Nat /\ rev <= rev + 1 /\ rev + 1 # rev
    BY <1>4
  <2>8. CoreIs(j)
    BY <1>1, <1>3, <1>4, <2>4, <2>5, <2>6, <2>7 DEF CoreIs
  <2>9. PastIs(j)
    BY <1>1, <1>3, <2>5 DEF PastIs, SameKey
  <2>10. CoreIs(j)' /\ PastIs(j)'
    BY <2>8, <2>9, FinishPast
  <2> QED BY <1>3, <1>5, <2>5, <2>7, <2>10 DEF w
<1>6. CASE ~(Hits(w) = <<"low", "low", "low">> /\ SameTarget(i, w)) /\ i.observed # Observed(i, w)
  <2>0. PICK o : o = Observed(i, w)
    OBVIOUS
  <2>1. PICK k : k = [i EXCEPT !.observed = o, !.rev = rev + 1]
    OBVIOUS
  <2>2. j = k
    BY <1>3, <1>6, <2>0, <2>1 DEF Observe
  <2>3. j = [id |-> id, asset |-> a, model |-> mdl, from |-> from, status |-> st,
             until |-> un, observed |-> o, rev |-> rev + 1, projected |-> pr]
    BY <1>4, <2>1, <2>2
  <2>5. /\ j = [id |-> j.id, asset |-> j.asset, model |-> j.model, from |-> j.from,
                status |-> j.status, until |-> j.until, observed |-> j.observed, rev |-> j.rev,
                projected |-> j.projected]
        /\ j.id = id /\ j.asset = a /\ j.model = mdl /\ j.from = from /\ j.status = st
        /\ j.until = un /\ j.rev = rev + 1 /\ j.projected = pr
    BY <2>3
  <2>7. pr <= rev + 1 /\ rev + 1 \in Nat /\ rev <= rev + 1 /\ rev + 1 # rev
    BY <1>4
  <2>8. CoreIs(j)
    BY <1>1, <1>3, <1>4, <2>5, <2>7 DEF CoreIs
  <2>9. PastIs(j)
    BY <1>1, <1>3, <2>5 DEF PastIs, SameKey
  <2>10. CoreIs(j)' /\ PastIs(j)'
    BY <2>8, <2>9, FinishPast
  <2> QED BY <1>3, <2>5, <2>7, <2>10
<1>7. CASE ~(Hits(w) = <<"low", "low", "low">> /\ SameTarget(i, w)) /\ i.observed = Observed(i, w)
  <2>1. j = i
    BY <1>7 DEF Observe
  <2> QED BY <1>2, <1>3, <1>4, <2>1
<1> QED BY <1>5, <1>6, <1>7

LEMMA OpenedIs ==
  ASSUME WindowsInv, IncidentsInv, Finish, Applies(picked, Lane(picked)),
         Hits(picked.w) = <<"high", "high", "high">>, NEW j, j = Opened(picked.w)
  PROVE  /\ CoreIs(j)' /\ PastIs(j)' /\ j.from = picked.w /\ j.status = "open" /\ j.until = NoRow
         /\ j.rev = 1 /\ j.projected = 0 /\ j.id # NoRow
         /\ \A i \in incidents : i.id # j.id
<1> DEFINE w == picked.w
<1>1. /\ w \in Windows /\ w \in stored /\ UNCHANGED <<stored, streams, model>> /\ model \in {1, 2}
      /\ w.idx <= streams[w.boot].idx /\ picked \in rows /\ picked.status = "queued"
      /\ picked.mode # "replay"
  BY FinishedWindow
<1>2. PICK name : name = IncidentId(w, model)
  OBVIOUS
<1>3. j = [id |-> name, asset |-> w.asset, model |-> model, from |-> w, status |-> "open",
           until |-> NoRow, observed |-> "observing", rev |-> 1, projected |-> 0]
  BY <1>2 DEF Opened
<1>4. ThreeOf(w, "high")
  BY <1>1, HitsChain, ThreeHits DEF IncidentsInv
<1>5. CoreIs(j)
  BY <1>1, <1>2, <1>3, <1>4 DEF CoreIs
<1>6. CoreIs(j)'
  BY <1>1, <1>5, CoreStays
<1>7. ASSUME NEW r \in rows', SameKey(r, w) PROVE r.status # "queued"
  <2>1. PICK r0 : rows' = (rows \ {picked}) \cup {r0} /\ r0.status # "queued"
    BY FinishedWindow
  <2>2. CASE r = r0
    BY <2>1, <2>2
  <2>3. CASE r \in rows /\ r # picked
    BY <1>1, <1>7, <2>3 DEF WindowsInv, TableIs
  <2> QED BY <2>1, <2>2, <2>3
<1>8. PastIs(j)'
  BY <1>1, <1>3, <1>7 DEF PastIs, SameKey
<1>9. ASSUME NEW i \in incidents, i.id = j.id PROVE FALSE
  <2>1. i.id = IncidentId(i.from, i.model) /\ PastIs(i)
    BY DEF IncidentsInv, IncidentIs, CoreIs
  <2>2. i.from.boot = w.boot /\ i.from.idx = w.idx
    BY <1>2, <1>3, <1>9, <2>1 DEF IncidentId
  <2> QED BY <1>1, <2>1, <2>2 DEF PastIs, SameKey
<1>10. j.id # NoRow
  BY <1>1, <1>2, <1>3, RawConstants
<1> QED BY <1>3, <1>6, <1>8, <1>9, <1>10

LEMMA FinishCases ==
  ASSUME WindowsInv, IncidentsInv, Finish
  PROVE  \/ UNCHANGED <<incidents, lifecycle>>
         \/ /\ Applies(picked, Lane(picked))
            /\ lifecycle' = [active |-> lifecycle'.active, boot |-> picked.w.boot,
                             idx |-> picked.w.idx, asset |-> picked.w.asset, model |-> model,
                             at |-> At(picked.w), hits |-> Hits(picked.w)]
            /\ \/ \E i \in incidents : \E j \in {Observe(i, picked.w)} :
                    /\ lifecycle.active = i.id /\ incidents' = (incidents \ {i}) \cup {j}
                    /\ lifecycle'.active = IF j.status = "closed" THEN NoRow ELSE j.id
               \/ /\ \A i \in incidents : lifecycle.active # i.id
                  /\ \/ /\ Hits(picked.w) = <<"high", "high", "high">>
                        /\ \E j \in {Opened(picked.w)} :
                             incidents' = incidents \cup {j} /\ lifecycle'.active = j.id
                     \/ incidents' = incidents /\ lifecycle'.active = NoRow
<1> DEFINE w == picked.w
<1>1. CASE ~Applies(picked, Lane(picked))
  BY <1>1 DEF Finish, incidentVars
<1>2. CASE Applies(picked, Lane(picked))
  <2>1. PICK active : active = Applied(w).active
    OBVIOUS
  <2>2. /\ lifecycle' = [active |-> active, boot |-> w.boot, idx |-> w.idx, asset |-> w.asset,
                         model |-> model, at |-> At(w), hits |-> Hits(w)]
        /\ incidents' = Applied(w).incidents
    BY <1>2, <2>1 DEF Finish
  <2>3. /\ lifecycle'.active = active
        /\ lifecycle' = [active |-> lifecycle'.active, boot |-> w.boot, idx |-> w.idx,
                         asset |-> w.asset, model |-> model, at |-> At(w), hits |-> Hits(w)]
    BY <2>2
  <2>4. CASE ActiveIncident # {}
    <3>1. PICK i \in ActiveIncident : i = CHOOSE k \in ActiveIncident : TRUE
      BY <2>4
    <3>2. PICK j : j = Observe(i, w)
      OBVIOUS
    <3>3. Applied(w) = [incidents |-> Replace(i, j),
                        active |-> IF j.status = "closed" THEN NoRow ELSE j.id]
      BY <2>4, <3>1, <3>2 DEF Applied
    <3>4. i \in incidents /\ lifecycle.active = i.id
      BY DEF ActiveIncident
    <3> QED BY <1>2, <2>1, <2>2, <2>3, <3>2, <3>3, <3>4 DEF Replace
  <2>5. CASE ActiveIncident = {}
    <3>1. \A i \in incidents : lifecycle.active # i.id
      BY <2>5 DEF ActiveIncident
    <3>2. CASE Hits(w) = <<"high", "high", "high">>
      <4>1. PICK j : j = Opened(w)
        OBVIOUS
      <4>2. Applied(w) = [incidents |-> incidents \cup {j}, active |-> j.id]
        BY <2>5, <3>2, <4>1 DEF Applied
      <4> QED BY <1>2, <2>1, <2>2, <2>3, <3>1, <3>2, <4>1, <4>2
    <3>3. CASE Hits(w) # <<"high", "high", "high">>
      <4>2. Applied(w) = [incidents |-> incidents, active |-> NoRow]
        BY <2>5, <3>3 DEF Applied
      <4> QED BY <1>2, <2>1, <2>2, <2>3, <3>1, <4>2
    <3> QED BY <3>2, <3>3
  <2> QED BY <2>4, <2>5
<1> QED BY <1>1, <1>2

LEMMA FinishLife ==
  ASSUME WindowsInv, IncidentsInv, Finish
  PROVE  LifeIs'
<1> DEFINE w == picked.w
<1>1. w \in Windows /\ w \in stored /\ stored' = stored
  BY FinishedWindow
<1>2. CASE UNCHANGED <<incidents, lifecycle>>
  BY <1>1, <1>2, ChainStays DEF IncidentsInv, LifeIs
<1>3. CASE ~UNCHANGED <<incidents, lifecycle>>
  <2>1. lifecycle' = [active |-> lifecycle'.active, boot |-> w.boot, idx |-> w.idx,
                      asset |-> w.asset, model |-> model, at |-> At(w), hits |-> Hits(w)]
    BY <1>3, FinishCases
  <2>2. Consecutive(w.boot, w.idx, w.asset, Hits(w))
    BY <1>1, HitsChain DEF IncidentsInv
  <2>3. PICK boot, idx, a, at, hits, active, mdl :
          /\ boot = w.boot /\ idx = w.idx /\ a = w.asset /\ at = At(w) /\ hits = Hits(w)
          /\ active = lifecycle'.active /\ mdl = model
    OBVIOUS
  <2>4. Consecutive(boot, idx, a, hits)'
    BY <1>1, <2>2, <2>3, ChainStays
  <2>5. lifecycle' = [active |-> active, boot |-> boot, idx |-> idx, asset |-> a,
                      model |-> mdl, at |-> at, hits |-> hits]
    BY <2>1, <2>3
  <2>6. at \in Int
    BY <1>1, <2>3, TimesOfWindows
  <2> HIDE DEF w
  <2> QED BY <2>4, <2>5, <2>6 DEF LifeIs
<1> QED BY <1>2, <1>3

LEMMA IdsNameIncidents ==
  ASSUME NEW i, CoreIs(i) PROVE i.id # NoRow
BY RawConstants DEF CoreIs

LEMMA FinishIncidents ==
  ASSUME WindowsInv, IncidentsInv, Finish
  PROVE  IncidentsInv'
<1> DEFINE w == picked.w
<1>1. LifeIs'
  BY FinishLife
<1>2. \A k \in incidents : CoreIs(k)' /\ PastIs(k)'
  BY FinishPast DEF IncidentsInv, IncidentIs
<1>3. CASE UNCHANGED <<incidents, lifecycle>>
  BY <1>1, <1>2, <1>3 DEF IncidentsInv, IncidentIs
<1>4. ASSUME NEW i \in incidents, NEW j, j = Observe(i, w), lifecycle.active = i.id,
             incidents' = (incidents \ {i}) \cup {j},
             lifecycle'.active = IF j.status = "closed" THEN NoRow ELSE j.id
      PROVE  IncidentsInv'
  <2>1. i.status = "open" /\ j.id = i.id /\ CoreIs(j)' /\ PastIs(j)'
    BY <1>4, ObserveIs DEF IncidentsInv, IncidentIs
  <2>2. j.id # NoRow /\ j.status \in {"open", "closed"}
    BY <2>1, IdsNameIncidents DEF IncidentsInv, IncidentIs, CoreIs
  <2>3. (j.status = "open") <=> (lifecycle'.active = j.id)
    BY <1>4, <2>2
  <2>4. ASSUME NEW k \in incidents \ {i}
        PROVE  (k.status = "open" <=> lifecycle'.active = k.id) /\ k.id # j.id
    <3>1. k.id # i.id /\ k.status # "open" /\ k.id # NoRow
      BY <1>4, IdsNameIncidents DEF IncidentsInv, IncidentIs
    <3> QED BY <1>4, <2>1, <2>2, <3>1
  <2>5. \A k \in incidents' : IncidentIs(k)'
    BY <1>2, <1>4, <2>1, <2>3, <2>4 DEF IncidentIs
  <2>6. \A k, l \in incidents' : k.id = l.id => k = l
    BY <1>4, <2>4 DEF IncidentsInv
  <2> QED BY <1>1, <2>5, <2>6 DEF IncidentsInv
<1>5. ASSUME \A i \in incidents : lifecycle.active # i.id, Applies(picked, Lane(picked)),
             Hits(w) = <<"high", "high", "high">>, NEW j, j = Opened(w),
             incidents' = incidents \cup {j}, lifecycle'.active = j.id
      PROVE  IncidentsInv'
  <2>1. CoreIs(j)' /\ PastIs(j)' /\ j.status = "open" /\ \A i \in incidents : i.id # j.id
    BY <1>5, OpenedIs
  <2>2. \A k \in incidents : k.status # "open" /\ lifecycle'.active # k.id
    BY <1>5, <2>1 DEF IncidentsInv, IncidentIs
  <2>3. \A k \in incidents' : IncidentIs(k)'
    BY <1>2, <1>5, <2>1, <2>2 DEF IncidentIs
  <2>4. \A k, l \in incidents' : k.id = l.id => k = l
    BY <1>5, <2>1 DEF IncidentsInv
  <2> QED BY <1>1, <2>3, <2>4 DEF IncidentsInv
<1>6. ASSUME \A i \in incidents : lifecycle.active # i.id,
             incidents' = incidents, lifecycle'.active = NoRow
      PROVE  IncidentsInv'
  <2>1. \A k \in incidents : k.status # "open" /\ k.id # NoRow
    BY <1>6, IdsNameIncidents DEF IncidentsInv, IncidentIs
  <2>2. \A k \in incidents' : IncidentIs(k)'
    BY <1>2, <1>6, <2>1 DEF IncidentIs
  <2>3. \A k, l \in incidents' : k.id = l.id => k = l
    BY <1>6 DEF IncidentsInv
  <2> QED BY <1>1, <2>2, <2>3 DEF IncidentsInv
<1> QED BY <1>3, <1>4, <1>5, <1>6, FinishCases

(* Incidents that are only renewed: read again, or marked.                 *)
Renewed(i, j) ==
  /\ CoreIs(j) /\ j.id = i.id /\ j.from = i.from /\ j.status = i.status /\ j.until = i.until
  /\ i.rev <= j.rev
LEMMA RenewedIncidents ==
  ASSUME IncidentsInv, UNCHANGED <<rows, streams, stored, lifecycle>>, NEW f,
         incidents' = {f[i] : i \in incidents}, \A i \in incidents : Renewed(i, f[i])
  PROVE  IncidentsInv'
<1>1. LifeIs'
  BY DEF IncidentsInv, LifeIs, Consecutive, Measured
<1>2. ASSUME NEW i \in incidents, NEW j, j = f[i] PROVE IncidentIs(j)'
  <2>1. CoreIs(j) /\ PastIs(j)
    BY <1>2 DEF IncidentsInv, IncidentIs, Renewed, PastIs, SameKey
  <2>2. CoreIs(j)'
    BY <2>1, CoreStays
  <2>3. PastIs(j)'
    BY <2>1 DEF PastIs, SameKey
  <2>4. j.id = i.id /\ j.status = i.status /\ (i.status = "open" <=> lifecycle.active = i.id)
    BY <1>2 DEF IncidentsInv, IncidentIs, Renewed
  <2> QED BY <2>2, <2>3, <2>4 DEF IncidentIs
<1>3. \A j \in incidents' : IncidentIs(j)'
  BY <1>2
<1>4. ASSUME NEW k \in incidents', NEW l \in incidents', k.id = l.id PROVE k = l
  <2>1. PICK i \in incidents : k = f[i] /\ k.id = i.id
    BY DEF Renewed
  <2>2. PICK j \in incidents : l = f[j] /\ l.id = j.id
    BY DEF Renewed
  <2>3. i = j
    BY <1>4, <2>1, <2>2 DEF IncidentsInv
  <2> QED BY <2>1, <2>2, <2>3
<1> QED BY <1>1, <1>3, <1>4 DEF IncidentsInv

LEMMA FieldsOf ==
  ASSUME NEW i, CoreIs(i)
  PROVE  \E id, a, mdl, from, st, un, ob, rev, pr :
           /\ i = [id |-> id, asset |-> a, model |-> mdl, from |-> from, status |-> st,
                   until |-> un, observed |-> ob, rev |-> rev, projected |-> pr]
           /\ id = i.id /\ a = i.asset /\ mdl = i.model /\ from = i.from /\ st = i.status
           /\ un = i.until /\ ob = i.observed /\ rev = i.rev /\ pr = i.projected
           /\ rev \in Nat /\ pr \in Nat /\ pr <= rev
BY DEF CoreIs

LEMMA CoreOf ==
  ASSUME NEW i, CoreIs(i), NEW st \in {"open", "closed"}, NEW ob, NEW rev \in Nat, NEW pr \in Nat,
         pr <= rev, i.status = "closed" => st = "closed",
         NEW j, j = [id |-> i.id, asset |-> i.asset, model |-> i.model, from |-> i.from,
                     status |-> st, until |-> i.until, observed |-> ob, rev |-> rev,
                     projected |-> pr]
  PROVE  /\ CoreIs(j) /\ j.id = i.id /\ j.from = i.from /\ j.status = st /\ j.until = i.until
         /\ j.rev = rev /\ j.projected = pr /\ j.asset = i.asset
<1>1. /\ j = [id |-> j.id, asset |-> j.asset, model |-> j.model, from |-> j.from,
              status |-> j.status, until |-> j.until, observed |-> j.observed, rev |-> j.rev,
              projected |-> j.projected]
      /\ j.id = i.id /\ j.asset = i.asset /\ j.model = i.model /\ j.from = i.from /\ j.status = st
      /\ j.until = i.until /\ j.rev = rev /\ j.projected = pr
  OBVIOUS
<1> QED BY <1>1 DEF CoreIs

LEMMA DispatchIs ==
  ASSUME IncidentsInv, Dispatch
  PROVE  /\ UNCHANGED <<rows, streams, stored, lifecycle>>
         /\ \E f : /\ incidents' = {f[i] : i \in incidents}
                   /\ \A i \in incidents : /\ Renewed(i, f[i]) /\ f[i].projected = i.projected
                                           /\ f[i].rev = i.rev => f[i] = i
<1>1. UNCHANGED <<rows, streams, stored, lifecycle>> /\ incidents' = Missing
  BY DEF Dispatch, storeVars
<1> DEFINE one(i) == IF Stale(i) THEN [i EXCEPT !.observed = "unknown", !.rev = @ + 1] ELSE i
           f == [i \in incidents |-> one(i)]
<1>2. incidents' = {one(i) : i \in incidents}
  BY <1>1 DEF Missing
<1>3. incidents' = {f[i] : i \in incidents}
  BY <1>2
<1>4. ASSUME NEW i \in incidents
      PROVE Renewed(i, f[i]) /\ f[i].projected = i.projected /\ (f[i].rev = i.rev => f[i] = i)
  <2>1. f[i] = one(i) /\ CoreIs(i)
    BY DEF IncidentsInv, IncidentIs
  <2>2. CASE ~Stale(i)
    <3>1. f[i] = i /\ i.rev <= i.rev
      BY <2>1, <2>2 DEF CoreIs
    <3> HIDE DEF f
    <3> QED BY <2>1, <3>1 DEF Renewed
  <2>3. CASE Stale(i)
    <3>1. PICK id, a, mdl, from, st, un, ob, rev, pr :
           /\ i = [id |-> id, asset |-> a, model |-> mdl, from |-> from, status |-> st,
                   until |-> un, observed |-> ob, rev |-> rev, projected |-> pr]
           /\ id = i.id /\ a = i.asset /\ mdl = i.model /\ from = i.from /\ st = i.status
           /\ un = i.until /\ ob = i.observed /\ rev = i.rev /\ pr = i.projected
           /\ rev \in Nat /\ pr \in Nat /\ pr <= rev
      BY <2>1, FieldsOf
    <3>2. PICK k : k = [i EXCEPT !.observed = "unknown", !.rev = rev + 1]
      OBVIOUS
    <3>3. f[i] = k
      BY <2>1, <2>3, <3>1, <3>2
    <3>4. k = [id |-> id, asset |-> a, model |-> mdl, from |-> from, status |-> st,
               until |-> un, observed |-> "unknown", rev |-> rev + 1, projected |-> pr]
      BY <3>1, <3>2
    <3>5. k = [id |-> i.id, asset |-> i.asset, model |-> i.model, from |-> i.from,
               status |-> st, until |-> i.until, observed |-> "unknown", rev |-> rev + 1,
               projected |-> pr]
      BY <3>1, <3>4
    <3>6. pr <= rev + 1 /\ rev + 1 \in Nat /\ rev <= rev + 1 /\ rev + 1 # rev
      BY <3>1
    <3>7. st \in {"open", "closed"} /\ (i.status = "closed" => st = "closed")
      BY SMTT(60), <2>1, <3>1 DEF CoreIs
    <3>8. /\ CoreIs(k) /\ k.id = i.id /\ k.from = i.from /\ k.status = st /\ k.until = i.until
          /\ k.rev = rev + 1 /\ k.projected = pr
      BY ONLY <2>1, <3>1, <3>5, <3>6, <3>7, CoreOf
    <3> HIDE DEF f
    <3> QED BY <3>1, <3>3, <3>6, <3>8 DEF Renewed
  <2> QED BY <2>2, <2>3
<1> HIDE DEF f
<1> QED BY <1>1, <1>3, <1>4

LEMMA MarkIs ==
  ASSUME IncidentsInv, Mark
  PROVE  /\ UNCHANGED <<rows, streams, stored, lifecycle>>
         /\ \E f : /\ incidents' = {f[i] : i \in incidents}
                   /\ \A i \in incidents :
                        /\ Renewed(i, f[i]) /\ f[i].rev = i.rev
                        /\ \/ f[i] = i
                           \/ i.id = marking.id /\ i.rev # marking.rev /\ f[i].projected = i.projected
                           \/ i.id = marking.id /\ i.rev = marking.rev
<1>1. /\ UNCHANGED <<rows, streams, stored, lifecycle>>
      /\ incidents' = {IF i.id = marking.id
                       THEN [i EXCEPT !.projected = MarkedAs(i, marking)] ELSE i : i \in incidents}
  BY DEF Mark, storeVars
<1> DEFINE one(i) == IF i.id = marking.id
                     THEN [i EXCEPT !.projected = MarkedAs(i, marking)] ELSE i
           f == [i \in incidents |-> one(i)]
<1>3. incidents' = {f[i] : i \in incidents}
  BY <1>1
<1>4. ASSUME NEW i \in incidents
      PROVE  /\ Renewed(i, f[i]) /\ f[i].rev = i.rev
             /\ \/ f[i] = i
                \/ i.id = marking.id /\ i.rev # marking.rev /\ f[i].projected = i.projected
                \/ i.id = marking.id /\ i.rev = marking.rev
  <2>1. f[i] = one(i) /\ CoreIs(i)
    BY DEF IncidentsInv, IncidentIs
  <2>2. CASE i.id # marking.id
    <3>1. f[i] = i /\ i.rev <= i.rev
      BY <2>1, <2>2 DEF CoreIs
    <3> HIDE DEF f
    <3> QED BY <2>1, <3>1 DEF Renewed
  <2>3. CASE i.id = marking.id
    <3>1. PICK id, a, mdl, from, st, un, ob, rev, pr :
           /\ i = [id |-> id, asset |-> a, model |-> mdl, from |-> from, status |-> st,
                   until |-> un, observed |-> ob, rev |-> rev, projected |-> pr]
           /\ id = i.id /\ a = i.asset /\ mdl = i.model /\ from = i.from /\ st = i.status
           /\ un = i.until /\ ob = i.observed /\ rev = i.rev /\ pr = i.projected
           /\ rev \in Nat /\ pr \in Nat /\ pr <= rev
      BY <2>1, FieldsOf
    <3>0. PICK p : p = MarkedAs(i, marking)
      OBVIOUS
    <3>2. PICK k : k = [i EXCEPT !.projected = p]
      OBVIOUS
    <3>3. f[i] = k
      BY <2>1, <2>3, <3>0, <3>2
    <3>4. k = [id |-> id, asset |-> a, model |-> mdl, from |-> from, status |-> st,
               until |-> un, observed |-> ob, rev |-> rev, projected |-> p]
      BY <3>1, <3>2
    <3>5. k = [id |-> i.id, asset |-> i.asset, model |-> i.model, from |-> i.from,
               status |-> st, until |-> i.until, observed |-> ob, rev |-> rev,
               projected |-> p]
      BY <3>1, <3>4
    <3>6. p \in Nat /\ p <= rev /\ (rev # marking.rev => p = pr) /\ rev <= rev
      BY <3>0, <3>1 DEF MarkedAs
    <3>7. st \in {"open", "closed"} /\ (i.status = "closed" => st = "closed")
      BY SMTT(60), <2>1, <3>1 DEF CoreIs
    <3>8. /\ CoreIs(k) /\ k.id = i.id /\ k.from = i.from /\ k.status = st /\ k.until = i.until
          /\ k.rev = rev /\ k.projected = p
      BY ONLY SMTT(60), <2>1, <3>1, <3>5, <3>6, <3>7, CoreOf
    <3> HIDE DEF f
    <3> QED BY <2>3, <3>1, <3>3, <3>6, <3>8 DEF Renewed
  <2> QED BY <2>2, <2>3
<1> HIDE DEF f
<1> QED BY <1>1, <1>3, <1>4

LEMMA ResolveIs ==
  ASSUME IncidentsInv, NEW i \in incidents, Resolve(i)
  PROVE  /\ UNCHANGED <<rows, streams, stored>>
         /\ lifecycle' = [active |-> NoRow, boot |-> lifecycle.boot, idx |-> lifecycle.idx,
                          asset |-> lifecycle.asset, model |-> lifecycle.model,
                          at |-> lifecycle.at, hits |-> <<>>]
         /\ i.status = "open"
         /\ \E j : /\ incidents' = (incidents \ {i}) \cup {j} /\ CoreIs(j) /\ j.id = i.id
                   /\ j.from = i.from /\ j.status = "closed" /\ j.until = i.until
                   /\ j.rev = i.rev + 1 /\ j.projected = i.projected
<1>1. PICK id, a, mdl, from, st, un, ob, rev, pr :
           /\ i = [id |-> id, asset |-> a, model |-> mdl, from |-> from, status |-> st,
                   until |-> un, observed |-> ob, rev |-> rev, projected |-> pr]
           /\ id = i.id /\ a = i.asset /\ mdl = i.model /\ from = i.from /\ st = i.status
           /\ un = i.until /\ ob = i.observed /\ rev = i.rev /\ pr = i.projected
           /\ rev \in Nat /\ pr \in Nat /\ pr <= rev
  BY FieldsOf DEF IncidentsInv, IncidentIs
<1>2. PICK j : j = [i EXCEPT !.status = "closed", !.rev = rev + 1,
                             !.observed = "operator_resolved"]
  OBVIOUS
<1>3. incidents' = (incidents \ {i}) \cup {j}
  BY <1>1, <1>2 DEF Resolve, Replace
<1>4. j = [id |-> id, asset |-> a, model |-> mdl, from |-> from, status |-> "closed",
           until |-> un, observed |-> "operator_resolved", rev |-> rev + 1, projected |-> pr]
  BY <1>1, <1>2
<1>5. j = [id |-> i.id, asset |-> i.asset, model |-> i.model, from |-> i.from,
           status |-> "closed", until |-> i.until, observed |-> "operator_resolved",
           rev |-> rev + 1, projected |-> pr]
  BY <1>1, <1>4
<1>6. pr <= rev + 1 /\ rev + 1 \in Nat
  BY <1>1
<1>7. CoreIs(i)
  BY DEF IncidentsInv, IncidentIs
<1>8. /\ CoreIs(j) /\ j.id = i.id /\ j.from = i.from /\ j.status = "closed"
      /\ j.until = i.until /\ j.rev = rev + 1 /\ j.projected = pr
  BY ONLY <1>5, <1>6, <1>7, CoreOf, <1>1
<1>9. i.status = "open" /\ lifecycle.active = i.id
  BY DEF Resolve, IncidentsInv, IncidentIs
<1>10. PICK ac, boot, idx, la, lm, at, hits :
         /\ lifecycle = [active |-> ac, boot |-> boot, idx |-> idx, asset |-> la, model |-> lm,
                         at |-> at, hits |-> hits]
         /\ boot = lifecycle.boot /\ idx = lifecycle.idx /\ la = lifecycle.asset
         /\ lm = lifecycle.model /\ at = lifecycle.at
  BY DEF IncidentsInv, LifeIs
<1>11. PICK k : k = [lifecycle EXCEPT !.active = NoRow, !.hits = <<>>]
  OBVIOUS
<1>12. k = [active |-> NoRow, boot |-> boot, idx |-> idx, asset |-> la, model |-> lm,
            at |-> at, hits |-> <<>>]
  BY <1>10, <1>11
<1>13. lifecycle' = k
  BY <1>9, <1>11 DEF Resolve
<1>14. UNCHANGED <<rows, streams, stored>>
  BY DEF Resolve, storeVars
<1> QED BY <1>1, <1>3, <1>8, <1>9, <1>10, <1>12, <1>13, <1>14

LEMMA ResolveIncidents ==
  ASSUME IncidentsInv, NEW i \in incidents, Resolve(i)
  PROVE  IncidentsInv'
<1>1. PICK j : /\ incidents' = (incidents \ {i}) \cup {j} /\ CoreIs(j) /\ j.id = i.id
               /\ j.from = i.from /\ j.status = "closed"
  BY ResolveIs
<1>2. UNCHANGED <<rows, streams, stored>> /\ i.status = "open"
  BY ResolveIs
<1>3. LifeIs'
  <2>1. PICK boot, idx, a, at : /\ boot = lifecycle.boot /\ idx = lifecycle.idx
                                /\ a = lifecycle.asset /\ at = lifecycle.at
    OBVIOUS
  <2>2. Consecutive(boot, idx, a, <<>>)'
    BY <1>2, NoChain, ChainStays
  <2>3. at \in Int
    BY <2>1 DEF IncidentsInv, LifeIs
  <2> QED BY <2>1, <2>2, <2>3, ResolveIs DEF LifeIs
<1>4. lifecycle'.active = NoRow
  BY ResolveIs
<1>5. PastIs(j)
  BY <1>1 DEF IncidentsInv, IncidentIs, PastIs, SameKey
<1>6. \A k \in incidents' : CoreIs(k) /\ PastIs(k) /\ k.status # "open"
  BY <1>1, <1>2, <1>5 DEF IncidentsInv, IncidentIs
<1>7. ASSUME NEW k \in incidents' PROVE IncidentIs(k)'
  <2>1. CoreIs(k)'
    BY <1>2, <1>6, CoreStays
  <2>2. PastIs(k)'
    BY <1>2, <1>6 DEF PastIs, SameKey
  <2>3. k.id # NoRow
    BY <1>6, IdsNameIncidents
  <2> QED BY <1>4, <1>6, <2>1, <2>2, <2>3 DEF IncidentIs
<1>8. \A k, l \in incidents' : k.id = l.id => k = l
  BY <1>1 DEF IncidentsInv
<1> QED BY <1>3, <1>7, <1>8 DEF IncidentsInv

LEMMA OtherIncidents ==
  ASSUME IncidentsInv, UNCHANGED <<rows, streams, stored, incidents, lifecycle>>
  PROVE  IncidentsInv'
<1>1. LifeIs'
  BY DEF IncidentsInv, LifeIs, Consecutive, Measured
<1>2. \A i \in incidents : CoreIs(i)' /\ PastIs(i)'
  BY CoreStays DEF IncidentsInv, IncidentIs, PastIs, SameKey
<1> QED BY <1>1, <1>2 DEF IncidentsInv, IncidentIs

-----------------------------------------------------------------------------
(* Times.                                                                  *)

LEMMA IngestTimes ==
  ASSUME WindowsInv, TimesInv, NEW b \in Batches, NEW lost \in BOOLEAN, Ingest(b, lost)
  PROVE  TimesInv'
<1> SUFFICES ASSUME LegacyIsLast PROVE LifeTimes' /\ \A i \in incidents' : BeganBefore(i)'
  BY DEF TimesInv
<1>1. UNCHANGED <<incidents, lifecycle>>
  BY DEF Ingest, incidentVars
<1>2. \A i \in incidents : BeganBefore(i)'
  BY <1>1 DEF TimesInv, BeganBefore
<1>3. SUFFICES ASSUME lifecycle.asset # NoRow PROVE LifeTimes'
  BY <1>1, <1>2 DEF LifeTimes
<1>4. PICK v \in Windows : /\ v.boot = lifecycle.boot /\ v.idx = lifecycle.idx
                           /\ lifecycle.at = At(v) /\ v.idx <= streams[v.boot].idx
  BY <1>3 DEF TimesInv, LifeTimes
<1>5. /\ v.boot \in DOMAIN BootTime /\ v.idx \in Nat
      /\ streams[v.boot].idx \in Int /\ streams'[v.boot].idx \in Int
      /\ streams'[v.boot].idx >= streams[v.boot].idx
  BY TimesOfWindows, IngestIs DEF WindowsInv, StreamsAre
<1>6. ASSUME NEW r \in rows', r.mode = "legacy", r.status = "queued", r.w.boot = lifecycle.boot
      PROVE  lifecycle.idx < r.w.idx
  <2>1. CASE r \in rows
    BY <1>3, <1>6, <2>1 DEF TimesInv, LifeTimes
  <2>2. CASE r \notin rows
    <3>1. r.w.idx > streams[r.w.boot].idx /\ r.w \in Windows
      BY <1>6, <2>2, IngestIs
    <3>2. r.w.idx \in Nat
      BY <3>1, TimesOfWindows
    <3> QED BY <1>4, <1>5, <1>6, <3>1, <3>2
  <2> QED BY <2>1, <2>2
<1>7. v.idx <= streams'[v.boot].idx
  BY <1>4, <1>5
<1> QED BY <1>1, <1>4, <1>6, <1>7 DEF LifeTimes

LEMMA LowsEarlier ==
  ASSUME NEW t, NEW u, NEW at, NEW seq, t \in Int, u \in Int, at \in Int, u <= t,
         NEW S, seq \in Seq(S), LowsLater(t, at, seq)
  PROVE  LowsLater(u, at, seq)
<1>1. Len(seq) \in Nat /\ DOMAIN seq = 1..Len(seq)
  OBVIOUS
<1> QED BY <1>1 DEF LowsLater

(* A chain whose lows come after t, extended by a window after t.          *)
LEMMA LowsExtended ==
  ASSUME NEW S, NEW seq \in Seq(S), NEW v \in S, NEW t \in Int, NEW at \in Int, t < at + 1,
         LowsLater(t, at, seq)
  PROVE  LowsLater(t, at + 1, LastThree(Append(seq, v)))
<1> DEFINE s == Append(seq, v)
           n == Len(s)
           m == IF n > 3 THEN n - 2 ELSE 1
           l == SubSeq(s, m, n)
<1>1. /\ s \in Seq(S) /\ n = Len(seq) + 1 /\ Len(seq) \in Nat /\ DOMAIN seq = 1..Len(seq)
      /\ \A j \in 1..Len(seq) : s[j] = seq[j]
  OBVIOUS
<1> HIDE DEF s
<1>2. \A j \in 1..n : s[j] = "low" => t < at + 1 - n + j
  <2> TAKE j \in 1..n
  <2>1. CASE j = n
    BY <1>1, <2>1
  <2>2. CASE j # n
    <3>1. j \in 1..Len(seq) /\ at + 1 - n + j = at - Len(seq) + j
      BY <1>1, <2>2
    <3> QED BY <1>1, <3>1 DEF LowsLater
  <2> QED BY <2>1, <2>2
<1>3. m \in 1..n /\ n \in Nat /\ n <= n /\ m <= n + 1
  BY <1>1
<1>4. l \in Seq(S) /\ Len(l) = n - m + 1 /\ \A k \in 1..(n - m + 1) : l[k] = s[m + k - 1]
  <2> HIDE DEF n, m
  <2>1. n = Len(s)
    BY DEF n
  <2>2. n \in 1..n /\ m \in Nat
    BY <1>3
  <2> QED BY <1>1, <1>3, <2>1, <2>2, SubSeqProperties
<1> HIDE DEF l, n, m
<1>5. ASSUME NEW k \in DOMAIN l, l[k] = "low" PROVE t < at + 1 - Len(l) + k
  <2>1. k \in 1..(n - m + 1)
    BY <1>3, <1>4
  <2>2. m + k - 1 \in 1..n /\ at + 1 - n + (m + k - 1) = at + 1 - Len(l) + k
    BY SMTT(60), <1>3, <1>4, <2>1
  <2> QED BY <1>2, <1>4, <1>5, <2>1, <2>2
<1>6. l = LastThree(Append(seq, v))
  BY DEF l, n, m, s, LastThree
<1> QED BY <1>5, <1>6 DEF LowsLater

(* What is applied was measured after what was applied before it.          *)
LEMMA AppliedLater ==
  ASSUME WindowsInv, IncidentsInv, TimesInv, LegacyIsLast, Finish, Applies(picked, Lane(picked)),
         lifecycle.asset # NoRow
  PROVE  lifecycle.at < At(picked.w)
<1> DEFINE w == picked.w
<1>1. PICK v \in Windows : /\ v.boot = lifecycle.boot /\ v.idx = lifecycle.idx
                           /\ lifecycle.at = At(v)
  BY DEF TimesInv, LifeTimes
<1>2. w \in Windows /\ picked \in rows /\ picked.status = "queued" /\ picked.mode \in Modes
  BY FinishedWindow
<1>3. CASE Lane(picked) # "none"
  BY <1>3 DEF Applies
<1>4. CASE Lane(picked) = "none"
  <2>1. picked.mode = "legacy"
    BY <1>2, <1>4 DEF Lane, Modes
  <2>2. PICK b \in Batches : b.mode = "legacy" /\ w \in Range(b.windows)
    BY <1>2, <2>1 DEF WindowsInv, TableIs, RowIs, Sent
  <2>3. PICK c \in Batches : v \in Range(c.windows)
    BY DEF Windows
  <2>4. CASE v.boot = w.boot
    <3>1. v.idx < w.idx
      BY <1>1, <1>2, <2>1, <2>4 DEF TimesInv, LifeTimes
    <3>2. BootTime[w.boot] \in Int /\ v.idx \in Nat /\ w.idx \in Nat
      BY <1>2, RawConstants
    <3> QED BY <1>1, <2>4, <3>1, <3>2 DEF At
  <2>5. CASE v.boot # w.boot
    BY <1>1, <2>2, <2>3, <2>5 DEF LegacyIsLast
  <2> QED BY <2>4, <2>5
<1> QED BY <1>3, <1>4

LEMMA FinishLifeTimes ==
  ASSUME WindowsInv, IncidentsInv, TimesInv, LegacyIsLast, Finish
  PROVE  LifeTimes'
<1> DEFINE w == picked.w
<1>1. /\ w \in Windows /\ picked \in rows /\ picked.status = "queued" /\ picked.mode \in Modes
      /\ w.idx <= streams[w.boot].idx /\ UNCHANGED streams
      /\ \A r \in rows' : r.status = "queued" => r \in rows /\ r # picked
  BY FinishedWindow
<1>2. CASE UNCHANGED <<incidents, lifecycle>>
  BY <1>1, <1>2 DEF TimesInv, LifeTimes
<1>3. CASE ~UNCHANGED <<incidents, lifecycle>>
  <2>1. lifecycle' = [active |-> lifecycle'.active, boot |-> w.boot, idx |-> w.idx,
                      asset |-> w.asset, model |-> model, at |-> At(w), hits |-> Hits(w)]
        /\ Applies(picked, Lane(picked))
    BY <1>3, FinishCases
  <2>2. lifecycle'.boot = w.boot /\ lifecycle'.idx = w.idx /\ lifecycle'.at = At(w)
    BY <2>1
  <2>3. ASSUME NEW r \in rows', r.mode = "legacy", r.status = "queued", r.w.boot = w.boot
        PROVE  w.idx < r.w.idx
    <3>1. r \in rows /\ r # picked
      BY <1>1, <2>3
    <3>2. PICK b \in Batches : b.mode = "legacy" /\ r.w \in Range(b.windows)
      BY <2>3, <3>1 DEF WindowsInv, TableIs, RowIs, Sent
    <3>3. PICK c \in Batches : c.mode = picked.mode /\ w \in Range(c.windows)
      BY <1>1 DEF WindowsInv, TableIs, RowIs, Sent
    <3>4. picked.mode = "legacy"
      BY <2>3, <3>2, <3>3 DEF LegacyIsLast
    <3> QED BY <2>3, <3>1, <3>4 DEF Finish, WindowsInv, PickedIs
  <2> HIDE DEF w
  <2>4. w \in Windows /\ w.idx <= streams'[w.boot].idx
    BY <1>1 DEF w
  <2> QED BY <2>2, <2>3, <2>4 DEF LifeTimes, At
<1> QED BY <1>2, <1>3

LEMMA HitsLater ==
  ASSUME WindowsInv, IncidentsInv, TimesInv, LegacyIsLast, Finish, Applies(picked, Lane(picked)),
         NEW i \in incidents, i.status = "open"
  PROVE  At(i.from) < At(picked.w) /\ LowsLater(At(i.from), At(picked.w), Hits(picked.w))
<1> DEFINE w == picked.w
           t == At(i.from)
           V == {v.verdict : v \in Windows}
<1>1. /\ lifecycle.asset # NoRow /\ t <= lifecycle.at
      /\ LowsLater(t, lifecycle.at, lifecycle.hits)
  BY DEF TimesInv, BeganBefore
<1>2. lifecycle.at < At(w)
  BY <1>1, AppliedLater
<1>3. w \in Windows /\ At(w) \in Int /\ i.from \in Windows /\ t \in Int /\ lifecycle.at \in Int
  BY FinishedWindow, TimesOfWindows DEF IncidentsInv, IncidentIs, CoreIs, LifeIs
<1>4. t < At(w)
  BY <1>1, <1>2, <1>3
<1>5. lifecycle.hits \in Seq(V) /\ w.verdict \in V
  BY <1>3 DEF IncidentsInv, LifeIs, Consecutive
<1> DEFINE continuous == /\ lifecycle.boot = w.boot /\ lifecycle.idx = w.idx - 1
                         /\ lifecycle.asset = w.asset /\ lifecycle.model = model
<1>6. CASE w.verdict = "bad" \/ ~IsFresh(w)
  <2>1. Hits(w) = <<>>
    BY <1>6 DEF Hits
  <2> QED BY <1>4, <2>1 DEF LowsLater
<1>7. CASE ~(w.verdict = "bad" \/ ~IsFresh(w)) /\ ~continuous
  <2>1. Hits(w) = <<w.verdict>>
    BY <1>7 DEF Hits
  <2>2. PICK s : s = <<w.verdict>>
    OBVIOUS
  <2>3. Len(s) = 1 /\ DOMAIN s = {1}
    BY <2>2
  <2>4. \A k \in DOMAIN s : t < At(w) - Len(s) + k
    <3> HIDE DEF t, w
    <3> QED BY <1>3, <1>4, <2>3
  <2>5. LowsLater(t, At(w), s)
    BY <2>4 DEF LowsLater
  <2> QED BY <1>4, <2>1, <2>2, <2>5
<1>8. CASE ~(w.verdict = "bad" \/ ~IsFresh(w)) /\ continuous
  <2>1. Hits(w) = LastThree(Append(lifecycle.hits, w.verdict))
    BY <1>8 DEF Hits
  <2>2. PICK v \in Windows : /\ v.boot = lifecycle.boot /\ v.idx = lifecycle.idx
                             /\ lifecycle.at = At(v)
    BY <1>1 DEF TimesInv, LifeTimes
  <2>3. BootTime[w.boot] \in Int /\ v.idx \in Nat /\ w.idx \in Nat
    BY <1>3, RawConstants
  <2>4. At(w) = lifecycle.at + 1
    BY <1>8, <2>2, <2>3 DEF At
  <2>5. t < lifecycle.at + 1
    BY <1>4, <2>4
  <2> HIDE DEF t, V, w
  <2>6. LowsLater(t, lifecycle.at + 1, LastThree(Append(lifecycle.hits, w.verdict)))
    BY <1>1, <1>3, <1>5, <2>5, LowsExtended
  <2> QED BY <1>4, <2>1, <2>4, <2>6 DEF t, w
<1> QED BY <1>6, <1>7, <1>8

LEMMA FinishTimes ==
  ASSUME WindowsInv, IncidentsInv, TimesInv, Finish
  PROVE  TimesInv'
<1> DEFINE w == picked.w
<1> SUFFICES ASSUME LegacyIsLast PROVE \A i \in incidents' : BeganBefore(i)'
  BY FinishLifeTimes DEF TimesInv
<1>0. w \in Windows /\ At(w) \in Int /\ w.asset # NoRow
  BY FinishedWindow, TimesOfWindows
<1>1. CASE UNCHANGED <<incidents, lifecycle>>
  BY <1>1 DEF TimesInv, BeganBefore
<1>2. CASE ~UNCHANGED <<incidents, lifecycle>>
  <2>1. PICK at, hits, a : at = At(w) /\ hits = Hits(w) /\ a = w.asset
    OBVIOUS
  <2>2. /\ lifecycle'.at = at /\ lifecycle'.hits = hits /\ lifecycle'.asset = a
        /\ Applies(picked, Lane(picked))
    <3>1. /\ lifecycle' = [active |-> lifecycle'.active, boot |-> w.boot, idx |-> w.idx,
                           asset |-> w.asset, model |-> model, at |-> At(w), hits |-> Hits(w)]
          /\ Applies(picked, Lane(picked))
      BY <1>2, FinishCases
    <3> QED BY <2>1, <3>1
  <2>3. ASSUME NEW i \in incidents, i.status = "open"
        PROVE  At(i.from) < at /\ LowsLater(At(i.from), at, hits)
    BY <2>1, <2>2, <2>3, HitsLater
  <2>4. \A i \in incidents : i.from \in Windows /\ At(i.from) \in Int
    BY TimesOfWindows DEF IncidentsInv, IncidentIs, CoreIs
  <2>5. \A i \in incidents : i.until # NoRow => At(i.until) > At(i.from) + 2
    BY DEF TimesInv, BeganBefore
  <2>6. \A i \in incidents : BeganBefore(i)'
    BY <1>0, <2>1, <2>2, <2>3, <2>4, <2>5 DEF BeganBefore, LowsLater, At
  <2>7. ASSUME NEW i \in incidents, NEW j, j = Observe(i, w), lifecycle.active = i.id
        PROVE  BeganBefore(j)'
    <3>1. /\ j.from = i.from
          /\ \/ j = i \/ (j.status = i.status /\ j.until = i.until)
             \/ (j.status = "closed" /\ j.until = w /\ Hits(w) = <<"low", "low", "low">>)
      BY <2>7, ObserveIs
    <3>2. CASE j = i \/ (j.status = i.status /\ j.until = i.until)
      BY <2>6, <3>1, <3>2 DEF BeganBefore, LowsLater, At
    <3>3. CASE j.status = "closed" /\ j.until = w /\ Hits(w) = <<"low", "low", "low">>
      <4>1. i.status = "open"
        BY <2>7 DEF IncidentsInv, IncidentIs
      <4>2. hits = <<"low", "low", "low">>
        BY <2>1, <3>3
      <4>3. 1 \in DOMAIN hits /\ hits[1] = "low" /\ Len(hits) = 3
        BY <4>2
      <4>4. At(i.from) < at - 3 + 1
        BY <2>3, <4>1, <4>3 DEF LowsLater
      <4>5. PICK t : t = At(i.from) /\ t \in Int
        BY <2>4
      <4>6. at > t + 2
        BY <1>0, <2>1, <4>4, <4>5
      <4>7. At(j.until) > At(j.from) + 2
        BY <2>1, <3>1, <3>3, <4>5, <4>6
      <4> QED BY <3>3, <4>7 DEF BeganBefore, At
    <3> QED BY <3>1, <3>2, <3>3
  <2>8. ASSUME NEW j, j = Opened(w), Hits(w) = <<"high", "high", "high">>
        PROVE  BeganBefore(j)'
    <3>1. j.from = w /\ j.until = NoRow
      BY <2>2, <2>8, OpenedIs
    <3>2. hits = <<"high", "high", "high">>
      BY <2>1, <2>8
    <3>3. \A k \in DOMAIN hits : hits[k] = "high"
      BY <3>2
    <3>4. At(j.from) <= at /\ At(j.from) = at
      BY <1>0, <2>1, <3>1
    <3> QED BY <1>0, <2>1, <2>2, <3>1, <3>3, <3>4 DEF BeganBefore, LowsLater, At
  <2> QED BY <1>2, <2>6, <2>7, <2>8, FinishCases
<1> QED BY <1>1, <1>2

LEMMA RenewedTimes ==
  ASSUME TimesInv, UNCHANGED <<rows, streams, stored, lifecycle>>, NEW f,
         incidents' = {f[i] : i \in incidents}, \A i \in incidents : Renewed(i, f[i])
  PROVE  TimesInv'
<1> SUFFICES ASSUME LegacyIsLast PROVE LifeTimes' /\ \A j \in incidents' : BeganBefore(j)'
  BY DEF TimesInv
<1>1. LifeTimes'
  BY DEF TimesInv, LifeTimes
<1>2. ASSUME NEW i \in incidents, NEW j, j = f[i] PROVE BeganBefore(j)'
  BY <1>2 DEF Renewed, TimesInv, BeganBefore
<1> QED BY <1>1, <1>2

LEMMA ResolveTimes ==
  ASSUME IncidentsInv, TimesInv, NEW i \in incidents, Resolve(i)
  PROVE  TimesInv'
<1> SUFFICES ASSUME LegacyIsLast PROVE LifeTimes' /\ \A k \in incidents' : BeganBefore(k)'
  BY DEF TimesInv
<1>1. PICK j : /\ incidents' = (incidents \ {i}) \cup {j} /\ j.from = i.from
               /\ j.status = "closed" /\ j.until = i.until
  BY ResolveIs
<1>2. /\ UNCHANGED <<rows, streams, stored>> /\ i.status = "open"
      /\ lifecycle'.boot = lifecycle.boot /\ lifecycle'.idx = lifecycle.idx
      /\ lifecycle'.asset = lifecycle.asset /\ lifecycle'.at = lifecycle.at
  BY ResolveIs
<1>3. LifeTimes'
  BY <1>2 DEF TimesInv, LifeTimes
<1>4. \A k \in incidents \ {i} : k.status # "open"
  BY <1>2 DEF IncidentsInv, IncidentIs
<1>5. \A k \in incidents : k.until # NoRow => At(k.until) > At(k.from) + 2
  BY DEF TimesInv, BeganBefore
<1>6. \A k \in incidents' : k.status # "open" /\ (k.until # NoRow => At(k.until) > At(k.from) + 2)
  BY <1>1, <1>4, <1>5
<1> QED BY <1>3, <1>6 DEF BeganBefore

LEMMA OtherTimes ==
  ASSUME TimesInv, UNCHANGED <<rows, streams, incidents, lifecycle>>
  PROVE  TimesInv'
BY DEF TimesInv, LifeTimes, BeganBefore, LowsLater, At

-----------------------------------------------------------------------------
(* What operators see.                                                     *)

Later(i, j) ==
  /\ j.id = i.id /\ i.rev <= j.rev /\ (j.rev = i.rev => j.status = i.status)
  /\ i.status = "closed" => j.status = "closed"

LEMMA CopyStays ==
  ASSUME NEW c, NEW i, NEW j, CopyOf(c, i), Later(i, j), i.rev \in Nat, j.rev \in Nat
  PROVE  CopyOf(c, j)
BY DEF CopyOf, Later

LEMMA RevsAreNumbers ==
  ASSUME IncidentsInv, NEW i \in incidents
  PROVE  i.rev \in Nat /\ i.projected \in Nat /\ i.projected <= i.rev /\ CopyOf(i, i)
BY DEF IncidentsInv, IncidentIs, CoreIs, CopyOf

(* Incidents move on, nobody is shown anything.                            *)
LEMMA GrownView ==
  ASSUME IncidentsInv, IncidentsInv', ViewInv, UNCHANGED <<copied, marking, view>>,
         \A i \in incidents : \E j \in incidents' : Later(i, j),
         \A j \in incidents' : j.projected = j.rev =>
           \E i \in incidents : /\ i.id = j.id /\ i.projected = i.rev /\ i.rev = j.rev
                                /\ i.status = j.status
  PROVE  ViewInv'
<1>1. ASSUME NEW c, NEW i \in incidents, CopyOf(c, i)
      PROVE  \E j \in incidents' : CopyOf(c, j)
  <2>1. PICK j \in incidents' : Later(i, j)
    OBVIOUS
  <2>2. i.rev \in Nat /\ j.rev \in Nat
    BY DEF IncidentsInv, IncidentIs, CoreIs
  <2> QED BY <1>1, <2>1, <2>2, CopyStays
<1>2. \A c \in copied : \E j \in incidents' : CopyOf(c, j)
  BY <1>1 DEF ViewInv
<1>3. \A e \in view : \E j \in incidents' : CopyOf(e.inc, j)
  BY <1>1 DEF ViewInv
<1>4. marking # NoRow => \E j \in incidents' : CopyOf(marking, j)
  BY <1>1 DEF ViewInv
<1>5. ASSUME NEW j \in incidents', j.projected = j.rev PROVE \E e \in view : Shows(e, j)
  <2>1. PICK i \in incidents : /\ i.id = j.id /\ i.projected = i.rev /\ i.rev = j.rev
                               /\ i.status = j.status
    BY <1>5
  <2>2. PICK e \in view : Shows(e, i)
    BY <2>1 DEF ViewInv
  <2> QED BY <2>1, <2>2 DEF Shows
<1>6. copied' = copied /\ marking' = marking /\ view' = view
  OBVIOUS
<1>7. /\ \A c, d \in copied : c.id = d.id => c = d
      /\ \A e \in view : /\ e = [inc |-> e.inc, reviewed |-> e.reviewed]
                         /\ e.reviewed \in BOOLEAN
      /\ \A e, f \in view : e.inc.id = f.inc.id => e = f
      /\ \A e \in view, c \in copied : e.inc.id = c.id =>
           /\ c.rev >= e.inc.rev /\ e.inc.status = "closed" => c.status = "closed"
           /\ c.rev = e.inc.rev => c.status = e.inc.status
      /\ marking # NoRow => \E e \in view : e.inc.id = marking.id /\ e.inc.rev >= marking.rev
  BY DEF ViewInv
<1> QED BY <1>2, <1>3, <1>4, <1>5, <1>6, <1>7 DEF ViewInv, CopyOf, Shows

LEMMA FinishGrows ==
  ASSUME WindowsInv, IncidentsInv, Finish
  PROVE  /\ \A i \in incidents : \E j \in incidents' : Later(i, j)
         /\ \A j \in incidents' : j.projected = j.rev =>
              \E i \in incidents : /\ i.id = j.id /\ i.projected = i.rev /\ i.rev = j.rev
                                   /\ i.status = j.status
<1> DEFINE w == picked.w
<1>1. \A i \in incidents : i.rev \in Nat /\ i.projected \in Nat /\ i.projected <= i.rev
                           /\ Later(i, i)
  BY RevsAreNumbers DEF Later
<1>2. CASE incidents' = incidents
  BY <1>1, <1>2
<1>3. ASSUME NEW i \in incidents, NEW j, j = Observe(i, w), lifecycle.active = i.id,
             incidents' = (incidents \ {i}) \cup {j}
      PROVE  /\ \A k \in incidents : \E l \in incidents' : Later(k, l)
             /\ \A l \in incidents' : l.projected = l.rev =>
                  \E k \in incidents : /\ k.id = l.id /\ k.projected = k.rev /\ k.rev = l.rev
                                       /\ k.status = l.status
  <2>1. /\ j.id = i.id /\ i.rev <= j.rev /\ j.projected = i.projected
        /\ j.rev = i.rev => j = i
        /\ j = i \/ j.status = i.status \/ j.status = "closed"
        /\ i.status = "open" /\ CoreIs(j)'
    BY <1>3, ObserveIs DEF IncidentsInv, IncidentIs
  <2>2. Later(i, j)
    BY <2>1 DEF Later
  <2>3. j.rev \in Nat /\ (j.projected = j.rev => j = i)
    BY <1>1, <2>1 DEF CoreIs
  <2> QED BY <1>1, <1>3, <2>2, <2>3
<1>4. ASSUME NEW j, j = Opened(w), incidents' = incidents \cup {j}
      PROVE  /\ \A k \in incidents : \E l \in incidents' : Later(k, l)
             /\ \A l \in incidents' : l.projected = l.rev =>
                  \E k \in incidents : /\ k.id = l.id /\ k.projected = k.rev /\ k.rev = l.rev
                                       /\ k.status = l.status
  <2>1. j.projected = 0 /\ j.rev = 1
    BY <1>4 DEF Opened
  <2> QED BY <1>1, <1>4, <2>1
<1> QED BY <1>2, <1>3, <1>4, FinishCases

LEMMA ResolveGrows ==
  ASSUME IncidentsInv, NEW i \in incidents, Resolve(i)
  PROVE  /\ \A k \in incidents : \E j \in incidents' : Later(k, j)
         /\ \A j \in incidents' : j.projected = j.rev =>
              \E k \in incidents : /\ k.id = j.id /\ k.projected = k.rev /\ k.rev = j.rev
                                   /\ k.status = j.status
<1>1. \A k \in incidents : k.rev \in Nat /\ k.projected \in Nat /\ k.projected <= k.rev
                           /\ Later(k, k)
  BY RevsAreNumbers DEF Later
<1>2. PICK j : /\ incidents' = (incidents \ {i}) \cup {j} /\ j.id = i.id
               /\ j.status = "closed" /\ j.rev = i.rev + 1 /\ j.projected = i.projected
  BY ResolveIs
<1>3. Later(i, j) /\ j.projected # j.rev
  BY <1>1, <1>2 DEF Later
<1> QED BY <1>1, <1>2, <1>3

LEMMA DispatchView ==
  ASSUME IncidentsInv, IncidentsInv', ViewInv, Dispatch
  PROVE  ViewInv'
<1>1. PICK f : /\ incidents' = {f[i] : i \in incidents}
               /\ \A i \in incidents : /\ Renewed(i, f[i]) /\ f[i].projected = i.projected
                                       /\ f[i].rev = i.rev => f[i] = i
  BY DispatchIs
<1>2. /\ marking = NoRow /\ marking' = NoRow /\ view' = view
      /\ copied' \subseteq incidents'
  BY DEF Dispatch
<1>3. \A i \in incidents' : i.rev \in Nat /\ CopyOf(i, i)
  BY DEF IncidentsInv, IncidentIs, CoreIs, CopyOf
<1>4. \A i \in incidents : i.rev \in Nat /\ i.projected <= i.rev /\ i.projected \in Nat
  BY RevsAreNumbers
<1>5. \A i \in incidents : Later(i, f[i]) /\ f[i] \in incidents'
  BY <1>1, <1>4 DEF Later, Renewed
<1>6. ASSUME NEW e \in view
      PROVE \E j \in incidents' : CopyOf(e.inc, j)
  <2>1. PICK i \in incidents : CopyOf(e.inc, i)
    BY DEF ViewInv
  <2> QED BY <1>3, <1>4, <1>5, <2>1, CopyStays
<1>7. ASSUME NEW e \in view, NEW c \in copied', e.inc.id = c.id
      PROVE  CopyOf(e.inc, c)
  <2>1. PICK j \in incidents' : CopyOf(e.inc, j)
    BY <1>6
  <2>2. j = c
    BY <1>2, <1>7, <2>1 DEF IncidentsInv, CopyOf
  <2> QED BY <2>1, <2>2
<1>8. ASSUME NEW j \in incidents', j.projected = j.rev PROVE \E e \in view : Shows(e, j)
  <2>1. PICK i \in incidents : j = f[i]
    BY <1>1
  <2>2. i.rev <= j.rev /\ j.rev \in Nat /\ j.projected = i.projected
    BY <1>1, <1>3, <2>1 DEF Renewed
  <2>3. j = i
    BY <1>1, <1>4, <1>8, <2>1, <2>2
  <2> QED BY <1>8, <2>3 DEF ViewInv
<1>9. \A c, d \in copied' : c.id = d.id => c = d
  BY <1>2 DEF IncidentsInv
<1>10. \A c \in copied' : \E i \in incidents' : CopyOf(c, i)
  BY <1>2, <1>3
<1>11. \A e \in view, c \in copied' : e.inc.id = c.id =>
         /\ c.rev >= e.inc.rev /\ e.inc.status = "closed" => c.status = "closed"
         /\ c.rev = e.inc.rev => c.status = e.inc.status
  BY <1>7 DEF CopyOf
<1>12. /\ \A e \in view : /\ e = [inc |-> e.inc, reviewed |-> e.reviewed]
                          /\ e.reviewed \in BOOLEAN
       /\ \A e, g \in view : e.inc.id = g.inc.id => e = g
  BY DEF ViewInv
<1> QED BY <1>2, <1>6, <1>8, <1>9, <1>10, <1>11, <1>12 DEF ViewInv, CopyOf, Shows

LEMMA MarkView ==
  ASSUME IncidentsInv, IncidentsInv', ViewInv, Mark
  PROVE  ViewInv'
<1>1. PICK f : /\ incidents' = {f[i] : i \in incidents}
               /\ \A i \in incidents :
                    /\ Renewed(i, f[i]) /\ f[i].rev = i.rev
                    /\ \/ f[i] = i
                       \/ i.id = marking.id /\ i.rev # marking.rev /\ f[i].projected = i.projected
                       \/ i.id = marking.id /\ i.rev = marking.rev
  BY MarkIs
<1>2. /\ marking # NoRow /\ marking' = NoRow /\ view' = view /\ copied' = copied
  BY DEF Mark
<1>3. \A i \in incidents : i.rev \in Nat
  BY RevsAreNumbers
<1>4. ASSUME NEW c, NEW i \in incidents, CopyOf(c, i) PROVE \E j \in incidents' : CopyOf(c, j)
  BY <1>1, <1>3, <1>4 DEF CopyOf, Renewed
<1>5. ASSUME NEW j \in incidents', j.projected = j.rev PROVE \E e \in view : Shows(e, j)
  <2>1. PICK i \in incidents : j = f[i]
    BY <1>1
  <2>2. j.id = i.id /\ j.rev = i.rev /\ j.status = i.status
    BY <1>1, <2>1 DEF Renewed
  <2>3. CASE i.id = marking.id /\ i.rev = marking.rev
    <3>1. PICK e \in view : e.inc.id = marking.id /\ e.inc.rev >= marking.rev
      BY <1>2 DEF ViewInv
    <3>2. PICK k \in incidents : CopyOf(e.inc, k)
      BY DEF ViewInv
    <3>3. k = i
      BY <2>3, <3>1, <3>2 DEF IncidentsInv, CopyOf
    <3>4. e.inc.rev = i.rev
      BY <1>3, <2>3, <3>1, <3>2, <3>3 DEF CopyOf
    <3> QED BY <2>2, <2>3, <3>1, <3>2, <3>3, <3>4 DEF CopyOf, Shows
  <2>4. CASE ~(i.id = marking.id /\ i.rev = marking.rev)
    <3>1. i.projected = i.rev
      BY <1>1, <1>5, <2>1, <2>2, <2>4
    <3> QED BY <2>2, <3>1 DEF ViewInv, Shows
  <2> QED BY <2>3, <2>4
<1>6. /\ \A c \in copied : \E j \in incidents' : CopyOf(c, j)
      /\ \A e \in view : \E j \in incidents' : CopyOf(e.inc, j)
  BY <1>4 DEF ViewInv
<1>7. /\ \A c, d \in copied : c.id = d.id => c = d
      /\ \A e \in view : /\ e = [inc |-> e.inc, reviewed |-> e.reviewed]
                         /\ e.reviewed \in BOOLEAN
      /\ \A e, g \in view : e.inc.id = g.inc.id => e = g
      /\ \A e \in view, c \in copied : e.inc.id = c.id =>
           /\ c.rev >= e.inc.rev /\ e.inc.status = "closed" => c.status = "closed"
           /\ c.rev = e.inc.rev => c.status = e.inc.status
  BY DEF ViewInv
<1> QED BY <1>2, <1>5, <1>6, <1>7 DEF ViewInv, CopyOf, Shows

LEMMA ShowIs ==
  ASSUME ViewInv, NEW i \in copied, Show(i)
  PROVE  \E g : /\ view' = {e \in view : e.inc.id # i.id} \cup {g}
                /\ g = [inc |-> g.inc, reviewed |-> g.reviewed] /\ g.reviewed \in BOOLEAN
                /\ \/ g.inc = i /\ \A e \in view : e.inc.id # i.id
                   \/ \E e \in view : /\ e.inc.id = i.id /\ g.reviewed = e.reviewed
                                      /\ g.inc = IF e.inc.rev < i.rev THEN i ELSE e.inc
<1> DEFINE old == Shown(i.id)
<1>1. view' = IF old = {} THEN view \cup {[inc |-> i, reviewed |-> FALSE]}
              ELSE (view \ old) \cup {IF e.inc.rev < i.rev THEN [e EXCEPT !.inc = i] ELSE e :
                                      e \in old}
  BY DEF Show
<1>2. \A e : e \in old <=> e \in view /\ e.inc.id = i.id
  BY DEF Shown
<1> HIDE DEF old
<1>3. CASE old = {}
  <2>1. PICK g : g = [inc |-> i, reviewed |-> FALSE]
    OBVIOUS
  <2>2. g.inc = i /\ g.reviewed = FALSE /\ g = [inc |-> g.inc, reviewed |-> g.reviewed]
    BY <2>1
  <2>3. view' = view \cup {g} /\ \A e \in view : e.inc.id # i.id
    BY <1>1, <1>2, <1>3, <2>1
  <2>4. view' = {e \in view : e.inc.id # i.id} \cup {g}
    BY <2>3
  <2> QED BY <2>2, <2>3, <2>4
<1>4. ASSUME NEW e \in old
      PROVE \E g : /\ view' = {k \in view : k.inc.id # i.id} \cup {g}
                   /\ g = [inc |-> g.inc, reviewed |-> g.reviewed] /\ g.reviewed \in BOOLEAN
                   /\ g.reviewed = e.reviewed
                   /\ g.inc = IF e.inc.rev < i.rev THEN i ELSE e.inc
  <2>1. e \in view /\ e.inc.id = i.id /\ e = [inc |-> e.inc, reviewed |-> e.reviewed]
        /\ e.reviewed \in BOOLEAN
    BY <1>2 DEF ViewInv
  <2>2. \A k : k \in old <=> k = e
    BY <1>2, <2>1 DEF ViewInv
  <2>3. PICK t : t = [e EXCEPT !.inc = i]
    OBVIOUS
  <2>4. PICK inc, rv : inc = e.inc /\ rv = e.reviewed
    OBVIOUS
  <2>5. e = [inc |-> inc, reviewed |-> rv]
    BY <2>1, <2>4
  <2>6. t = [inc |-> i, reviewed |-> rv]
    BY <2>3, <2>5
  <2>7. PICK g : g = IF e.inc.rev < i.rev THEN t ELSE e
    OBVIOUS
  <2>8. view' = (view \ old) \cup {IF k.inc.rev < i.rev THEN [k EXCEPT !.inc = i] ELSE k :
                                   k \in old}
    BY <1>1
  <2>9. \A k : k \in {IF l.inc.rev < i.rev THEN [l EXCEPT !.inc = i] ELSE l : l \in old}
               <=> k = g
    BY <2>2, <2>3, <2>7
  <2>10. view' = {k \in view : k.inc.id # i.id} \cup {g}
    BY <1>2, <2>8, <2>9
  <2>11. g = [inc |-> g.inc, reviewed |-> g.reviewed] /\ g.reviewed = e.reviewed
         /\ g.inc = IF e.inc.rev < i.rev THEN i ELSE e.inc
    BY <2>4, <2>5, <2>6, <2>7
  <2> QED BY <2>1, <2>10, <2>11
<1>5. CASE old # {}
  <2>1. PICK e : e \in old
    BY <1>5
  <2> QED BY <1>2, <1>4, <2>1
<1> QED BY <1>3, <1>5

LEMMA ShowView ==
  ASSUME IncidentsInv, ViewInv, NEW i \in copied, Show(i)
  PROVE  ViewInv'
<1>1. PICK g : /\ view' = {e \in view : e.inc.id # i.id} \cup {g}
               /\ g = [inc |-> g.inc, reviewed |-> g.reviewed] /\ g.reviewed \in BOOLEAN
               /\ \/ g.inc = i /\ \A e \in view : e.inc.id # i.id
                  \/ \E e \in view : /\ e.inc.id = i.id /\ g.reviewed = e.reviewed
                                     /\ g.inc = IF e.inc.rev < i.rev THEN i ELSE e.inc
  BY ShowIs
<1>2. copied' = copied \ {i} /\ marking' = i /\ incidents' = incidents
  BY DEF Show, incidentVars
<1>3. PICK k \in incidents : CopyOf(i, k)
  BY DEF ViewInv
<1>4. k.rev \in Nat /\ i.rev \in Nat /\ i.rev <= k.rev /\ k.id = i.id
  BY <1>3, RevsAreNumbers DEF CopyOf
<1>5. \A e \in view : e.inc.rev \in Nat
  BY DEF ViewInv, CopyOf
<1>6. g.inc.id = i.id /\ g.inc.rev >= i.rev /\ (\E l \in incidents : CopyOf(g.inc, l))
  <2>1. CASE g.inc = i
    BY <1>3, <1>4, <2>1
  <2>2. CASE g.inc # i
    <3>1. PICK e \in view : e.inc.id = i.id /\ g.inc = e.inc /\ ~(e.inc.rev < i.rev)
      BY <1>1, <2>2
    <3> QED BY <1>4, <1>5, <3>1 DEF ViewInv
  <2> QED BY <2>1, <2>2
<1>7. ASSUME NEW l \in incidents, l.projected = l.rev PROVE \E e \in view' : Shows(e, l)
  <2>1. PICK e \in view : Shows(e, l)
    BY <1>7 DEF ViewInv
  <2>2. CASE e.inc.id # i.id
    BY <1>1, <2>1, <2>2
  <2>3. CASE e.inc.id = i.id
    <3>1. l = k
      BY <1>4, <2>1, <2>3 DEF Shows, IncidentsInv
    <3>2. g.inc = e.inc
      <4>1. PICK d \in view : d.inc.id = i.id /\ g.inc = IF d.inc.rev < i.rev THEN i ELSE d.inc
        BY <1>1, <2>3
      <4>2. d = e
        BY <2>3, <4>1 DEF ViewInv
      <4> QED BY <1>4, <2>1, <3>1, <4>1, <4>2 DEF Shows
    <3> QED BY <1>1, <2>1, <3>2 DEF Shows
  <2> QED BY <2>2, <2>3
<1>8. \A c, d \in copied' : c.id = d.id => c = d
  BY <1>2 DEF ViewInv
<1>9. \A c \in copied' : \E l \in incidents : CopyOf(c, l)
  BY <1>2 DEF ViewInv
<1>10. \A e \in view' : /\ e = [inc |-> e.inc, reviewed |-> e.reviewed] /\ e.reviewed \in BOOLEAN
                        /\ \E l \in incidents : CopyOf(e.inc, l)
  BY <1>1, <1>6 DEF ViewInv
<1>11. \A e, d \in view' : e.inc.id = d.inc.id => e = d
  BY <1>1, <1>6 DEF ViewInv
<1>12. ASSUME NEW e \in view', NEW c \in copied', e.inc.id = c.id
       PROVE  /\ c.rev >= e.inc.rev /\ e.inc.status = "closed" => c.status = "closed"
              /\ c.rev = e.inc.rev => c.status = e.inc.status
  <2>1. c.id # i.id /\ c \in copied
    BY <1>2 DEF ViewInv
  <2>2. e \in view
    BY <1>1, <1>6, <1>12, <2>1
  <2> QED BY <1>12, <2>1, <2>2 DEF ViewInv
<1>13. \E e \in view' : e.inc.id = i.id /\ e.inc.rev >= i.rev
  BY <1>1, <1>6
<1> QED BY <1>2, <1>3, <1>7, <1>8, <1>9, <1>10, <1>11, <1>12, <1>13 DEF ViewInv, CopyOf, Shows

LEMMA ReviewIs ==
  ASSUME ViewInv, NEW e \in view, Review(e)
  PROVE  \E g : /\ view' = (view \ {e}) \cup {g} /\ g.inc = e.inc /\ g.reviewed
                /\ g = [inc |-> g.inc, reviewed |-> g.reviewed] /\ g.reviewed \in BOOLEAN
<1>1. PICK inc, rv : inc = e.inc /\ rv = e.reviewed
  OBVIOUS
<1>2. e = [inc |-> inc, reviewed |-> rv]
  BY <1>1 DEF ViewInv
<1>3. PICK g : g = [e EXCEPT !.reviewed = TRUE]
  OBVIOUS
<1>4. g = [inc |-> inc, reviewed |-> TRUE]
  BY <1>2, <1>3
<1>5. g.inc = inc /\ g.reviewed = TRUE /\ g = [inc |-> g.inc, reviewed |-> g.reviewed]
  BY <1>4
<1>6. view' = (view \ {e}) \cup {g}
  BY <1>3 DEF Review
<1> QED BY <1>1, <1>5, <1>6

LEMMA ReviewView ==
  ASSUME ViewInv, NEW e \in view, Review(e)
  PROVE  ViewInv'
<1>1. PICK g : /\ view' = (view \ {e}) \cup {g} /\ g.inc = e.inc
               /\ g = [inc |-> g.inc, reviewed |-> g.reviewed] /\ g.reviewed \in BOOLEAN
  BY ReviewIs
<1>2. UNCHANGED <<incidents, copied, marking>>
  BY DEF Review, incidentVars
<1>3. \A d \in view' : d.inc = e.inc \/ d \in view
  BY <1>1
<1>4. \A d \in view : \E h \in view' : h.inc = d.inc
  BY <1>1
<1>5. \A d, h \in view' : d.inc.id = h.inc.id => d = h
  BY <1>1 DEF ViewInv
<1>6. \A d \in view' : /\ d = [inc |-> d.inc, reviewed |-> d.reviewed] /\ d.reviewed \in BOOLEAN
                       /\ \E l \in incidents : CopyOf(d.inc, l)
  BY <1>1 DEF ViewInv
<1>7. \A d \in view', c \in copied : d.inc.id = c.id =>
        /\ c.rev >= d.inc.rev /\ d.inc.status = "closed" => c.status = "closed"
        /\ c.rev = d.inc.rev => c.status = d.inc.status
  BY <1>1 DEF ViewInv
<1>8. marking # NoRow => \E d \in view' : d.inc.id = marking.id /\ d.inc.rev >= marking.rev
  BY <1>4 DEF ViewInv
<1>9. \A l \in incidents : l.projected = l.rev => \E d \in view' : Shows(d, l)
  BY <1>4 DEF ViewInv, Shows
<1>10. /\ \A c \in copied : \E l \in incidents : CopyOf(c, l)
       /\ \A c, d \in copied : c.id = d.id => c = d
       /\ marking # NoRow => \E l \in incidents : CopyOf(marking, l)
  BY DEF ViewInv
<1> QED BY <1>2, <1>5, <1>6, <1>7, <1>8, <1>9, <1>10 DEF ViewInv, CopyOf, Shows

LEMMA AbortView ==
  ASSUME ViewInv, NEW version, Abort(version)
  PROVE  ViewInv'
<1>1. copied' = {} /\ marking' = NoRow /\ UNCHANGED <<incidents, view>>
  BY DEF Abort, incidentVars
<1> QED BY <1>1 DEF ViewInv, CopyOf, Shows

LEMMA OtherViews ==
  ASSUME ViewInv, UNCHANGED <<incidents, copied, marking, view>>
  PROVE  ViewInv'
BY DEF ViewInv, CopyOf, Shows

-----------------------------------------------------------------------------
(* All of it.                                                              *)

LEMMA RawStart == RawInit => RawIInv
<1> SUFFICES ASSUME RawInit PROVE RawIInv
  OBVIOUS
<1>1. TableIs(rows, streams, ordinal)
  BY FS_EmptySet DEF RawInit, TableIs
<1>2. StreamsAre(streams)
  <2>1. PICK r : r = [idx |-> -1, asset |-> NoRow]
    OBVIOUS
  <2>2. r.idx = -1 /\ r.asset = NoRow /\ r = [idx |-> r.idx, asset |-> r.asset]
    BY <2>1
  <2>3. streams = [b \in DOMAIN BootTime |-> r]
    BY <2>1 DEF RawInit
  <2>4. \A b \in DOMAIN BootTime : streams[b] = r
    BY <2>3
  <2>5. [b \in DOMAIN BootTime |-> [idx |-> streams[b].idx, asset |-> streams[b].asset]]
        = [b \in DOMAIN BootTime |-> r]
    BY <2>2, <2>4
  <2> QED BY <2>2, <2>3, <2>4, <2>5 DEF StreamsAre
<1>3. WindowsInv
  BY <1>1, <1>2 DEF RawInit, WindowsInv, PickedIs
<1>4. ChainInv
  BY DEF RawInit, ChainInv
<1>5. lifecycle = [active |-> NoRow, boot |-> 0, idx |-> 0, asset |-> NoRow, model |-> 0,
                   at |-> -1, hits |-> <<>>]
  BY DEF RawInit, Idle
<1>6. /\ lifecycle.hits = <<>> /\ lifecycle.asset = NoRow /\ lifecycle.at = -1
      /\ lifecycle = [active |-> lifecycle.active, boot |-> lifecycle.boot, idx |-> lifecycle.idx,
                      asset |-> lifecycle.asset, model |-> lifecycle.model, at |-> lifecycle.at,
                      hits |-> lifecycle.hits]
  BY <1>5
<1>7. IncidentsInv
  BY <1>6, NoChain DEF RawInit, IncidentsInv, LifeIs
<1>8. TimesInv
  BY <1>6 DEF RawInit, TimesInv, LifeTimes
<1>9. ViewInv
  BY DEF RawInit, ViewInv
<1> QED BY <1>3, <1>4, <1>7, <1>8, <1>9 DEF RawIInv

LEMMA IngestKeeps ==
  ASSUME RawIInv, NEW b \in Batches, NEW lost \in BOOLEAN, Ingest(b, lost)
  PROVE  RawIInv'
<1>1. UNCHANGED <<incidents, copied, marking, view>>
  BY DEF Ingest, incidentVars, viewVars
<1> QED BY <1>1, IngestRows, IngestChains, IngestIncidents, IngestTimes, OtherViews DEF RawIInv

LEMMA FinishKeeps == ASSUME RawIInv, Finish PROVE RawIInv'
<1>1. UNCHANGED <<copied, marking, view>>
  BY DEF Finish, viewVars
<1>2. ViewInv'
  BY <1>1, FinishIncidents, FinishGrows, GrownView DEF RawIInv
<1> QED BY <1>2, FinishRows, FinishChains, FinishIncidents, FinishTimes DEF RawIInv

LEMMA DispatchKeeps == ASSUME RawIInv, Dispatch \/ Mark PROVE RawIInv'
<1>1. /\ UNCHANGED <<rows, streams, stored, lifecycle>>
      /\ \E f : incidents' = {f[i] : i \in incidents} /\ \A i \in incidents : Renewed(i, f[i])
  BY DispatchIs, MarkIs DEF RawIInv
<1>2. UNCHANGED <<ordinal, acked, picked, model, time>>
  BY DEF Dispatch, Mark, storeVars, worldVars
<1>3. WindowsInv'
  BY <1>1, <1>2, OtherRows DEF RawIInv, WindowsInv
<1>4. ChainInv'
  BY <1>1, OtherChains DEF RawIInv
<1>5. IncidentsInv' /\ TimesInv'
  BY <1>1, RenewedIncidents, RenewedTimes DEF RawIInv
<1>6. ViewInv'
  BY <1>5, DispatchView, MarkView DEF RawIInv
<1> QED BY <1>3, <1>4, <1>5, <1>6 DEF RawIInv

LEMMA ResolveKeeps == ASSUME RawIInv, NEW i \in incidents, Resolve(i) PROVE RawIInv'
<1>1. UNCHANGED <<rows, streams, stored, ordinal, acked, picked, model, time>>
      /\ UNCHANGED <<copied, marking, view>>
  BY DEF Resolve, storeVars, worldVars, viewVars
<1>2. WindowsInv'
  BY <1>1, OtherRows DEF RawIInv, WindowsInv
<1>3. ChainInv'
  BY <1>1, OtherChains DEF RawIInv
<1>4. IncidentsInv' /\ TimesInv'
  BY ResolveIncidents, ResolveTimes DEF RawIInv
<1>5. ViewInv'
  BY <1>1, <1>4, ResolveGrows, GrownView DEF RawIInv
<1> QED BY <1>2, <1>3, <1>4, <1>5 DEF RawIInv

LEMMA OthersKeep ==
  ASSUME RawIInv, UNCHANGED <<rows, streams, stored, ordinal, acked, incidents, lifecycle>>,
         WindowsInv', ViewInv'
  PROVE  RawIInv'
BY OtherChains, OtherIncidents, OtherTimes DEF RawIInv

LEMMA RawStep == RawIInv /\ [RawNext]_rawVars => RawIInv'
<1> SUFFICES ASSUME RawIInv, [RawNext]_rawVars PROVE RawIInv'
  OBVIOUS
<1> USE DEF storeVars, incidentVars, viewVars, worldVars
<1>1. ASSUME NEW b \in Batches, NEW lost \in BOOLEAN, Ingest(b, lost) PROVE RawIInv'
  BY <1>1, IngestKeeps
<1>2. CASE Pick
  <2>1. UNCHANGED <<rows, streams, stored, ordinal, acked, incidents, lifecycle>>
        /\ UNCHANGED <<copied, marking, view>>
    BY <1>2 DEF Pick
  <2> QED BY <1>2, <2>1, PickRows, OtherViews, OthersKeep DEF RawIInv
<1>3. CASE Finish
  BY <1>3, FinishKeeps
<1>4. ASSUME NEW version \in {1, 2}, Abort(version) PROVE RawIInv'
  <2>1. /\ UNCHANGED <<rows, streams, stored, ordinal, acked, incidents, lifecycle, time>>
        /\ picked' = NoRow /\ model' = version
    BY <1>4 DEF Abort
  <2>2. WindowsInv'
    BY <2>1, OtherRows DEF RawIInv
  <2>3. ViewInv'
    BY <1>4, AbortView DEF RawIInv
  <2> QED BY <2>1, <2>2, <2>3, OthersKeep
<1>5. CASE Dispatch \/ Mark
  BY <1>5, DispatchKeeps
<1>6. ASSUME NEW i \in copied, Show(i) PROVE RawIInv'
  <2>1. UNCHANGED <<rows, streams, stored, ordinal, acked, incidents, lifecycle>>
        /\ UNCHANGED <<picked, model, time>>
    BY <1>6 DEF Show
  <2>2. WindowsInv'
    BY <2>1, OtherRows DEF RawIInv, WindowsInv
  <2>3. ViewInv'
    BY <1>6, ShowView DEF RawIInv
  <2> QED BY <2>1, <2>2, <2>3, OthersKeep
<1>7. ASSUME NEW i \in incidents, Resolve(i) PROVE RawIInv'
  BY <1>7, ResolveKeeps
<1>8. ASSUME NEW e \in view, Review(e) PROVE RawIInv'
  <2>1. UNCHANGED <<rows, streams, stored, ordinal, acked, incidents, lifecycle>>
        /\ UNCHANGED <<picked, model, time>>
    BY <1>8 DEF Review
  <2>2. WindowsInv'
    BY <2>1, OtherRows DEF RawIInv, WindowsInv
  <2>3. ViewInv'
    BY <1>8, ReviewView DEF RawIInv
  <2> QED BY <2>1, <2>2, <2>3, OthersKeep
<1>9. CASE Pass \/ Remount \/ UNCHANGED rawVars
  <2>1. UNCHANGED <<rows, streams, stored, ordinal, acked, incidents, lifecycle>>
        /\ UNCHANGED <<picked, model, copied, marking, view>> /\ time' \in {time, time + 1}
    BY <1>9 DEF Pass, Remount, rawVars
  <2>2. WindowsInv'
    BY <2>1, OtherRows DEF RawIInv, WindowsInv
  <2>3. ViewInv'
    BY <2>1, OtherViews DEF RawIInv
  <2> QED BY <2>1, <2>2, <2>3, OthersKeep
<1> QED BY <1>1, <1>2, <1>3, <1>4, <1>5, <1>6, <1>7, <1>8, <1>9 DEF RawNext

LEMMA RawHolds == RawIInv => RawWindowsHold
<1> SUFFICES ASSUME RawIInv PROVE RawWindowsHold
  OBVIOUS
<1>1. WindowsKept
  BY DEF RawIInv, WindowsInv, TableIs, PickedIs, WindowsKept
<1>2. ChainsAreConsecutive
  BY DEF RawIInv, ChainInv, Consecutive, ChainsAreConsecutive
<1> DEFINE S == {i \in incidents : i.status = "open"}
<1>3. \A i, j \in S : i = j
  BY DEF RawIInv, IncidentsInv, IncidentIs
<1>4. Cardinality(S) <= 1
  <2>1. CASE S = {}
    BY <2>1, FS_EmptySet
  <2>2. CASE S # {}
    <3>1. PICK i : i \in S
      BY <2>2
    <3>2. S = {i}
      BY <1>3, <3>1
    <3> HIDE DEF S
    <3>3. Cardinality(S) = 1
      BY <3>2, FS_Singleton
    <3> QED BY <3>3
  <2> QED BY <2>1, <2>2
<1>5. IncidentsBacked
  BY <1>4 DEF RawIInv, IncidentsInv, IncidentIs, CoreIs, TimesInv, BeganBefore, IncidentsBacked
<1> QED BY <1>1, <1>2, <1>5 DEF RawWindowsHold

\* Raw windows, for every device, batches, boots, retention and capacity: a window that
\* was acknowledged is kept until it is due, a result's verdicts are those of the
\* windows before it, and three anomalous windows stand behind every incident and three
\* normal ones behind every recovery, in whatever order windows arrive and are analysed.
THEOREM WindowsAreKept == RawSpec => []RawWindowsHold
<1>1. RawSpec => []RawIInv
  BY RawStart, RawStep, PTL DEF RawSpec
<1> QED BY <1>1, RawHolds, PTL

(* What is shown of incidents from one step to the next.                    *)
LEMMA ViewStep ==
  ASSUME RawIInv, RawIInv', [RawNext]_rawVars
  PROVE  /\ \A i \in incidents' : i.projected = i.rev =>
              \E e \in view' : e.inc.id = i.id /\ e.inc.rev = i.rev /\ e.inc.status = i.status
         /\ \A e \in view : \E f \in view' :
              /\ f.inc.id = e.inc.id /\ f.inc.rev >= e.inc.rev /\ (e.reviewed => f.reviewed)
              /\ e.inc.status = "closed" => f.inc.status = "closed"
<1> USE DEF storeVars, incidentVars, viewVars, worldVars
<1>1. \A i \in incidents' : i.projected = i.rev =>
        \E e \in view' : e.inc.id = i.id /\ e.inc.rev = i.rev /\ e.inc.status = i.status
  BY DEF RawIInv, ViewInv, Shows
<1>2. \A e \in view : e.inc.rev \in Nat /\ e.inc.rev >= e.inc.rev
  BY DEF RawIInv, ViewInv, CopyOf
<1>3. CASE UNCHANGED view
  BY <1>1, <1>2, <1>3
<1>4. ASSUME NEW i \in copied, Show(i), NEW e \in view
      PROVE  \E f \in view' : /\ f.inc.id = e.inc.id /\ f.inc.rev >= e.inc.rev
                              /\ e.reviewed => f.reviewed
                              /\ e.inc.status = "closed" => f.inc.status = "closed"
  <2>1. PICK g : /\ view' = {d \in view : d.inc.id # i.id} \cup {g}
                 /\ \/ g.inc = i /\ \A d \in view : d.inc.id # i.id
                    \/ \E d \in view : /\ d.inc.id = i.id /\ g.reviewed = d.reviewed
                                       /\ g.inc = IF d.inc.rev < i.rev THEN i ELSE d.inc
    BY <1>4, ShowIs DEF RawIInv
  <2>2. CASE e.inc.id # i.id
    BY <1>2, <2>1, <2>2
  <2>3. CASE e.inc.id = i.id
    <3>1. PICK d \in view : /\ d.inc.id = i.id /\ g.reviewed = d.reviewed
                            /\ g.inc = IF d.inc.rev < i.rev THEN i ELSE d.inc
      BY <2>1, <2>3
    <3>2. d = e
      BY <2>3, <3>1 DEF RawIInv, ViewInv
    <3>3. /\ i.rev >= e.inc.rev /\ e.inc.status = "closed" => i.status = "closed"
          /\ i.rev \in Nat
      BY <2>3 DEF RawIInv, ViewInv, CopyOf
    <3>4. g.inc.id = e.inc.id /\ g.inc.rev >= e.inc.rev
          /\ (e.inc.status = "closed" => g.inc.status = "closed")
      BY <1>2, <2>3, <3>1, <3>2, <3>3
    <3> QED BY <2>1, <3>1, <3>2, <3>4
  <2> QED BY <2>2, <2>3
<1>5. ASSUME NEW i \in view, Review(i), NEW e \in view
      PROVE  \E f \in view' : /\ f.inc.id = e.inc.id /\ f.inc.rev >= e.inc.rev
                              /\ e.reviewed => f.reviewed
                              /\ e.inc.status = "closed" => f.inc.status = "closed"
  <2>1. PICK g : view' = (view \ {i}) \cup {g} /\ g.inc = i.inc /\ g.reviewed
    BY <1>5, ReviewIs DEF RawIInv
  <2> QED BY <1>2, <2>1
<1>6. UNCHANGED view \/ (\E i \in copied : Show(i)) \/ (\E i \in view : Review(i))
  BY DEF RawNext, rawVars, Ingest, Pick, Finish, Abort, Dispatch, Mark, Resolve, Pass, Remount
<1> QED BY <1>1, <1>3, <1>4, <1>5, <1>6

\* What follows for what operators see: an incident marked as shown is shown as it is,
\* and neither an incident nor its review goes back, whatever stops between the commit
\* of the event and the commit of the mark.
THEOREM ViewGoesForward == RawSpec => ViewFollows
<1>1. RawSpec => []RawIInv
  BY RawStart, RawStep, PTL DEF RawSpec
<1>2. RawIInv /\ RawIInv' /\ [RawNext]_rawVars =>
        [/\ \A i \in incidents' : i.projected = i.rev =>
              \E e \in view' : e.inc.id = i.id /\ e.inc.rev = i.rev /\ e.inc.status = i.status
         /\ \A e \in view : \E f \in view' :
              /\ f.inc.id = e.inc.id /\ f.inc.rev >= e.inc.rev /\ (e.reviewed => f.reviewed)
              /\ e.inc.status = "closed" => f.inc.status = "closed"]_rawVars
  BY ViewStep
<1> QED BY <1>1, <1>2, PTL DEF RawSpec, ViewFollows

-----------------------------------------------------------------------------
(* Rules: the runs of a stream.  S is the set of windows that count, len   *)
(* is how many of them make a run.                                         *)

Run(j, len, S) == j..(j + len - 1) \subseteq S
Counting(i, count, len, from, S) ==
  /\ count \in Nat /\ count < len /\ i - count >= from - 1
  /\ Run(i - count + 1, count, S)
  /\ i - count >= from => i - count \notin S
  /\ \A j \in Int : j >= from /\ j + len - 1 <= i => ~Run(j, len, S)

LEMMA CountNone ==
  ASSUME NEW i \in Int, NEW len \in Nat \ {0}, NEW S
  PROVE  Counting(i, 0, len, i + 1, S)
BY DEF Counting, Run

LEMMA CountReset ==
  ASSUME NEW i \in Int, NEW count, NEW len \in Nat \ {0}, NEW from \in Int, NEW S,
         Counting(i, count, len, from, S), i + 1 \notin S
  PROVE  Counting(i + 1, 0, len, from, S)
<1>1. ASSUME NEW j \in Int, j >= from, j + len - 1 <= i + 1, Run(j, len, S) PROVE FALSE
  <2>1. CASE j + len - 1 <= i
    BY <1>1, <2>1 DEF Counting
  <2>2. CASE j + len - 1 = i + 1
    <3>1. i + 1 \in j..(j + len - 1)
      BY <2>2
    <3> QED BY <1>1, <3>1 DEF Run
  <2> QED BY <1>1, <2>1, <2>2
<1>2. i + 1 - 0 >= from - 1
  BY DEF Counting
<1>3. Run(i + 1 - 0 + 1, 0, S)
  BY DEF Run
<1> QED BY <1>1, <1>2, <1>3 DEF Counting

LEMMA CountRuns ==
  ASSUME NEW i \in Int, NEW count, NEW len \in Nat \ {0}, NEW from \in Int, NEW S,
         Counting(i, count, len, from, S), i + 1 \in S
  PROVE  count \in Nat /\ \A k \in (i - count + 1)..(i + 1) : k \in S
<1>1. count \in Nat /\ \A k \in (i - count + 1)..i : k \in S
  BY DEF Counting, Run
<1> QED BY <1>1

LEMMA CountOn ==
  ASSUME NEW i \in Int, NEW count, NEW len \in Nat \ {0}, NEW from \in Int, NEW S,
         Counting(i, count, len, from, S), i + 1 \in S, count + 1 < len
  PROVE  Counting(i + 1, count + 1, len, from, S)
<1>0. count \in Nat
  BY DEF Counting
<1>1. ASSUME NEW j \in Int, j >= from, j + len - 1 <= i + 1, Run(j, len, S) PROVE FALSE
  <2>1. CASE j + len - 1 <= i
    BY <1>1, <2>1 DEF Counting
  <2>2. CASE j + len - 1 = i + 1
    <3>1. i - count >= j /\ i - count \in j..(j + len - 1)
      BY <1>0, <1>1, <2>2
    <3> QED BY <1>0, <1>1, <3>1 DEF Run, Counting
  <2> QED BY <1>1, <2>1, <2>2
<1>2. /\ count + 1 \in Nat /\ i + 1 - (count + 1) = i - count
      /\ i - count + 1 + (count + 1) - 1 = i + 1
  BY <1>0
<1>3. \A k \in (i - count + 1)..(i + 1) : k \in S
  BY CountRuns
<1>4. Run(i + 1 - (count + 1) + 1, count + 1, S)
  BY <1>0, <1>2, <1>3 DEF Run
<1> QED BY <1>1, <1>2, <1>4 DEF Counting

LEMMA CountDone ==
  ASSUME NEW i \in Int, NEW count, NEW len \in Nat \ {0}, NEW from \in Int, NEW S,
         Counting(i, count, len, from, S), i + 1 \in S, ~(count + 1 < len)
  PROVE  /\ Run(i + 1 - len + 1, len, S) /\ i + 1 - len + 1 >= from /\ count + 1 = len
         /\ \A j \in from..(i + 1 - len) : ~Run(j, len, S)
<1>1. count + 1 = len /\ count \in Nat
  BY DEF Counting
<1>2. Run(i + 1 - len + 1, len, S)
  <2>1. \A k \in (i - count + 1)..(i + 1) : k \in S
    BY CountRuns
  <2>2. i + 1 - len + 1 = i - count + 1 /\ (i + 1 - len + 1) + len - 1 = i + 1
    BY <1>1
  <2> QED BY <1>1, <2>1, <2>2 DEF Run
<1>3. i + 1 - len + 1 >= from
  BY <1>1 DEF Counting
<1> QED BY <1>1, <1>2, <1>3 DEF Counting

-----------------------------------------------------------------------------
(* The peak of the windows that are judged.                                *)

Sigmas(ws, a, z) == {ws[k].sigma : k \in {k \in a..z : ws[k] # Undefined}}
PeakIs(v, b, ws, a, z) ==
  IF b.contextual /\ b.flat THEN v = Undefined
  ELSE v \in Nat /\ v \in Sigmas(ws, a, z) /\ \A x \in Sigmas(ws, a, z) : x <= v
Streams == Seq(Features \cup {Undefined})

LEMMA SigmasAre ==
  ASSUME NEW ws \in Streams, NEW a \in Int, NEW z \in Int, 1 <= a, a <= z + 1, z + 1 <= Len(ws)
  PROVE  /\ Sigmas(ws, a, z) \subseteq Nat
         /\ Sigmas(ws, a, z + 1) = Sigmas(ws, a, z) \cup
              (IF ws[z + 1] = Undefined THEN {} ELSE {ws[z + 1].sigma})
<1>1. \A k \in 1..Len(ws) : ws[k] \in Features \cup {Undefined}
  BY DEF Streams
<1>2. Len(ws) \in Nat
  BY DEF Streams
<1>3. \A k \in 1..Len(ws) : ws[k] # Undefined => ws[k].sigma \in Nat
  BY <1>1, StreamAssumption
<1>4. Sigmas(ws, a, z) \subseteq Nat
  BY <1>2, <1>3 DEF Sigmas
<1>5. \A k : k \in a..(z + 1) <=> k \in a..z \/ k = z + 1
  OBVIOUS
<1>6. Sigmas(ws, a, z + 1) = Sigmas(ws, a, z) \cup
              (IF ws[z + 1] = Undefined THEN {} ELSE {ws[z + 1].sigma})
  BY <1>5 DEF Sigmas
<1> QED BY <1>4, <1>6

LEMMA PeakOf ==
  ASSUME NEW p \in Nat, NEW q \in Nat
  PROVE  /\ Peak(p, q) \in {p, q} /\ p <= Peak(p, q) /\ q <= Peak(p, q)
<1>1. Undefined \notin {p, q}
  BY StreamAssumption
<1>2. PICK m \in {p, q} : \A y \in {p, q} : y <= m
  BY DEF Peak
<1>3. Max({p, q}) = m
  BY <1>2, MaxGiven
<1> QED BY <1>1, <1>2, <1>3 DEF Peak

LEMMA PeakGrows ==
  ASSUME NEW b, NEW ws \in Streams, NEW a \in Int, NEW z \in Int, 1 <= a, a <= z + 1,
         z + 1 <= Len(ws), ws[z + 1] # Undefined, NEW v,
         IF a = z + 1 THEN v = 0 ELSE PeakIs(v, b, ws, a, z)
  PROVE  PeakIs(Peak(v, Deviation(b, ws[z + 1])), b, ws, a, z + 1)
<1> DEFINE d == Deviation(b, ws[z + 1])
           x == ws[z + 1].sigma
<1>1. CASE b.contextual /\ b.flat
  <2>1. d = Undefined
    BY <1>1 DEF Deviation
  <2>2. Peak(v, d) = Undefined
    BY <2>1 DEF Peak
  <2> QED BY <1>1, <2>2 DEF PeakIs
<1>2. CASE ~(b.contextual /\ b.flat)
  <2>1. d = x
    BY <1>2 DEF Deviation
  <2>2. /\ Sigmas(ws, a, z) \subseteq Nat
        /\ Sigmas(ws, a, z + 1) = Sigmas(ws, a, z) \cup {x}
    BY SigmasAre
  <2>3. x \in Nat /\ v \in Nat /\ \A y \in Sigmas(ws, a, z) : y <= v
    <3>1. x \in Nat
      <4>1. x \in Sigmas(ws, z + 1, z + 1)
        BY DEF Sigmas
      <4>2. ws[z + 1] \in Features \cup {Undefined}
        BY DEF Streams
      <4> QED BY <4>2, StreamAssumption
    <3>2. CASE a = z + 1
      <4>1. Sigmas(ws, a, z) = {}
        BY <3>2 DEF Sigmas
      <4> QED BY <3>1, <3>2, <4>1
    <3>3. CASE a # z + 1
      BY <1>2, <3>1, <3>3 DEF PeakIs
    <3> QED BY <3>2, <3>3
  <2> HIDE DEF x, d
  <2>4. /\ Peak(v, x) \in {v, x} /\ v <= Peak(v, x) /\ x <= Peak(v, x)
    BY <2>3, PeakOf
  <2>5. Peak(v, x) \in Sigmas(ws, a, z + 1)
    <3>1. CASE Peak(v, x) = x
      BY <2>2, <3>1
    <3>2. CASE Peak(v, x) # x /\ a # z + 1
      BY <1>2, <2>2, <2>4, <3>2 DEF PeakIs
    <3>3. CASE Peak(v, x) # x /\ a = z + 1
      BY <2>3, <2>4, <3>3
    <3> QED BY <3>1, <3>2, <3>3
  <2>6. \A y \in Sigmas(ws, a, z + 1) : y <= Peak(v, x)
    BY <2>2, <2>3, <2>4
  <2>7. Peak(v, x) \in Nat
    BY <2>3, <2>4
  <2> QED BY <1>2, <2>1, <2>5, <2>6, <2>7 DEF PeakIs, d
<1> QED BY <1>1, <1>2

LEMMA PeakSkips ==
  ASSUME NEW b, NEW ws \in Streams, NEW a \in Int, NEW z \in Int, 1 <= a, a <= z + 1,
         z + 1 <= Len(ws), ws[z + 1] = Undefined, NEW v, PeakIs(v, b, ws, a, z)
  PROVE  PeakIs(v, b, ws, a, z + 1)
BY SigmasAre DEF PeakIs

-----------------------------------------------------------------------------
(* What is known of a stream when its first i windows have been judged.    *)

Overs(b, c, ws) == {k \in 1..Len(ws) : ws[k] # Undefined /\ Over(b, c, ws[k])}
Quiets(b, c, ws) == {k \in 1..Len(ws) : ws[k] # Undefined /\ Quiet(b, c, ws[k])}
Ended == [start : Nat, end : Nat, peak : Nat \cup {Undefined}]
Since(c, es, k) == IF k = 1 THEN 1 ELSE es[k - 1].end + c.exitRun
From(c, es) == Since(c, es, Len(es) + 1)

Begins(e, from, b, c, ws) ==
  /\ e.start >= from /\ Run(e.start, c.enterRun, Overs(b, c, ws))
  /\ \A j \in from..(e.start - 1) : ~Run(j, c.enterRun, Overs(b, c, ws))
EventIs(e, from, b, c, ws) ==
  /\ Begins(e, from, b, c, ws)
  /\ e.end >= e.start + c.enterRun /\ Run(e.end, c.exitRun, Quiets(b, c, ws))
  /\ \A j \in (e.start + c.enterRun)..(e.end - 1) : ~Run(j, c.exitRun, Quiets(b, c, ws))
  /\ PeakIs(e.peak, b, ws, e.start, e.end + c.exitRun - 1)
EventsAre(es, i, b, c, ws) ==
  /\ es \in Seq(Ended)
  /\ \A k \in 1..Len(es) : EventIs(es[k], Since(c, es, k), b, c, ws)
  /\ From(c, es) \in 1..(i + 1)

AtPeace(s, i, from, b, c, ws) ==
  /\ Counting(i, s.over, c.enterRun, from, Overs(b, c, ws))
  /\ s.over = 0 => s.pending = 0
  /\ s.over # 0 => PeakIs(s.pending, b, ws, i - s.over + 1, i)
InEvent(s, i, from, b, c, ws) ==
  LET e == s.event IN
  /\ s.pending = 0
  /\ e = [start |-> e.start, end |-> Undefined, peak |-> e.peak]
  /\ e.start \in Int /\ e.start + c.enterRun - 1 <= i /\ Begins(e, from, b, c, ws)
  /\ Counting(i, s.under, c.exitRun, e.start + c.enterRun, Quiets(b, c, ws))
  /\ PeakIs(e.peak, b, ws, e.start, i)
StreamIs(s, i, b, c, ws) ==
  /\ s = [on |-> s.on, over |-> s.over, under |-> s.under, pending |-> s.pending,
          event |-> s.event, events |-> s.events]
  /\ s.on \in BOOLEAN /\ EventsAre(s.events, i, b, c, ws)
  /\ IF s.on THEN InEvent(s, i, From(c, s.events), b, c, ws)
     ELSE AtPeace(s, i, From(c, s.events), b, c, ws)
RunsOf(c) == c.enterRun \in Nat \ {0} /\ c.exitRun \in Nat \ {0}

LEMMA AtRestIs == ASSUME NEW b, NEW c, NEW ws, RunsOf(c) PROVE StreamIs(AtRest, 0, b, c, ws)
<1>1. PICK s : s = AtRest
  OBVIOUS
<1>2. s = [on |-> FALSE, over |-> 0, under |-> 0, pending |-> 0, event |-> <<>>, events |-> <<>>]
  BY <1>1 DEF AtRest
<1>3. /\ s.on = FALSE /\ s.over = 0 /\ s.pending = 0 /\ s.events = <<>>
      /\ s = [on |-> s.on, over |-> s.over, under |-> s.under, pending |-> s.pending,
              event |-> s.event, events |-> s.events]
  BY <1>2
<1>4. /\ <<>> \in Seq(Ended) /\ Len(<<>>) = 0
  OBVIOUS
<1>5. From(c, <<>>) = 1 /\ 1 \in 1..(0 + 1)
  BY <1>4 DEF From, Since
<1>6. EventsAre(<<>>, 0, b, c, ws)
  BY <1>4, <1>5 DEF EventsAre
<1>7. Counting(0, 0, c.enterRun, 0 + 1, Overs(b, c, ws))
  BY CountNone DEF RunsOf
<1>8. AtPeace(s, 0, 1, b, c, ws)
  BY <1>3, <1>7 DEF AtPeace
<1> QED BY <1>1, <1>3, <1>4, <1>5, <1>6, <1>8 DEF StreamIs

LEMMA FieldsOfState ==
  ASSUME NEW s, NEW i, NEW b, NEW c, NEW ws, StreamIs(s, i, b, c, ws)
  PROVE  \E on, over, under, pending, event, past :
           /\ s = [on |-> on, over |-> over, under |-> under, pending |-> pending,
                   event |-> event, events |-> past]
           /\ on = s.on /\ over = s.over /\ under = s.under /\ pending = s.pending
           /\ event = s.event /\ past = s.events
BY DEF StreamIs

LEMMA EventsStay ==
  ASSUME NEW es, NEW i \in Nat, NEW b, NEW c, NEW ws, EventsAre(es, i, b, c, ws)
  PROVE  EventsAre(es, i + 1, b, c, ws)
BY DEF EventsAre

(* A window that cannot be judged.                                         *)
LEMMA UnjudgedIs ==
  ASSUME NEW b, NEW c, NEW ws \in Streams, RunsOf(c), NEW i \in Nat, i + 1 <= Len(ws),
         NEW s, StreamIs(s, i, b, c, ws), ws[i + 1] = Undefined,
         NEW t, t = Judged(b, c, s, i + 1, ws[i + 1])
  PROVE  StreamIs(t, i + 1, b, c, ws)
<1>1. PICK on, over, under, pending, event, past :
           /\ s = [on |-> on, over |-> over, under |-> under, pending |-> pending,
                   event |-> event, events |-> past]
           /\ on = s.on /\ over = s.over /\ under = s.under /\ pending = s.pending
           /\ event = s.event /\ past = s.events
  BY FieldsOfState
<1>2. t = Unjudged(s)
  BY DEF Judged
<1>3. i + 1 \notin Overs(b, c, ws) /\ i + 1 \notin Quiets(b, c, ws)
  BY DEF Overs, Quiets
<1>4. EventsAre(past, i + 1, b, c, ws)
  BY <1>1, EventsStay DEF StreamIs
<1> DEFINE from == From(c, past)
<1>5. from \in Int /\ 1 <= from
  BY <1>4 DEF EventsAre
<1> HIDE DEF from
<1>6. CASE ~s.on
  <2>1. PICK u : u = [s EXCEPT !.over = 0, !.pending = 0]
    OBVIOUS
  <2>2. t = u
    BY <1>2, <1>6, <2>1 DEF Unjudged
  <2>3. t = [on |-> on, over |-> 0, under |-> under, pending |-> 0, event |-> event,
             events |-> past]
    BY <1>1, <2>1, <2>2
  <2>4. /\ t.on = on /\ t.over = 0 /\ t.pending = 0 /\ t.events = past
        /\ t = [on |-> t.on, over |-> t.over, under |-> t.under, pending |-> t.pending,
                event |-> t.event, events |-> t.events]
    BY <2>3
  <2>5. Counting(i, over, c.enterRun, from, Overs(b, c, ws))
    BY <1>1, <1>6 DEF StreamIs, AtPeace, from
  <2>6. Counting(i + 1, 0, c.enterRun, from, Overs(b, c, ws))
    BY <1>3, <1>5, <2>5, CountReset DEF RunsOf
  <2>7. AtPeace(t, i + 1, from, b, c, ws)
    BY <2>4, <2>6 DEF AtPeace
  <2> QED BY <1>1, <1>4, <1>6, <2>4, <2>7 DEF StreamIs, from
<1>7. CASE s.on
  <2>1. PICK u : u = [s EXCEPT !.under = 0]
    OBVIOUS
  <2>2. t = u
    BY <1>2, <1>7, <2>1 DEF Unjudged
  <2>3. t = [on |-> on, over |-> over, under |-> 0, pending |-> pending, event |-> event,
             events |-> past]
    BY <1>1, <2>1, <2>2
  <2>4. /\ t.on = on /\ t.under = 0 /\ t.pending = pending /\ t.event = event /\ t.events = past
        /\ t = [on |-> t.on, over |-> t.over, under |-> t.under, pending |-> t.pending,
                event |-> t.event, events |-> t.events]
    BY <2>3
  <2>5. InEvent(s, i, from, b, c, ws)
    BY <1>1, <1>7 DEF StreamIs, from
  <2>6. /\ pending = 0
        /\ event = [start |-> event.start, end |-> Undefined, peak |-> event.peak]
        /\ event.start \in Int /\ event.start + c.enterRun - 1 <= i
        /\ Begins(event, from, b, c, ws)
        /\ Counting(i, under, c.exitRun, event.start + c.enterRun, Quiets(b, c, ws))
        /\ PeakIs(event.peak, b, ws, event.start, i)
    BY <1>1, <2>5 DEF InEvent
  <2>7. event.start + c.enterRun \in Int /\ event.start <= i + 1 /\ 1 <= event.start
        /\ event.start + c.enterRun - 1 <= i + 1
    BY SMTT(60), <1>5, <2>6 DEF RunsOf, Begins
  <2>8. Counting(i + 1, 0, c.exitRun, event.start + c.enterRun, Quiets(b, c, ws))
    BY <1>3, <2>6, <2>7, CountReset DEF RunsOf
  <2>9. PeakIs(event.peak, b, ws, event.start, i + 1)
    BY <2>6, <2>7, PeakSkips
  <2>10. InEvent(t, i + 1, from, b, c, ws)
    BY <2>4, <2>6, <2>7, <2>8, <2>9 DEF InEvent
  <2> QED BY <1>1, <1>4, <1>7, <2>4, <2>10 DEF StreamIs, from
<1> QED BY <1>6, <1>7

(* A window outside an event: o of them count, with this peak.             *)
EnteredAs(c, s, o, pk, e) ==
  IF o < c.enterRun THEN [s EXCEPT !.over = o, !.pending = pk]
  ELSE [s EXCEPT !.on = TRUE, !.over = o, !.under = 0, !.pending = 0, !.event = e]
Started(first, pk) == [start |-> first, end |-> Undefined, peak |-> pk]
WhileOver(b, c, w, x) == IF Over(b, c, w) THEN x ELSE 0
FirstOf(c, i) == i - c.enterRun + 1
LEMMA EnteringAs ==
  ASSUME NEW b, NEW c, NEW s, NEW i, NEW w, NEW o, NEW pk, NEW first, NEW e,
         o = WhileOver(b, c, w, s.over + 1), pk = WhileOver(b, c, w, Peak(s.pending, Deviation(b, w))),
         first = FirstOf(c, i), e = Started(first, pk)
  PROVE  Entering(b, c, s, i, w) = EnteredAs(c, s, o, pk, e)
<1>1. Entering(b, c, s, i, w)
      = EnteredAs(c, s, WhileOver(b, c, w, s.over + 1),
                  WhileOver(b, c, w, Peak(s.pending, Deviation(b, w))),
                  Started(FirstOf(c, i),
                          WhileOver(b, c, w, Peak(s.pending, Deviation(b, w)))))
  BY DEF Entering, EnteredAs, Started, WhileOver, FirstOf
<1> QED BY <1>1

LEMMA EnteringIs ==
  ASSUME NEW b, NEW c, NEW ws \in Streams, RunsOf(c), NEW i \in Nat, i + 1 <= Len(ws),
         NEW s, StreamIs(s, i, b, c, ws), ws[i + 1] # Undefined, ~s.on,
         NEW t, t = Judged(b, c, s, i + 1, ws[i + 1])
  PROVE  StreamIs(t, i + 1, b, c, ws)
<1>0. PICK on, over, under, pending, event, past :
           /\ s = [on |-> on, over |-> over, under |-> under, pending |-> pending,
                   event |-> event, events |-> past]
           /\ on = s.on /\ over = s.over /\ under = s.under /\ pending = s.pending
           /\ event = s.event /\ past = s.events
  BY FieldsOfState
<1>g. PICK w, O, p, from : /\ w = ws[i + 1] /\ O = Overs(b, c, ws) /\ p = c.enterRun
                           /\ from = From(c, past)
  OBVIOUS
<1>1. PICK o, pk : /\ o = IF Over(b, c, w) THEN s.over + 1 ELSE 0
                   /\ pk = IF Over(b, c, w) THEN Peak(s.pending, Deviation(b, w)) ELSE 0
  OBVIOUS
<1>e. PICK first, e : first = FirstOf(c, i + 1) /\ e = Started(first, pk)
  OBVIOUS
<1>2. t = EnteredAs(c, s, o, pk, e)
  <2>1. t = Entering(b, c, s, i + 1, w)
    BY <1>g DEF Judged
  <2>2. o = WhileOver(b, c, w, s.over + 1) /\ pk = WhileOver(b, c, w, Peak(s.pending, Deviation(b, w)))
    BY <1>1 DEF WhileOver
  <2>3. PICK k : k = i + 1
    OBVIOUS
  <2>4. first = FirstOf(c, k)
    BY <1>e, <2>3
  <2>5. Entering(b, c, s, k, w) = EnteredAs(c, s, o, pk, e)
    BY <1>e, <2>2, <2>4, EnteringAs
  <2> QED BY <2>1, <2>3, <2>5
<1>3. i + 1 \in O <=> Over(b, c, w)
  BY <1>g DEF Overs, Streams
<1>4. EventsAre(past, i + 1, b, c, ws)
  BY <1>0, EventsStay DEF StreamIs
<1>5. from \in Int /\ 1 <= from /\ p \in Nat \ {0}
  BY <1>4, <1>g DEF EventsAre, RunsOf
<1>6. /\ Counting(i, over, p, from, O)
      /\ over = 0 => pending = 0
      /\ over # 0 => PeakIs(pending, b, ws, i - over + 1, i)
  BY <1>0, <1>g DEF StreamIs, AtPeace
<1>7. over \in Nat /\ i - over >= from - 1 /\ on = FALSE
  BY <1>0, <1>6 DEF Counting, StreamIs
<1>8. PICK a \in Int : a = i - over + 1
  BY <1>7
<1>9. ASSUME i + 1 \in O PROVE PeakIs(pk, b, ws, a, i + 1) /\ o = over + 1
  <2>1. IF a = i + 1 THEN pending = 0 ELSE PeakIs(pending, b, ws, a, i)
    BY <1>6, <1>7, <1>8
  <2>2. 1 <= a /\ a <= i + 1
    BY <1>5, <1>7, <1>8
  <2>3. i \in Int
    OBVIOUS
  <2>4. PeakIs(Peak(pending, Deviation(b, ws[i + 1])), b, ws, a, i + 1)
    BY <2>1, <2>2, <2>3, PeakGrows, Zenon
  <2> QED BY <1>0, <1>1, <1>3, <1>g, <1>9, <2>4
<1>10. CASE o < p
  <2>1. PICK u : u = [s EXCEPT !.over = o, !.pending = pk]
    OBVIOUS
  <2>2. t = u
    BY <1>2, <1>g, <1>10, <2>1 DEF EnteredAs
  <2>3. t = [on |-> on, over |-> o, under |-> under, pending |-> pk, event |-> event,
             events |-> past]
    BY <1>0, <2>1, <2>2
  <2>4. /\ t.on = on /\ t.over = o /\ t.pending = pk /\ t.events = past
        /\ t = [on |-> t.on, over |-> t.over, under |-> t.under, pending |-> t.pending,
                event |-> t.event, events |-> t.events]
    BY <2>3
  <2>5. AtPeace(t, i + 1, from, b, c, ws)
    <3>1. CASE i + 1 \in O
      <4>a. over + 1 < p
        BY <1>9, <1>10, <3>1
      <4>0. Counting(i + 1, over + 1, p, from, O)
        BY <1>5, <1>6, <3>1, <4>a, CountOn
      <4>1. Counting(i + 1, o, p, from, O)
        BY <1>9, <3>1, <4>0
      <4>2. i + 1 - o + 1 = a /\ o # 0
        BY <1>7, <1>8, <1>9, <3>1
      <4>4. t.over = o /\ t.pending = pk
        BY <2>4
      <4>5. Counting(i + 1, t.over, p, from, O)
        BY <4>1, <4>4, Zenon
      <4>x. PICK k : k = i + 1
        OBVIOUS
      <4>6. Counting(k, t.over, c.enterRun, from, Overs(b, c, ws))
        BY <1>g, <4>5, <4>x, Zenon
      <4>7. PeakIs(t.pending, b, ws, k - t.over + 1, k)
        <5>1. PeakIs(t.pending, b, ws, a, k)
          BY <1>9, <3>1, <4>4, <4>x, Zenon
        <5>2. k - o + 1 = a
          BY <1>7, <1>8, <1>9, <3>1, <4>x
        <5> QED BY <4>4, <5>1, <5>2, Zenon
      <4>8. t.over = 0 => t.pending = 0
        BY <4>2, <4>4
      <4>9. AtPeace(t, k, from, b, c, ws)
        BY <4>6, <4>7, <4>8, Zenon DEF AtPeace
      <4> QED BY <4>9, <4>x, Zenon
    <3>2. CASE i + 1 \notin O
      <4>1. o = 0 /\ pk = 0
        BY <1>1, <1>3, <3>2
      <4>2. Counting(i + 1, 0, p, from, O)
        BY <1>5, <1>6, <3>2, CountReset
      <4> QED BY <1>g, <2>4, <4>1, <4>2 DEF AtPeace
    <3> QED BY <3>1, <3>2
  <2> QED BY <1>g, <1>4, <1>7, <2>4, <2>5 DEF StreamIs
<1>11. CASE ~(o < p)
  <2>0. i + 1 \in O
    BY <1>1, <1>3, <1>5, <1>11
  <2>1. e = [start |-> first, end |-> Undefined, peak |-> pk]
    BY <1>e DEF Started
  <2>2. PICK u : u = [s EXCEPT !.on = TRUE, !.over = o, !.under = 0, !.pending = 0, !.event = e]
    OBVIOUS
  <2>3. t = u
    BY <1>2, <1>g, <1>11, <2>2 DEF EnteredAs
  <2>4. t = [on |-> TRUE, over |-> o, under |-> 0, pending |-> 0, event |-> e,
             events |-> past]
    BY <1>0, <2>2, <2>3
  <2>5. /\ t.on = TRUE /\ t.under = 0 /\ t.pending = 0 /\ t.event = e /\ t.events = past
        /\ t = [on |-> t.on, over |-> t.over, under |-> t.under, pending |-> t.pending,
                event |-> t.event, events |-> t.events]
    BY <2>4
  <2>6. /\ e.start = i + 1 - p + 1 /\ e.peak = pk
        /\ e = [start |-> e.start, end |-> Undefined, peak |-> e.peak]
    <3>1. c.enterRun = p
      BY <1>g
    <3>2. first = i + 1 - p + 1
      <4>1. PICK k \in Int : k = i + 1
        OBVIOUS
      <4>2. FirstOf(c, k) = k - p + 1
        BY <3>1, Zenon DEF FirstOf
      <4> QED BY <1>e, <1>5, <4>1, <4>2
    <3>3. /\ e.start = first /\ e.peak = pk
          /\ e = [start |-> e.start, end |-> Undefined, peak |-> e.peak]
      BY <2>1
    <3> QED BY <3>2, <3>3, Zenon
  <2>7. /\ Run(i + 1 - p + 1, p, O) /\ i + 1 - p + 1 >= from /\ over + 1 = p
        /\ \A j \in from..(i + 1 - p) : ~Run(j, p, O)
    <3>1. ~(over + 1 < p)
      BY <1>9, <1>11, <2>0
    <3> QED BY <1>5, <1>6, <2>0, <3>1, CountDone
  <2>8. /\ e.start \in Int /\ e.start - 1 = i + 1 - p /\ e.start + p - 1 <= i + 1
        /\ e.start + p = i + 1 + 1 /\ e.start = a /\ e.start >= from
    BY SMTT(60), <1>5, <1>7, <1>8, <2>6, <2>7
  <2>9. Begins(e, from, b, c, ws)
    BY <1>g, <2>6, <2>7, <2>8 DEF Begins
  <2>10. Counting(i + 1, 0, c.exitRun, e.start + p, Quiets(b, c, ws))
    BY <2>8, CountNone DEF RunsOf
  <2>11. PeakIs(e.peak, b, ws, e.start, i + 1)
    BY <1>9, <2>0, <2>6, <2>8
  <2>12. InEvent(t, i + 1, from, b, c, ws)
    BY <1>g, <2>5, <2>6, <2>8, <2>9, <2>10, <2>11 DEF InEvent
  <2> QED BY <1>g, <1>4, <2>5, <2>12 DEF StreamIs
<1> QED BY <1>10, <1>11

(* A window of an event: un of them are quiet.                             *)
LeftAs(c, s, un, e, es) ==
  IF un < c.exitRun THEN [s EXCEPT !.under = un, !.event = e]
  ELSE [s EXCEPT !.on = FALSE, !.over = 0, !.under = 0, !.events = es]
Hushed(b, c, w, x) == IF Quiet(b, c, w) THEN x ELSE 0
Peaked(e, x) == [e EXCEPT !.peak = x]
Added(es, d) == Append(es, d)
EndedAt(e, x) == [e EXCEPT !.end = x]
LastOf(c, i) == i - c.exitRun + 1
LEMMA LeavingAs ==
  ASSUME NEW b, NEW c, NEW s, NEW i, NEW w, NEW un, NEW e, NEW last, NEW d, NEW es,
         un = Hushed(b, c, w, s.under + 1), e = Peaked(s.event, Peak(s.event.peak, Deviation(b, w))),
         last = LastOf(c, i), d = EndedAt(e, last), es = Added(s.events, d)
  PROVE  Leaving(b, c, s, i, w) = LeftAs(c, s, un, e, es)
<1>1. Leaving(b, c, s, i, w)
      = LeftAs(c, s, Hushed(b, c, w, s.under + 1),
               Peaked(s.event, Peak(s.event.peak, Deviation(b, w))),
               Added(s.events, EndedAt(Peaked(s.event, Peak(s.event.peak, Deviation(b, w))),
                                       LastOf(c, i))))
  BY DEF Leaving, Added, LeftAs, Hushed, Peaked, EndedAt, LastOf
<1> QED BY <1>1

(* An event that is over is one more of those that are.                    *)
LEMMA OneMore ==
  ASSUME NEW b, NEW c, NEW ws, RunsOf(c), NEW i \in Nat, NEW past, EventsAre(past, i, b, c, ws),
         NEW d \in Ended, EventIs(d, From(c, past), b, c, ws),
         NEW k, k = i + 1, d.end = LastOf(c, k), NEW es, es = Added(past, d)
  PROVE  EventsAre(es, i + 1, b, c, ws) /\ From(c, es) = i + 2
<1>1. /\ es \in Seq(Ended) /\ Len(es) = Len(past) + 1 /\ Len(past) \in Nat
      /\ es[Len(past) + 1] = d /\ \A n \in 1..Len(past) : es[n] = past[n]
  BY DEF EventsAre, Added
<1>0. d.end + c.exitRun = i + 2
  <2>1. c.exitRun \in Nat /\ k \in Int
    BY DEF RunsOf
  <2>2. d.end = k - c.exitRun + 1
    BY DEF LastOf
  <2> QED BY <2>1, <2>2
<1>2. \A n \in 1..(Len(past) + 1) : Since(c, es, n) = Since(c, past, n)
  <2> TAKE n \in 1..(Len(past) + 1)
  <2>1. CASE n = 1
    BY <2>1 DEF Since
  <2>2. CASE n # 1
    <3>1. n - 1 \in 1..Len(past)
      BY <1>1, <2>2
    <3>2. es[n - 1] = past[n - 1]
      BY <1>1, <3>1
    <3> QED BY <2>2, <3>2 DEF Since
  <2> QED BY <2>1, <2>2
<1>3. ASSUME NEW n \in 1..Len(es) PROVE EventIs(es[n], Since(c, es, n), b, c, ws)
  <2>1. CASE n = Len(past) + 1
    BY <1>1, <1>2, <2>1 DEF From
  <2>2. CASE n # Len(past) + 1
    <3>1. n \in 1..Len(past) /\ n \in 1..(Len(past) + 1)
      BY <1>1, <2>2
    <3>2. es[n] = past[n] /\ Since(c, es, n) = Since(c, past, n)
      BY <1>1, <1>2, <3>1
    <3> QED BY <3>1, <3>2 DEF EventsAre
  <2> QED BY <2>1, <2>2
<1>4. From(c, es) = i + 2
  <2>1. Len(es) + 1 # 1 /\ Len(es) + 1 - 1 = Len(past) + 1
    BY <1>1
  <2>2. es[Len(es) + 1 - 1] = d
    BY <1>1, <2>1
  <2> QED BY <1>0, <2>1, <2>2 DEF Since, From
<1>5. i + 2 \in 1..(i + 1 + 1)
  OBVIOUS
<1> QED BY <1>1, <1>3, <1>4, <1>5 DEF EventsAre

LEMMA LeavingIs ==
  ASSUME NEW b, NEW c, NEW ws \in Streams, RunsOf(c), NEW i \in Nat, i + 1 <= Len(ws),
         NEW s, StreamIs(s, i, b, c, ws), ws[i + 1] # Undefined, s.on,
         NEW t, t = Judged(b, c, s, i + 1, ws[i + 1])
  PROVE  StreamIs(t, i + 1, b, c, ws)
<1>0. PICK on, over, under, pending, event, past :
           /\ s = [on |-> on, over |-> over, under |-> under, pending |-> pending,
                   event |-> event, events |-> past]
           /\ on = s.on /\ over = s.over /\ under = s.under /\ pending = s.pending
           /\ event = s.event /\ past = s.events
  BY FieldsOfState
<1>g. PICK w, k, Q, p, q, from, since :
        /\ w = ws[i + 1] /\ k = i + 1 /\ Q = Quiets(b, c, ws) /\ p = c.enterRun /\ q = c.exitRun
        /\ from = From(c, past) /\ since = event.start + p
  OBVIOUS
<1>1. PICK un, pk, e, last, d, es :
        /\ un = Hushed(b, c, w, s.under + 1) /\ pk = Peak(s.event.peak, Deviation(b, w))
        /\ e = Peaked(s.event, pk) /\ last = LastOf(c, k) /\ d = EndedAt(e, last)
        /\ es = Added(s.events, d)
  OBVIOUS
<1>2. t = LeftAs(c, s, un, e, es)
  <2>1. t = Leaving(b, c, s, k, w)
    BY <1>g DEF Judged
  <2>2. e = Peaked(s.event, Peak(s.event.peak, Deviation(b, w)))
    BY <1>1
  <2>3. Leaving(b, c, s, k, w) = LeftAs(c, s, un, e, es)
    BY <1>1, <2>2, LeavingAs
  <2> QED BY <2>1, <2>3
<1>3. (k \in Q <=> Quiet(b, c, w)) /\ k \in Int
  BY <1>g DEF Quiets, Streams
<1>4. EventsAre(past, i, b, c, ws) /\ EventsAre(past, i + 1, b, c, ws)
  BY <1>0, EventsStay DEF StreamIs
<1>5. from \in Int /\ 1 <= from /\ p \in Nat \ {0} /\ q \in Nat \ {0}
  BY <1>4, <1>g DEF EventsAre, RunsOf
<1>6. PICK start, peak : start = event.start /\ peak = event.peak
  OBVIOUS
<1>7. /\ pending = 0 /\ on = TRUE
      /\ event = [start |-> start, end |-> Undefined, peak |-> peak]
      /\ start \in Int /\ start + p - 1 <= i /\ Begins(event, from, b, c, ws)
      /\ Counting(i, under, q, start + p, Q) /\ PeakIs(peak, b, ws, start, i)
  BY <1>0, <1>g, <1>6 DEF StreamIs, InEvent
<1>8. start + p \in Int /\ start <= i + 1 /\ 1 <= start /\ start # i + 1 /\ start + p - 1 <= i + 1
  BY <1>5, <1>6, <1>7 DEF Begins
<1>9. PeakIs(pk, b, ws, start, i + 1)
  <2>1. pk = Peak(peak, Deviation(b, ws[i + 1]))
    BY <1>0, <1>1, <1>6, <1>g
  <2>2. IF start = i + 1 THEN peak = 0 ELSE PeakIs(peak, b, ws, start, i)
    BY <1>7, <1>8
  <2> QED BY <1>7, <1>8, <2>1, <2>2, PeakGrows
<1>10. e = [start |-> start, end |-> Undefined, peak |-> pk]
  <2>1. PICK f : f = [event EXCEPT !.peak = pk]
    OBVIOUS
  <2>2. e = f
    BY <1>0, <1>1, <2>1 DEF Peaked
  <2> QED BY <1>7, <2>1, <2>2
<1>11. /\ e.start = start /\ e.peak = pk
       /\ e = [start |-> e.start, end |-> Undefined, peak |-> e.peak]
  BY <1>10
<1>12. un = IF k \in Q THEN under + 1 ELSE 0
  BY <1>0, <1>1, <1>3 DEF Hushed
<1>13. CASE un < q
  <2>1. PICK u : u = [s EXCEPT !.under = un, !.event = e]
    OBVIOUS
  <2>2. t = u
    BY <1>2, <1>13, <1>g, <2>1 DEF LeftAs
  <2>3. t = [on |-> on, over |-> over, under |-> un, pending |-> pending, event |-> e,
             events |-> past]
    BY <1>0, <2>1, <2>2
  <2>4. /\ t.on = on /\ t.under = un /\ t.pending = pending /\ t.event = e /\ t.events = past
        /\ t = [on |-> t.on, over |-> t.over, under |-> t.under, pending |-> t.pending,
                event |-> t.event, events |-> t.events]
    BY <2>3
  <2>5. Counting(i + 1, un, q, start + p, Q)
    <3>1. CASE k \in Q
      <4>1. under + 1 < q /\ i + 1 \in Q
        BY <1>12, <1>13, <1>g, <3>1
      <4>2. Counting(i + 1, under + 1, q, start + p, Q)
        BY <1>5, <1>7, <1>8, <4>1, CountOn
      <4> QED BY <1>12, <3>1, <4>2
    <3>2. CASE k \notin Q
      <4>1. Counting(i + 1, 0, q, start + p, Q)
        BY SMTT(60), <1>5, <1>7, <1>8, <1>g, <3>2, CountReset
      <4> QED BY <1>12, <3>2, <4>1
    <3> QED BY <3>1, <3>2
  <2>6. Begins(e, from, b, c, ws)
    BY <1>6, <1>7, <1>11 DEF Begins
  <2>7. InEvent(t, i + 1, from, b, c, ws)
    BY <1>7, <1>8, <1>9, <1>11, <1>g, <2>4, <2>5, <2>6 DEF InEvent
  <2> QED BY <1>4, <1>7, <1>g, <2>4, <2>7 DEF StreamIs
<1>14. CASE ~(un < q)
  <2>1. PICK u : u = [s EXCEPT !.on = FALSE, !.over = 0, !.under = 0, !.events = es]
    OBVIOUS
  <2>2. t = u
    BY <1>2, <1>14, <1>g, <2>1 DEF LeftAs
  <2>3. t = [on |-> FALSE, over |-> 0, under |-> 0, pending |-> pending, event |-> event,
             events |-> es]
    BY <1>0, <2>1, <2>2
  <2>4. /\ t.on = FALSE /\ t.over = 0 /\ t.pending = pending /\ t.events = es
        /\ t = [on |-> t.on, over |-> t.over, under |-> t.under, pending |-> t.pending,
                event |-> t.event, events |-> t.events]
    BY <2>3
  <2>5. PICK f : f = [e EXCEPT !.end = last]
    OBVIOUS
  <2>6. d = f
    BY <1>1, <2>5 DEF EndedAt
  <2>7. d = [start |-> start, end |-> last, peak |-> pk]
    BY <1>10, <2>5, <2>6
  <2>8. d.start = start /\ d.end = last /\ d.peak = pk
    BY <2>7
  <2>9. last = i + 1 - q + 1 /\ last \in Int /\ last + q = i + 2 /\ last + q - 1 = i + 1
        /\ last - 1 = i + 1 - q
    <3>1. c.exitRun \in Nat /\ c.exitRun = q /\ k \in Int /\ k = i + 1
      BY <1>g, <1>5
    <3>2. last = k - c.exitRun + 1
      BY <1>1, <3>1 DEF LastOf
    <3> QED BY SMTT(60), <3>1, <3>2
  <2>10. i + 1 \in Q /\ ~(under + 1 < q)
    BY <1>5, <1>12, <1>14, <1>g
  <2>11. /\ Run(i + 1 - q + 1, q, Q) /\ i + 1 - q + 1 >= start + p
         /\ \A j \in (start + p)..(i + 1 - q) : ~Run(j, q, Q)
    BY <1>5, <1>7, <1>8, <2>10, CountDone
  <2>12. Begins(d, from, b, c, ws)
    BY <1>6, <1>7, <2>8 DEF Begins
  <2>13. EventIs(d, from, b, c, ws)
    BY <1>9, <1>g, <2>8, <2>9, <2>11, <2>12 DEF EventIs
  <2>14. pk \in Nat \cup {Undefined}
    BY <1>9 DEF PeakIs
  <2>15. d \in Ended
    <3>1. start \in Nat /\ last \in Nat
      BY <1>5, <1>7, <1>8, <2>9, <2>11
    <3> QED BY <2>7, <2>14, <3>1 DEF Ended
  <2>16. EventsAre(es, i + 1, b, c, ws) /\ From(c, es) = i + 2
    <3>1. EventIs(d, From(c, past), b, c, ws)
      BY <1>g, <2>13
    <3>2. d.end = LastOf(c, k) /\ es = Added(past, d) /\ k = i + 1
      BY <1>0, <1>1, <1>g, <2>8
    <3> QED BY <1>4, <2>15, <3>1, <3>2, OneMore
  <2>17. Counting(i + 1, 0, p, i + 2, Overs(b, c, ws))
    <3>1. Counting(k, 0, p, k + 1, Overs(b, c, ws))
      BY <1>3, <1>5, CountNone
    <3>2. k + 1 = i + 2
      BY <1>g
    <3> QED BY <1>g, <3>1, <3>2
  <2>18. AtPeace(t, i + 1, i + 2, b, c, ws)
    BY <1>7, <1>g, <2>4, <2>17 DEF AtPeace
  <2> QED BY <2>4, <2>16, <2>18 DEF StreamIs
<1> QED BY <1>13, <1>14

-----------------------------------------------------------------------------
(* A stream, window by window.                                             *)

JudgedTo(f, b, c, ws, n) ==
  f = [i \in 0..n |-> IF i = 0 THEN AtRest ELSE Judged(b, c, f[i - 1], i, ws[i])]

LEMMA JudgingExists == ASSUME NEW b, NEW c, NEW ws, NEW n \in Nat PROVE \E f : JudgedTo(f, b, c, ws, n)
<1> DEFINE T == {m \in Nat : \E f : JudgedTo(f, b, c, ws, m)}
<1>1. 0 \in T
  <2> DEFINE f == [i \in 0..0 |-> AtRest]
  <2>1. \A i \in 0..0 : i = 0
    OBVIOUS
  <2>2. JudgedTo(f, b, c, ws, 0)
    BY <2>1 DEF JudgedTo
  <2> QED BY <2>2
<1>2. ASSUME NEW m \in T PROVE m + 1 \in T
  <2>1. PICK f : JudgedTo(f, b, c, ws, m)
    OBVIOUS
  <2>2. PICK g : g = [i \in 0..(m + 1) |-> IF i <= m THEN f[i]
                                           ELSE Judged(b, c, f[m], m + 1, ws[m + 1])]
    OBVIOUS
  <2>3. ASSUME NEW i \in 0..(m + 1)
        PROVE  g[i] = IF i = 0 THEN AtRest ELSE Judged(b, c, g[i - 1], i, ws[i])
    <3>1. CASE i <= m
      <4>1. i \in 0..m /\ g[i] = f[i] /\ (i # 0 => i - 1 \in 0..(m + 1) /\ i - 1 <= m)
        BY <2>2, <3>1
      <4>2. f[i] = IF i = 0 THEN AtRest ELSE Judged(b, c, f[i - 1], i, ws[i])
        BY <2>1, <4>1 DEF JudgedTo
      <4>3. i # 0 => g[i - 1] = f[i - 1]
        BY <2>2, <4>1
      <4> QED BY <4>1, <4>2, <4>3
    <3>2. CASE i = m + 1
      <4>1. m \in 0..(m + 1) /\ i - 1 = m /\ i # 0 /\ ~(i <= m) /\ m <= m
        BY <3>2
      <4>2. g[m] = f[m] /\ g[i] = Judged(b, c, f[m], m + 1, ws[m + 1])
        BY <2>2, <4>1
      <4> QED BY <3>2, <4>1, <4>2
    <3> QED BY <3>1, <3>2
  <2>4. JudgedTo(g, b, c, ws, m + 1)
    BY <2>2, <2>3 DEF JudgedTo
  <2> QED BY <2>4
<1> HIDE DEF T
<1>3. T = Nat
  <2>1. T \subseteq Nat
    BY DEF T
  <2> QED BY <1>1, <1>2, <2>1, AllNaturals
<1> QED BY <1>3 DEF T

LEMMA StreamKept ==
  ASSUME NEW b, NEW c, NEW ws \in Streams, RunsOf(c), NEW n \in Nat, n = Len(ws),
         NEW f, JudgedTo(f, b, c, ws, n)
  PROVE  StreamIs(f[n], n, b, c, ws)
<1> DEFINE T == {i \in Nat : i <= n => StreamIs(f[i], i, b, c, ws)}
<1>1. 0 \in T
  <2>1. f[0] = AtRest
    BY DEF JudgedTo
  <2>2. StreamIs(f[0], 0, b, c, ws)
    BY <2>1, AtRestIs
  <2> QED BY <2>2
<1>2. ASSUME NEW i \in T PROVE i + 1 \in T
  <2>1. SUFFICES ASSUME i + 1 <= n PROVE StreamIs(f[i + 1], i + 1, b, c, ws)
    OBVIOUS
  <2>2. StreamIs(f[i], i, b, c, ws) /\ i + 1 <= Len(ws) /\ i \in Nat
    BY <2>1
  <2>3. PICK s, t : s = f[i] /\ t = f[i + 1]
    OBVIOUS
  <2>4. t = Judged(b, c, s, i + 1, ws[i + 1])
    <3>1. i + 1 \in 0..n /\ i + 1 # 0 /\ i + 1 - 1 = i
      BY <2>1
    <3>2. f[i + 1] = IF i + 1 = 0 THEN AtRest ELSE Judged(b, c, f[i + 1 - 1], i + 1, ws[i + 1])
      BY <3>1 DEF JudgedTo
    <3> QED BY <2>3, <3>1, <3>2
  <2>5. StreamIs(s, i, b, c, ws)
    BY <2>2, <2>3
  <2> HIDE DEF T
  <2>6. CASE ws[i + 1] = Undefined
    BY <2>2, <2>3, <2>4, <2>5, <2>6, UnjudgedIs
  <2>7. CASE ws[i + 1] # Undefined /\ ~s.on
    BY <2>2, <2>3, <2>4, <2>5, <2>7, EnteringIs
  <2>8. CASE ws[i + 1] # Undefined /\ s.on
    BY <2>2, <2>3, <2>4, <2>5, <2>8, LeavingIs
  <2> QED BY <2>6, <2>7, <2>8
<1> HIDE DEF T
<1>3. T = Nat
  <2>1. T \subseteq Nat
    BY DEF T
  <2> QED BY <1>1, <1>2, <2>1, AllNaturals
<1> QED BY <1>3 DEF T

LEMMA EventsOfIs ==
  ASSUME NEW b, NEW c, NEW ws \in Streams, RunsOf(c)
  PROVE  \E s : /\ StreamIs(s, Len(ws), b, c, ws)
                /\ EventsOf(b, c, ws) = IF s.on THEN Append(s.events, s.event) ELSE s.events
<1> DEFINE n == Len(ws)
           after == CHOOSE f : JudgedTo(f, b, c, ws, n)
<1>1. n \in Nat
  BY DEF Streams
<1>2. JudgedTo(after, b, c, ws, n)
  BY <1>1, JudgingExists
<1>3. EventsOf(b, c, ws) = IF after[n].on THEN Append(after[n].events, after[n].event)
                           ELSE after[n].events
  BY DEF EventsOf, JudgedTo
<1> HIDE DEF after, n
<1>4. StreamIs(after[n], n, b, c, ws)
  BY <1>1, <1>2, StreamKept DEF n
<1> QED BY <1>3, <1>4 DEF n

(* Every event there is, by what is known at the end of the stream.        *)
PeakGiven(e, z, b, ws) ==
  e.peak = (IF b.contextual /\ b.flat THEN Undefined ELSE Max(Sigmas(ws, e.start, z)))
LEMMA PeakIsGiven ==
  ASSUME NEW e, NEW z, NEW b, NEW ws \in Streams, e.start \in Int, z \in Int, 1 <= e.start,
         z <= Len(ws), PeakIs(e.peak, b, ws, e.start, z)
  PROVE  PeakGiven(e, z, b, ws)
<1>1. CASE b.contextual /\ b.flat
  BY <1>1 DEF PeakIs, PeakGiven
<1>2. CASE ~(b.contextual /\ b.flat)
  <2>1. PICK S : S = Sigmas(ws, e.start, z)
    OBVIOUS
  <2>2. S \subseteq Int
    <3>1. \A k \in 1..Len(ws) : ws[k] \in Features \cup {Undefined}
      BY DEF Streams
    <3>2. \A k \in 1..Len(ws) : ws[k] # Undefined => ws[k].sigma \in Nat
      BY <3>1, StreamAssumption
    <3>3. Len(ws) \in Nat
      BY DEF Streams
    <3> QED BY <2>1, <3>2, <3>3 DEF Sigmas
  <2>3. e.peak \in S /\ \A y \in S : y <= e.peak
    BY <1>2, <2>1 DEF PeakIs
  <2>4. Max(S) = e.peak
    BY <2>2, <2>3, MaxGiven
  <2> QED BY <1>2, <2>1, <2>4 DEF PeakGiven
<1> QED BY <1>1, <1>2

LEMMA NoLaterRun ==
  ASSUME NEW n \in Nat, NEW S \in SUBSET (1..n), NEW count, NEW len \in Nat \ {0},
         NEW from \in Int, Counting(n, count, len, from, S), NEW j \in Int, j >= from
  PROVE  ~Run(j, len, S)
<1>1. CASE j + len - 1 <= n
  BY <1>1 DEF Counting
<1>2. CASE ~(j + len - 1 <= n)
  <2>1. j + len - 1 \in j..(j + len - 1) /\ j + len - 1 \notin 1..n
    BY <1>2
  <2> QED BY <2>1 DEF Run
<1> QED BY <1>1, <1>2

OverAndDone(e, from, b, c, ws) ==
  /\ e.end # Undefined /\ Begins(e, from, b, c, ws)
  /\ e.end >= e.start + c.enterRun /\ Run(e.end, c.exitRun, Quiets(b, c, ws))
  /\ \A j \in (e.start + c.enterRun)..(e.end - 1) : ~Run(j, c.exitRun, Quiets(b, c, ws))
  /\ PeakGiven(e, e.end + c.exitRun - 1, b, ws)
StillOpen(e, from, b, c, ws) ==
  /\ e.end = Undefined /\ Begins(e, from, b, c, ws)
  /\ \A j \in (e.start + c.enterRun)..Len(ws) : ~Run(j, c.exitRun, Quiets(b, c, ws))
  /\ PeakGiven(e, Len(ws), b, ws)
AllRuns(es, b, c, ws) ==
  /\ DOMAIN es = 1..Len(es)
  /\ \A k \in 1..Len(es) : \/ OverAndDone(es[k], Since(c, es, k), b, c, ws)
                           \/ k = Len(es) /\ StillOpen(es[k], Since(c, es, k), b, c, ws)
  /\ es = <<>> \/ es[Len(es)].end # Undefined
       => \A j \in From(c, es)..Len(ws) : ~Run(j, c.enterRun, Overs(b, c, ws))

LEMMA OverAndQuiet ==
  ASSUME NEW b, NEW c, NEW ws
  PROVE  Overs(b, c, ws) \subseteq 1..Len(ws) /\ Quiets(b, c, ws) \subseteq 1..Len(ws)
BY DEF Overs, Quiets

LEMMA ClosedIs ==
  ASSUME NEW b, NEW c, NEW ws \in Streams, RunsOf(c), NEW es, NEW i \in Nat, i <= Len(ws),
         EventsAre(es, i, b, c, ws), NEW k \in 1..Len(es)
  PROVE  OverAndDone(es[k], Since(c, es, k), b, c, ws)
<1>1. es \in Seq(Ended) /\ EventIs(es[k], Since(c, es, k), b, c, ws)
  BY DEF EventsAre
<1>2. PICK e, q, from, Q : e = es[k] /\ q = c.exitRun /\ from = Since(c, es, k) /\ Q = Quiets(b, c, ws)
  OBVIOUS
<1>3. e \in Ended /\ e.start \in Nat /\ e.end \in Nat
  <2>1. e \in Ended
    BY <1>1, <1>2
  <2> QED BY <2>1 DEF Ended
<1>4. Undefined \notin Nat
  BY StreamAssumption
<1>5. q \in Nat \ {0} /\ c.enterRun \in Nat \ {0} /\ Len(ws) \in Nat
  BY <1>2 DEF RunsOf, Streams
<1>6. Begins(e, from, b, c, ws) /\ e.end >= e.start + c.enterRun /\ Run(e.end, q, Q)
      /\ PeakIs(e.peak, b, ws, e.start, e.end + q - 1)
  BY <1>1, <1>2 DEF EventIs
<1>7. e.end + q - 1 \in Int /\ e.end + q - 1 <= Len(ws)
  <2>1. e.end + q - 1 \in e.end..(e.end + q - 1)
    BY <1>3, <1>5
  <2> QED BY <1>2, <1>5, <1>6, <2>1, OverAndQuiet DEF Run
<1>8. 1 <= e.start
  <2>1. e.start \in e.start..(e.start + c.enterRun - 1)
    BY <1>3, <1>5
  <2> QED BY <1>3, <1>6, <2>1, OverAndQuiet DEF Run, Begins
<1>9. PeakGiven(e, e.end + q - 1, b, ws)
  BY <1>3, <1>6, <1>7, <1>8, PeakIsGiven
<1> QED BY <1>1, <1>2, <1>3, <1>4, <1>9 DEF OverAndDone, EventIs

LEMMA RunsAre ==
  ASSUME NEW b, NEW c, NEW ws \in Streams, RunsOf(c)
  PROVE  AllRuns(EventsOf(b, c, ws), b, c, ws)
<1>1. PICK s : /\ StreamIs(s, Len(ws), b, c, ws)
               /\ EventsOf(b, c, ws) = IF s.on THEN Append(s.events, s.event) ELSE s.events
  BY EventsOfIs
<1>2. PICK past, event, n, O, Q :
         /\ past = s.events /\ event = s.event /\ n = Len(ws)
         /\ O = Overs(b, c, ws) /\ Q = Quiets(b, c, ws)
  OBVIOUS
<1>3. /\ n \in Nat /\ O \in SUBSET (1..n) /\ Q \in SUBSET (1..n)
      /\ c.enterRun \in Nat \ {0} /\ c.exitRun \in Nat \ {0}
  BY <1>2, OverAndQuiet DEF RunsOf, Streams
<1>4. EventsAre(past, n, b, c, ws)
  BY <1>1, <1>2 DEF StreamIs
<1>5. \A k \in 1..Len(past) : OverAndDone(past[k], Since(c, past, k), b, c, ws)
  BY <1>2, <1>3, <1>4, ClosedIs
<1>6. From(c, past) \in Int /\ 1 <= From(c, past)
  BY <1>4 DEF EventsAre
<1>7. past \in Seq(Ended) /\ Len(past) \in Nat
  BY <1>4 DEF EventsAre
<1>8. CASE ~s.on
  <2>1. Counting(n, s.over, c.enterRun, From(c, past), O)
    BY <1>1, <1>2, <1>8 DEF StreamIs, AtPeace
  <2>2. \A j \in From(c, past)..n : ~Run(j, c.enterRun, O)
    BY <1>3, <1>6, <2>1, NoLaterRun
  <2>3. DOMAIN past = 1..Len(past)
    BY <1>7
  <2> QED BY <1>1, <1>2, <1>5, <1>8, <2>2, <2>3 DEF AllRuns
<1>9. CASE s.on
  <2>0. PICK es : es = Append(past, event)
    OBVIOUS
  <2>1. /\ Len(es) = Len(past) + 1 /\ es[Len(past) + 1] = event
        /\ \A k \in 1..Len(past) : es[k] = past[k]
    BY <1>7, <2>0
  <2>2. \A k \in 1..(Len(past) + 1) : Since(c, es, k) = Since(c, past, k)
    <3> TAKE k \in 1..(Len(past) + 1)
    <3>1. CASE k = 1
      BY <3>1 DEF Since
    <3>2. CASE k # 1
      <4>1. k - 1 \in 1..Len(past)
        BY <1>7, <3>2
      <4>2. es[k - 1] = past[k - 1]
        BY <2>1, <4>1
      <4> QED BY <3>2, <4>2 DEF Since
    <3> QED BY <3>1, <3>2
  <2>3. InEvent(s, n, From(c, past), b, c, ws)
    BY <1>1, <1>2, <1>9 DEF StreamIs
  <2>4. /\ event = [start |-> event.start, end |-> Undefined, peak |-> event.peak]
        /\ event.start \in Int /\ Begins(event, From(c, past), b, c, ws)
        /\ Counting(n, s.under, c.exitRun, event.start + c.enterRun, Q)
        /\ PeakIs(event.peak, b, ws, event.start, n)
    BY <1>2, <2>3 DEF InEvent
  <2>5. event.end = Undefined
    BY <2>4
  <2>6. event.start + c.enterRun \in Int /\ 1 <= event.start
    BY <1>3, <1>6, <2>4 DEF Begins
  <2>7. \A j \in (event.start + c.enterRun)..n : ~Run(j, c.exitRun, Q)
    BY <1>3, <2>4, <2>6, NoLaterRun
  <2>8. PeakGiven(event, n, b, ws)
    BY <1>2, <1>3, <2>4, <2>6, PeakIsGiven
  <2>9. StillOpen(event, From(c, past), b, c, ws)
    BY <1>2, <2>4, <2>5, <2>7, <2>8 DEF StillOpen
  <2>10. Since(c, es, Len(past) + 1) = From(c, past)
    BY <1>7, <2>2 DEF From
  <2>11. ASSUME NEW k \in 1..Len(es)
         PROVE  \/ OverAndDone(es[k], Since(c, es, k), b, c, ws)
                \/ k = Len(es) /\ StillOpen(es[k], Since(c, es, k), b, c, ws)
    <3>1. CASE k = Len(past) + 1
      BY <2>1, <2>9, <2>10, <3>1
    <3>2. CASE k # Len(past) + 1
      <4>1. k \in 1..Len(past) /\ k \in 1..(Len(past) + 1)
        BY <1>7, <2>1, <3>2
      <4> QED BY <1>5, <2>1, <2>2, <4>1
    <3> QED BY <3>1, <3>2
  <2>12. es # <<>> /\ es[Len(es)].end = Undefined
    BY <1>7, <2>1, <2>5
  <2>13. DOMAIN es = 1..Len(es)
    BY <1>7, <2>0
  <2> QED BY <1>1, <1>2, <1>9, <2>0, <2>11, <2>12, <2>13 DEF AllRuns
<1> QED BY <1>8, <1>9

(* What is known of the events is what is promised.                        *)
LEMMA ClosedGives ==
  ASSUME NEW e, NEW from, NEW b, NEW c, NEW ws, OverAndDone(e, from, b, c, ws)
  PROVE  /\ e.end # Undefined
         /\ e.start >= from /\ Run(e.start, c.enterRun, Overs(b, c, ws))
         /\ \A i \in from..(e.start - 1) : ~Run(i, c.enterRun, Overs(b, c, ws))
         /\ \A i \in (e.start + c.enterRun)..(e.end - 1) : ~Run(i, c.exitRun, Quiets(b, c, ws))
         /\ e.end >= e.start + c.enterRun /\ Run(e.end, c.exitRun, Quiets(b, c, ws))
         /\ PeakGiven(e, e.end + c.exitRun - 1, b, ws)
BY DEF OverAndDone, Begins

LEMMA OpenGives ==
  ASSUME NEW e, NEW from, NEW b, NEW c, NEW ws, StillOpen(e, from, b, c, ws)
  PROVE  /\ e.end = Undefined
         /\ e.start >= from /\ Run(e.start, c.enterRun, Overs(b, c, ws))
         /\ \A i \in from..(e.start - 1) : ~Run(i, c.enterRun, Overs(b, c, ws))
         /\ \A i \in (e.start + c.enterRun)..Len(ws) : ~Run(i, c.exitRun, Quiets(b, c, ws))
         /\ PeakGiven(e, Len(ws), b, ws)
BY DEF StillOpen, Begins

LEMMA RunsPromised ==
  ASSUME NEW v, AllRuns(v.events, v.baseline, v.config, v.windows)
  PROVE  AreRuns(v)
<1> DEFINE b == v.baseline
           c == v.config
           ws == v.windows
           es == v.events
           n == Len(ws)
           over == {k \in 1..n : ws[k] # Undefined /\ Over(b, c, ws[k])}
           quiet == {k \in 1..n : ws[k] # Undefined /\ Quiet(b, c, ws[k])}
           High(i) == i..(i + c.enterRun - 1) \subseteq over
           Low(i) == i..(i + c.exitRun - 1) \subseteq quiet
           Open(e) == e.end = Undefined
           After(k) == IF k = 1 THEN 1 ELSE es[k - 1].end + c.exitRun
           Reach(e) == IF Open(e) THEN n ELSE e.end + c.exitRun - 1
           Judgements(e) == {ws[i].sigma : i \in {i \in e.start..Reach(e) : ws[i] # Undefined}}
           Promised(k, e) ==
             /\ Open(e) => k = Len(es)
             /\ e.start >= After(k) /\ High(e.start)
             /\ \A i \in After(k)..(e.start - 1) : ~High(i)
             /\ \A i \in (e.start + c.enterRun)..(IF Open(e) THEN n ELSE e.end - 1) : ~Low(i)
             /\ ~Open(e) => e.end >= e.start + c.enterRun /\ Low(e.end)
             /\ e.peak = (IF b.contextual /\ b.flat THEN Undefined ELSE Max(Judgements(e)))
           NothingElse == (es = <<>> \/ ~Open(Last(es))) => \A i \in After(Len(es) + 1)..n : ~High(i)
<1>1. \A i : High(i) <=> Run(i, c.enterRun, Overs(b, c, ws))
  BY DEF Run, Overs
<1>2. \A i : Low(i) <=> Run(i, c.exitRun, Quiets(b, c, ws))
  BY DEF Run, Quiets
<1>3. \A k : After(k) = Since(c, es, k)
  BY DEF Since
<1>4. \A e : Judgements(e) = Sigmas(ws, e.start, Reach(e))
  BY DEF Sigmas
<1>5. ASSUME NEW k \in DOMAIN es PROVE Promised(k, es[k])
  <2>1. PICK e, from : e = es[k] /\ from = Since(c, es, k)
    OBVIOUS
  <2>2. \/ OverAndDone(e, from, b, c, ws)
        \/ k = Len(es) /\ StillOpen(e, from, b, c, ws)
    BY <2>1 DEF AllRuns
  <2>3. After(k) = from
    BY <1>3, <2>1
  <2> HIDE DEF b, c, ws, es, n, High, Low, After, Judgements
  <2>4. CASE OverAndDone(e, from, b, c, ws)
    <3>1. ~Open(e) /\ Reach(e) = e.end + c.exitRun - 1
      BY <2>4, ClosedGives
    <3>2. e.peak = (IF b.contextual /\ b.flat THEN Undefined ELSE Max(Judgements(e)))
      BY <1>4, <2>4, <3>1, ClosedGives DEF PeakGiven
    <3>3. e.start >= from /\ High(e.start) /\ \A i \in from..(e.start - 1) : ~High(i)
      BY <1>1, <2>4, ClosedGives
    <3>4. /\ \A i \in (e.start + c.enterRun)..(e.end - 1) : ~Low(i)
          /\ e.end >= e.start + c.enterRun /\ Low(e.end)
      BY <1>2, <2>4, ClosedGives
    <3> QED BY <2>1, <2>3, <3>1, <3>2, <3>3, <3>4
  <2>5. CASE k = Len(es) /\ StillOpen(e, from, b, c, ws)
    <3>1. Open(e) /\ Reach(e) = n
      BY <2>5, OpenGives
    <3>2. e.peak = (IF b.contextual /\ b.flat THEN Undefined ELSE Max(Judgements(e)))
      BY <1>4, <2>5, <3>1, OpenGives DEF PeakGiven, n
    <3>3. e.start >= from /\ High(e.start) /\ \A i \in from..(e.start - 1) : ~High(i)
      BY <1>1, <2>5, OpenGives
    <3>4. \A i \in (e.start + c.enterRun)..n : ~Low(i)
      BY <1>2, <2>5, OpenGives DEF n
    <3> QED BY <2>1, <2>3, <2>5, <3>1, <3>2, <3>3, <3>4
  <2> QED BY <2>2, <2>4, <2>5
<1>6. NothingElse
  <2>1. (es = <<>> \/ es[Len(es)].end # Undefined)
          => \A j \in From(c, es)..Len(ws) : ~Run(j, c.enterRun, Overs(b, c, ws))
    BY DEF AllRuns
  <2>2. From(c, es) = After(Len(es) + 1) /\ Last(es) = es[Len(es)]
    BY <1>3 DEF From, Last
  <2> HIDE DEF b, c, ws, es, High, After
  <2> QED BY <1>1, <2>1, <2>2
<1> QED BY <1>5, <1>6, Zenon DEF AreRuns

(* What is registered can be judged by.                                    *)
CatalogueInv ==
  /\ \A key \in DOMAIN catalogue : RunsOf(catalogue[key].config)
  /\ registrations = 0 \/ registrations \in DOMAIN Longest
StreamIInv == CatalogueInv /\ EventsAreRuns

LEMMA ResolvedRuns == ASSUME NEW e \in Entries PROVE RunsOf(ResolveConfig(e.baseline, e.config))
<1>1. CASE e.config # Undefined
  <2>1. ResolveConfig(e.baseline, e.config) = e.config
    BY <1>1 DEF ResolveConfig
  <2>2. {e.config.enterRun, e.config.exitRun} \subseteq Nat \ {0}
    BY <1>1, StreamAssumption
  <2> QED BY <2>1, <2>2 DEF RunsOf
<1>2. CASE e.config = Undefined
  <2>1. PICK c : c = ResolveConfig(e.baseline, e.config)
    OBVIOUS
  <2>2. c.enterRun = 2 /\ c.exitRun = 2
    BY <1>2, <2>1 DEF ResolveConfig, Plain
  <2> QED BY <2>1, <2>2 DEF RunsOf
<1> QED BY <1>1, <1>2

LEMMA RegisterKeeps ==
  ASSUME NEW keys, NEW e \in Entries, StreamIInv, verdict = <<>>, RegisterEntry(keys, e)
  PROVE  StreamIInv'
<1>1. CatalogueInv'
  <2>1. registrations' \in DOMAIN Longest
    BY DEF RegisterEntry
  <2>2. PICK r : r = [baseline |-> e.baseline, config |-> ResolveConfig(e.baseline, e.config)]
    OBVIOUS
  <2>3. RunsOf(r.config)
    BY <2>2, ResolvedRuns
  <2>4. catalogue' = [k \in DOMAIN catalogue \cup keys |-> IF k \in keys THEN r ELSE catalogue[k]]
    BY <2>2 DEF RegisterEntry
  <2>5. ASSUME NEW k \in DOMAIN catalogue' PROVE RunsOf(catalogue'[k].config)
    <3>1. CASE k \in keys
      <4>1. catalogue'[k] = r
        BY <2>4, <3>1
      <4> QED BY <2>3, <4>1
    <3>2. CASE k \notin keys
      <4>1. k \in DOMAIN catalogue /\ catalogue'[k] = catalogue[k]
        BY <2>4, <2>5, <3>2
      <4>2. RunsOf(catalogue[k].config)
        BY <4>1 DEF StreamIInv, CatalogueInv
      <4> QED BY <4>1, <4>2
    <3> QED BY <3>1, <3>2
  <2> QED BY <2>1, <2>5 DEF CatalogueInv, RunsOf
<1>2. EventsAreRuns'
  BY DEF RegisterEntry, EventsAreRuns
<1> QED BY <1>1, <1>2 DEF StreamIInv

LEMMA EvaluateKeeps ==
  ASSUME NEW m, NEW n \in 1..Longest[registrations], NEW ws \in [1..n -> Features \cup {Undefined}],
         registrations > 0, StreamIInv, Evaluate(m, ws)
  PROVE  StreamIInv'
<1>1. PICK key \in KeyOf(m) :
        verdict' = [windows |-> ws, baseline |-> catalogue[key].baseline,
                    config |-> catalogue[key].config,
                    events |-> EventsOf(catalogue[key].baseline, catalogue[key].config, ws)]
  BY DEF Evaluate
<1>2. PICK b, c, es : b = catalogue[key].baseline /\ c = catalogue[key].config /\ es = EventsOf(b, c, ws)
  OBVIOUS
<1>3. key \in DOMAIN catalogue
  BY DEF KeyOf
<1>4. RunsOf(c)
  BY <1>2, <1>3 DEF StreamIInv, CatalogueInv
<1>5. ws \in Streams
  <2>1. registrations \in DOMAIN Longest
    BY DEF StreamIInv, CatalogueInv
  <2>2. Longest[registrations] \in Nat
    BY <2>1, StreamAssumption
  <2>3. n \in Nat
    BY <2>2
  <2> QED BY <2>3 DEF Streams
<1>6. AllRuns(es, b, c, ws)
  BY <1>2, <1>4, <1>5, RunsAre
<1>7. PICK v : v = [windows |-> ws, baseline |-> b, config |-> c, events |-> es]
  OBVIOUS
<1>8. v.windows = ws /\ v.baseline = b /\ v.config = c /\ v.events = es
  BY <1>7
<1>9. AreRuns(v)
  BY <1>6, <1>8, RunsPromised
<1>10. verdict' = v
  BY <1>1, <1>2, <1>7
<1>11. EventsAreRuns'
  <2>1. AreRuns(verdict')
    BY <1>9, <1>10
  <2>2. AreRuns(verdict)' <=> AreRuns(verdict')
    BY DEF AreRuns, Over, Quiet
  <2> QED BY <2>1, <2>2 DEF EventsAreRuns
<1>12. CatalogueInv'
  BY DEF Evaluate, StreamIInv, CatalogueInv, RunsOf
<1> QED BY <1>11, <1>12 DEF StreamIInv

\* What evaluate_asset_stream returns are the runs of the stream it was given: for every
\* baseline, every pair of bounds with its lengths, and a stream of any length.
THEOREM EventsStayRuns == StreamSpec => []EventsAreRuns
<1>1. StreamInit => StreamIInv
  BY DEF StreamInit, StreamIInv, CatalogueInv, EventsAreRuns
<1>2. StreamIInv /\ [StreamNext]_streamVars => StreamIInv'
  <2> SUFFICES ASSUME StreamIInv, [StreamNext]_streamVars PROVE StreamIInv'
    OBVIOUS
  <2>1. CASE UNCHANGED streamVars
    <3>1. catalogue' = catalogue /\ registrations' = registrations /\ verdict' = verdict
      BY <2>1 DEF streamVars
    <3>2. CatalogueInv'
      BY <3>1 DEF StreamIInv, CatalogueInv, RunsOf
    <3>3. AreRuns(verdict)' <=> AreRuns(verdict)
      BY <3>1 DEF AreRuns, Over, Quiet
    <3>4. EventsAreRuns'
      BY <3>1, <3>3 DEF StreamIInv, EventsAreRuns
    <3> QED BY <3>2, <3>4 DEF StreamIInv
  <2>2. CASE StreamNext
    BY <2>2, RegisterKeeps, EvaluateKeeps DEF StreamNext
  <2> QED BY <2>1, <2>2
<1>3. StreamIInv => EventsAreRuns
  BY DEF StreamIInv
<1> QED BY <1>1, <1>2, <1>3, PTL DEF StreamSpec
=============================================================================
