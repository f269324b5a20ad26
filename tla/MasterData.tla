----------------------------- MODULE MasterData -----------------------------
(***************************************************************************)
(* Sites, assets, install points and devices (data.py) and the gate that   *)
(* device_lifecycle.py puts around changes of device identity.             *)
(*                                                                         *)
(* A request under STORE_LOCK is one step, and one that is refused changes *)
(* nothing.  Creating or deleting a device takes two such steps with a     *)
(* look at the history stores between them; it holds the gate all along,   *)
(* but other requests that only need STORE_LOCK come in between.           *)
(*                                                                         *)
(* Left out: names, codes, positions, the certificate's expiry, and the    *)
(* count of online devices, which is only shown.                           *)
(***************************************************************************)
EXTENDS Integers, FiniteSets
CONSTANTS
  Sites, Assets, Devices, Points, Networks,
  MaxRare,                    \* administrative steps in a behaviour
  Nobody

\* What a name or a slot in the tables of master data holds.
SiteRow == [net : Networks, plan : Networks, profile : Networks, targets : SUBSET Assets,
            assetCount : Nat, totalDevices : Nat]
AssetRow == [site : Sites, ready : BOOLEAN]
PointRow == [asset : Assets, active : BOOLEAN]
DeviceRow == [site : Sites, asset : Assets, active : BOOLEAN, certified : BOOLEAN]
GateRow == [op : {"create", "delete"}, dev : Devices]

ASSUME MasterConstants ==
  /\ IsFiniteSet(Assets) /\ IsFiniteSet(Devices) /\ MaxRare \in Nat
  /\ Nobody \notin Sites \cup Assets \cup Devices \cup Networks /\ Sites \cap Assets = {}
ASSUME NobodyIsNoRecord ==
  Nobody \notin SiteRow \cup AssetRow \cup PointRow \cup DeviceRow \cup GateRow

VARIABLES
  sites,       \* SITES with ROLLOUT_PLAN_RECORDS and SITE_NETWORK_PROFILE_RECORDS
  assets, ruleSets, installPoints, devices,
  packets,     \* [dev, asset] of TELEMETRY_RECORDS and the idempotency keys
  configs,     \* devices of DEVICE_CONFIGS and CONNECTIVITY_TEST_RECORDS
  visits,      \* [dev, asset] of ENVIRONMENT_INSPECTIONS
  references,  \* assets and sites of datasets, events and baselines
  histories,   \* device identities that the history stores have reserved
  gate,        \* the creation or deletion under way: [op, dev] or Nobody
  surveyed,    \* the asset a request for an install point has looked up
  rare

masterVars == <<sites, assets, ruleSets, installPoints, devices, packets, configs,
                visits, references, histories, gate, surveyed, rare>>
records == <<packets, configs, visits, references, histories>>
others == <<gate, surveyed>>

NewSite(net) == [net |-> net, plan |-> net, profile |-> net, targets |-> {},
                 assetCount |-> 0, totalDevices |-> 0]

MasterInit ==
  /\ sites \in [Sites -> {NewSite(net) : net \in Networks}]
  /\ assets = [a \in Assets |-> Nobody] /\ ruleSets = {}
  /\ installPoints = [p \in Points |-> Nobody]
  /\ devices = [d \in Devices |-> Nobody]
  /\ packets = {} /\ configs = {} /\ visits = {} /\ references = {}
  /\ histories = {} /\ gate = Nobody /\ surveyed = Nobody /\ rare = 0

Rarely == rare < MaxRare /\ rare' = rare + 1
AssetsOf(s) == {a \in Assets : assets[a] # Nobody /\ assets[a].site = s}
RegisteredDevices == {d \in Devices : devices[d] # Nobody}
DevicesOf(a) == {d \in RegisteredDevices : devices[d].asset = a}
ActiveOn(a) == {d \in DevicesOf(a) : devices[d].active}
Active(d) == d \in RegisteredDevices /\ devices[d].active

-----------------------------------------------------------------------------
(* Sites and their network.                                                *)

CreateSite(s, net) ==
  /\ Rarely /\ sites[s] = Nobody
  /\ sites' = [sites EXCEPT ![s] = NewSite(net)]
  /\ UNCHANGED <<assets, ruleSets, installPoints, devices, records, others>>

\* sync_site_network_profile and sync_rollout_network_configuration.
OnNetwork(site, net) == [site EXCEPT !.net = net, !.profile = net, !.plan = net]

\* update_site or update_site_network_profile.
UpdateNetwork(s, net) ==
  /\ Rarely /\ sites[s] # Nobody
  /\ sites' = [sites EXCEPT ![s] = OnNetwork(@, net)]
  /\ UNCHANGED <<assets, ruleSets, installPoints, devices, records, others>>

UpdateRolloutPlan(s, net, targets) ==
  /\ Rarely /\ sites[s] # Nobody /\ targets \subseteq AssetsOf(s) /\ targets # {}
  /\ sites' = [sites EXCEPT ![s] = [OnNetwork(@, net) EXCEPT !.targets = targets]]
  /\ UNCHANGED <<assets, ruleSets, installPoints, devices, records, others>>

DeleteSite(s) ==
  /\ Rarely /\ sites[s] # Nobody
  /\ AssetsOf(s) = {} /\ s \notin references
  /\ sites' = [sites EXCEPT ![s] = Nobody]
  /\ UNCHANGED <<assets, ruleSets, installPoints, devices, records, others>>

-----------------------------------------------------------------------------
(* Assets and install points.                                              *)

CreateAsset(a, s, ready) ==
  /\ sites[s] # Nobody /\ assets[a] = Nobody
  /\ assets' = [assets EXCEPT ![a] = [site |-> s, ready |-> ready]]
  /\ ruleSets' = ruleSets \cup {a}
  /\ sites' = [sites EXCEPT ![s].assetCount = @ + 1]
  /\ UNCHANGED <<installPoints, devices, records, others, rare>>

\* update_asset: the master data or the baseline of a mapped asset may change.
UpdateAsset(a) ==
  /\ Rarely /\ assets[a] # Nobody
  /\ assets' = [assets EXCEPT ![a].ready = ~@]
  /\ UNCHANGED <<sites, ruleSets, installPoints, devices, records, others>>

WithoutAsset(site, a) ==
  [site EXCEPT !.assetCount = IF @ > 0 THEN @ - 1 ELSE 0, !.targets = @ \ {a}]

AssetIsFree(a) ==
  /\ a \notin references /\ DevicesOf(a) = {}
  /\ \A r \in packets \cup visits : r.asset # a

DeleteAsset(a) ==
  /\ Rarely /\ assets[a] # Nobody /\ AssetIsFree(a)
  /\ assets' = [assets EXCEPT ![a] = Nobody]
  /\ ruleSets' = ruleSets \ {a}
  /\ installPoints' = [p \in Points |-> IF installPoints[p] = Nobody \/ installPoints[p].asset # a
                                 THEN installPoints[p] ELSE Nobody]
  /\ sites' = [sites EXCEPT ![assets[a].site] = WithoutAsset(@, a)]
  /\ UNCHANGED <<devices, records, others>>

\* create_install_point looks the asset up before it takes the lock, and once
\* more inside only when it has to make up the point's id.
SurveyPoint(a) ==
  /\ Rarely /\ surveyed = Nobody /\ assets[a] # Nobody /\ surveyed' = a
  /\ UNCHANGED <<sites, assets, ruleSets, installPoints, devices, records, gate>>

CreatePoint(p, named) ==
  /\ surveyed # Nobody /\ surveyed' = Nobody
  /\ installPoints' = IF installPoints[p] = Nobody /\ (named \/ assets[surveyed] # Nobody)
               THEN [installPoints EXCEPT ![p] = [asset |-> surveyed, active |-> TRUE]]
               ELSE installPoints
  /\ UNCHANGED <<sites, assets, ruleSets, devices, records, gate, rare>>

UpdatePoint(p) ==
  /\ Rarely /\ installPoints[p] # Nobody /\ assets[installPoints[p].asset] # Nobody
  /\ installPoints' = [installPoints EXCEPT ![p].active = ~@]
  /\ UNCHANGED <<sites, assets, ruleSets, devices, records, others>>

-----------------------------------------------------------------------------
(* Devices.                                                                *)

\* validate_asset_device_mapping.
Mappable(s, a) ==
  /\ assets[a] # Nobody /\ assets[a].site = s
  /\ assets[a].ready /\ a \in sites[s].targets

\* One active device per asset, with a registered certificate.
MayBeActive(d, a, certified) == certified /\ ActiveOn(a) \subseteq {d}

\* create_device: first the identity, then the mapping, with the gate held.
BeginCreate(d) ==
  /\ gate = Nobody /\ d \notin RegisteredDevices /\ d \notin histories
  /\ gate' = [op |-> "create", dev |-> d]
  /\ UNCHANGED <<sites, assets, ruleSets, installPoints, devices, records, surveyed, rare>>

FinishCreate(a, active, certified) ==
  LET d == gate.dev
      s == assets[a].site IN
  /\ gate # Nobody /\ gate.op = "create" /\ assets[a] # Nobody
  /\ Mappable(s, a) /\ d \notin RegisteredDevices
  /\ active => MayBeActive(d, a, certified)
  /\ devices' = [devices EXCEPT ![d] = [site |-> s, asset |-> a, active |-> active,
                                        certified |-> certified]]
  /\ sites' = [sites EXCEPT ![s].totalDevices = @ + 1]
  /\ gate' = Nobody
  /\ UNCHANGED <<assets, ruleSets, installPoints, records, surveyed, rare>>

\* update_device: within the site of the device.
UpdateDevice(d, a, active, certified) ==
  LET old == devices[d]
      new == [old EXCEPT !.asset = a, !.active = active, !.certified = certified] IN
  /\ Rarely /\ gate = Nobody /\ d \in RegisteredDevices /\ new # old
  /\ assets[a] # Nobody /\ assets[a].site = old.site
  /\ a # old.asset \/ (active /\ ~old.active) => Mappable(old.site, a)
  /\ active => MayBeActive(d, a, certified)
  /\ devices' = [devices EXCEPT ![d] = new]
  /\ UNCHANGED <<sites, assets, ruleSets, installPoints, records, others>>

\* delete_device: the history stores are asked first, and the records that only
\* need STORE_LOCK when the device is taken out.
BeginDelete(d) ==
  /\ gate = Nobody /\ d \in RegisteredDevices /\ d \notin histories
  /\ gate' = [op |-> "delete", dev |-> d]
  /\ UNCHANGED <<sites, assets, ruleSets, installPoints, devices, records, surveyed, rare>>

DeviceIsFree(d) == d \notin configs /\ \A r \in packets \cup visits : r.dev # d

FinishDelete ==
  LET d == gate.dev IN
  /\ gate # Nobody /\ gate.op = "delete" /\ DeviceIsFree(d)
  /\ devices' = [devices EXCEPT ![d] = Nobody]
  /\ sites' = [sites EXCEPT ![devices[d].site].totalDevices = @ - 1]
  /\ gate' = Nobody
  /\ UNCHANGED <<assets, ruleSets, installPoints, records, surveyed, rare>>

\* Any refusal in the second step.
GiveUp ==
  /\ gate # Nobody /\ gate' = Nobody
  /\ UNCHANGED <<sites, assets, ruleSets, installPoints, devices, records, surveyed, rare>>

-----------------------------------------------------------------------------
(* What refers to them.                                                    *)

Measure(d) ==
  /\ Active(d)
  /\ packets' = packets \cup {[dev |-> d, asset |-> devices[d].asset]}
  /\ UNCHANGED <<sites, assets, ruleSets, installPoints, devices, configs, visits,
                 references, histories, others, rare>>

Expire(d) ==
  /\ Rarely /\ \E r \in packets : r.dev = d
  /\ packets' = {r \in packets : r.dev # d}
  /\ UNCHANGED <<sites, assets, ruleSets, installPoints, devices, configs, visits,
                 references, histories, others>>

\* create_connectivity_test, or request_configuration of an active device.
Configure(d) ==
  /\ Rarely /\ d \in RegisteredDevices /\ configs' = configs \cup {d}
  /\ UNCHANGED <<sites, assets, ruleSets, installPoints, devices, packets, visits,
                 references, histories, others>>

\* create_environment_inspection.
Visit(d) ==
  /\ Rarely /\ d \in RegisteredDevices
  /\ visits' = visits \cup {[dev |-> d, asset |-> devices[d].asset]}
  /\ UNCHANGED <<sites, assets, ruleSets, installPoints, devices, packets, configs,
                 references, histories, others>>

\* A dataset, an event or a baseline of an asset; a dataset also of a site.
Refer(x) ==
  /\ Rarely /\ \/ x \in Assets /\ assets[x] # Nobody
               \/ x \in Sites /\ sites[x] # Nobody
  /\ references' = references \cup {x}
  /\ UNCHANGED <<sites, assets, ruleSets, installPoints, devices, packets, configs,
                 visits, histories, others>>

-----------------------------------------------------------------------------
MasterNext ==
  \/ \E s \in Sites :
       \/ DeleteSite(s)
       \/ \E net \in Networks : CreateSite(s, net) \/ UpdateNetwork(s, net)
       \/ \E net \in Networks, targets \in SUBSET Assets : UpdateRolloutPlan(s, net, targets)
       \/ \E a \in Assets, ready \in BOOLEAN : CreateAsset(a, s, ready)
  \/ \E a \in Assets : UpdateAsset(a) \/ DeleteAsset(a) \/ SurveyPoint(a)
  \/ \E p \in Points :
       \/ UpdatePoint(p)
       \/ \E named \in BOOLEAN : CreatePoint(p, named)
  \/ \E d \in Devices :
       \/ BeginCreate(d) \/ BeginDelete(d)
       \/ Measure(d) \/ Expire(d) \/ Configure(d) \/ Visit(d)
  \/ \E a \in Assets, active, certified \in BOOLEAN :
       \/ FinishCreate(a, active, certified)
       \/ \E d \in Devices : UpdateDevice(d, a, active, certified)
  \/ FinishDelete
  \/ GiveUp
  \/ \E x \in Assets \cup Sites : Refer(x)

-----------------------------------------------------------------------------
(* Properties.                                                             *)

\* The lists of master data, each changed in several places, agree: a device is
\* on an asset of its site and the only active one there, with a certificate; the
\* plan names assets of the site; every asset has its rule; the three copies of the
\* network are one; and the counts are counts.
ListsAgree ==
  /\ \A d \in RegisteredDevices :
       LET dev == devices[d] IN
       /\ dev.asset \in AssetsOf(dev.site)
       /\ dev.active => dev.certified /\ ActiveOn(dev.asset) = {d}
  /\ ruleSets = {a \in Assets : assets[a] # Nobody}
  /\ \A a \in ruleSets : sites[assets[a].site] # Nobody
  /\ \A s \in Sites : sites[s] # Nobody =>
       LET site == sites[s] IN
       /\ site.targets \subseteq AssetsOf(s)
       /\ {site.net, site.plan, site.profile} = {site.net}
       /\ site.assetCount = Cardinality(AssetsOf(s))
       /\ site.totalDevices = Cardinality({d \in RegisteredDevices : devices[d].site = s})

\* Nothing that was recorded about a device or an asset outlives it, so an identity
\* that is registered anew starts without a history: whatever comes in between the
\* two steps of a deletion or a creation.
NoOrphanRecords ==
  /\ histories \cup configs \subseteq RegisteredDevices
  /\ \A r \in packets \cup visits : r.dev \in RegisteredDevices /\ assets[r.asset] # Nobody
  /\ \A x \in references : IF x \in Assets THEN assets[x] # Nobody ELSE sites[x] # Nobody
=============================================================================
