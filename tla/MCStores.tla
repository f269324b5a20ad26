------------------------------ MODULE MCStores ------------------------------
(* The stores and registries of the system, which share no state, checked  *)
(* in one run: a behaviour is about one of them, its scene, and the others *)
(* rest.  In the scene "shares" nothing moves: its initial states are the  *)
(* bounded inputs of the division of groups into splits.                   *)
EXTENDS MCGovernance, MCTraining, MCMasterData, MCRawWindows

VARIABLES
  scene,
  groups      \* <<number of groups, split>>

trainingScene == <<systemVars, modelVars, splitVars>>
masterScene == <<masterVars, qualityVars>>
batchVars == <<streamVars, collectionVars>>

StoresInit ==
  /\ scene \in {"governance", "training", "master data", "raw windows", "shares",
               "streams", "collection"}
  /\ groups \in IF scene = "shares" THEN (1..MaxGroups) \X Splits ELSE {<<>>}
  /\ (scene # "governance" => left = Spent) /\ HandoffInit
  /\ (scene # "governance" => DOMAIN rules = AssetIds)
  /\ (scene # "training" => allowance = Unused) /\ TrainingScene
  /\ (scene # "master data" => now = 0) /\ SceneInit
  /\ (scene # "raw windows" => asset = "a") /\ RawInit
  /\ StreamInit /\ CollectionInit

StoresNext ==
  /\ UNCHANGED <<scene, groups>>
  /\ \/ /\ scene = "streams" /\ StreamNext
        /\ UNCHANGED <<allVars, trainingScene, masterScene, rawVars, collectionVars>>
     \/ /\ scene = "collection" /\ CollectionNext
        /\ UNCHANGED <<allVars, trainingScene, masterScene, rawVars, streamVars>>
     \/ /\ scene = "governance" /\ HandoffNext
        /\ UNCHANGED <<trainingScene, masterScene, rawVars, batchVars>>
     \/ /\ scene = "training" /\ TrainingNext
        /\ UNCHANGED <<allVars, masterScene, rawVars, batchVars>>
     \/ /\ scene = "master data" /\ QualityNext
        /\ UNCHANGED <<allVars, trainingScene, rawVars, batchVars>>
     \/ /\ scene = "raw windows" /\ RawNext
        /\ UNCHANGED <<allVars, trainingScene, masterScene, batchVars>>

StoresSpec ==
  StoresInit
  /\ [][StoresNext]_<<scene, groups, allVars, trainingScene, masterScene, rawVars, batchVars>>
-----------------------------------------------------------------------------
(* Properties: those of a component under one name.                        *)

\* Dataset versions hold what was reviewed, the division of any number of groups keeps
\* to its shares, and plans of recordings keep calibration and evaluation apart.
DatasetsHold ==
  /\ VersionsAreSound
  /\ groups # <<>> => SharesAreKept(groups[1], groups[2])
  /\ PlansAreSound
=============================================================================
