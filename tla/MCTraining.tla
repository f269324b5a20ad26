------------------------------ MODULE MCTraining ------------------------------
(* Each budget lets some of the kinds of operation happen: versions edited *)
(* and frozen, versions exported, results trained and handed over, and the *)
(* registries of models, and the search for a split.  Rules on streams and *)
(* collections of recordings are scenes of their own.                      *)
EXTENDS TrainingHandoff, ModelVersions, SampleSplits, RuleStream, FieldCollection
SomeShares == {[train |-> 7, validation |-> 0, test |-> 3],
   [train |-> 6, validation |-> 2, test |-> 2]}

TrainingKinds == {"build", "edit", "freeze", "take", "export", "fault", "train",
                  "prepare", "send", "model", "split"}
Unused == [k \in TrainingKinds |-> 0]
SomeAllowances ==
  {Unused, [Unused EXCEPT !["build"] = 3, !["edit"] = 1, !["freeze"] = 2, !["take"] = 1],
   [Unused EXCEPT !["build"] = 2, !["edit"] = 2, !["freeze"] = 2],
   [Unused EXCEPT !["build"] = 1, !["edit"] = 4, !["freeze"] = 1],
   [Unused EXCEPT !["build"] = 1, !["edit"] = 1, !["freeze"] = 1, !["export"] = 2, !["fault"] = 1],
   [Unused EXCEPT !["build"] = 2, !["export"] = 2, !["fault"] = 2],
   [Unused EXCEPT !["build"] = 1, !["freeze"] = 1, !["train"] = 1, !["prepare"] = 1,
                 !["send"] = 2, !["fault"] = 1],
   [Unused EXCEPT !["build"] = 1, !["edit"] = 1, !["freeze"] = 1, !["train"] = 1,
                 !["prepare"] = 1, !["send"] = 1],
   [Unused EXCEPT !["build"] = 1, !["freeze"] = 1, !["train"] = 2,
                    !["prepare"] = 2, !["send"] = 1],
   [Unused EXCEPT !["model"] = 9], [Unused EXCEPT !["split"] = 1]}

TrainingScene ==
  /\ TrainingInit /\ ModelsInit
  /\ IF allowance["split"] = 1 THEN SplitInit ELSE recorded = <<>> /\ share = <<>> /\ split = <<>>
TrainingNext ==
  \/ SystemStep /\ UNCHANGED <<modelVars, splitVars>>
  \/ /\ Use("model") /\ ModelStep
     /\ UNCHANGED <<setVars, exportVars, trainingVars, splitVars>>
  \/ /\ Use("split") /\ Divide
     /\ UNCHANGED <<setVars, exportVars, trainingVars, modelVars>>
-----------------------------------------------------------------------------
\* A range with its own bound, two legacy baselines, one whose bound is overridden and
\* one that is corrupt.
Range3 == [sound |-> TRUE, contextual |-> TRUE, flat |-> TRUE, stored |-> 3]
Legacy == [Range3 EXCEPT !.contextual = FALSE, !.flat = FALSE]
SomeEntries ==
  {[baseline |-> Range3, config |-> Undefined],
   [baseline |-> Legacy, config |-> [enter |-> 4, exit |-> 2, enterRun |-> 2, exitRun |-> 1]],
   [baseline |-> [Legacy EXCEPT !.flat = TRUE],
    config |-> [enter |-> 3, exit |-> 2, enterRun |-> 1, exitRun |-> 2]],
   [baseline |-> Range3, config |-> [enter |-> 4, exit |-> 2, enterRun |-> 2, exitRun |-> 2]],
   [baseline |-> [Legacy EXCEPT !.sound = FALSE], config |-> Undefined]}
SomeFeatures == [sigma : {1, 3, 4}, off : {FALSE}] \cup {[sigma |-> 1, off |-> TRUE]}
SomeMachines == {<<"m", "pump">>, <<"n", Undefined>>}
SomeKeySets == {{"m"}, {"pump"}, {"default"}}
Lengths == <<5, 2>>

FirstSession == [id |-> 1, run |-> 1, context |-> "a", from |-> 0, to |-> 4, confirmed |-> TRUE,
                 valid |-> 1, missing |-> 0, invalid |-> 0, timing |-> 0]
SomeSessions ==
  {FirstSession,
   [FirstSession EXCEPT !.id = 2, !.run = 2, !.from = 4, !.to = 8, !.invalid = 1],
   [FirstSession EXCEPT !.id = 3, !.run = 3, !.from = 4, !.to = 12, !.missing = 1, !.timing = 1],
   [FirstSession EXCEPT !.id = 4, !.run = 4, !.context = "b", !.from = 8, !.to = 12]}
ClockSteps == {-3, 2}
=============================================================================
