--------------------------- MODULE RuntimePipeline ---------------------------
(***************************************************************************)
(* What the runtime does with a committed round: the scenario of the cycle *)
(* is resolved, the fake SCADA service projects the consensused state with *)
(* the cycle's overrides, the projection is compared, the valid artifact   *)
(* is persisted, and the fingerprint lifecycle trains, reuses and          *)
(* evaluates the model -- every write a separate call to the object store, *)
(* which may fail, before or after it took effect, and between any two of  *)
(* which the process may die.  The store survives; everything else of the  *)
(* runtime is lost with it.                                                *)
(*                                                                         *)
(* Rounds are numbered in the order of their timestamps, over all runs of  *)
(* the process.  The plant moves: the values of two rounds differ by more  *)
(* than the comparison tolerates.  The three sensors are treated alike, so *)
(* one override stands for theirs.                                         *)
(***************************************************************************)
EXTENDS Integers, Sequences, FiniteSets, FiniteSetsExt

CONSTANTS Scenario,        \* the scenarios an operator selects
          OffsetExceeds,   \* the offset is larger than the tolerance
          SequenceLength,  \* demo_fingerprint_sequence_length
          TrainAfter,      \* demo_train_after_eligible_cycles
          MaxRounds,       \* bound on the rounds
          MaxLost,         \* bound on the interruptions
          MaxStart         \* bound on the configured start cycle

ASSUME PipelineAssumption ==
  /\ Scenario \subseteq {"normal", "scada_replay", "scada_freeze",
                         "scada_divergence", "single_edge_exclusion", "quorum_loss"}
  /\ OffsetExceeds \in BOOLEAN
  /\ SequenceLength \in Nat \ {0}
  /\ TrainAfter \in Nat
  /\ MaxRounds \in Nat
  /\ MaxLost \in Nat
  /\ MaxStart \in Nat

VARIABLES config,    \* the configuration the operator last set
          pc,        \* where the cycle is
          cycle,     \* cycle_index of this run
          stage,     \* the scenario-control stage of the cycle
          override,  \* the service's override
          frozen,    \* the service's frozen value: the round it is of
          history,   \* the service's projections
          todo,      \* the writes the cycle still has to make
          round,     \* rounds so far
          applied,   \* history: the scenario that round n ran under
          lost,      \* history: the interruptions so far
          artifacts, \* object store: valid artifacts
          datasets,  \* object store: manifests and window archives
          weights,   \* object store: saved .keras models
          models     \* object store: model metadata

serviceVars == <<override, frozen, history>>
storeVars == <<artifacts, datasets, weights, models>>
vars == <<config, pc, cycle, stage, serviceVars, todo, round, applied, lost, storeVars>>

-----------------------------------------------------------------------------
(* Scenario control. *)

ScadaMode(scenario) ==
  CASE scenario = "scada_replay"     -> "replay"
    [] scenario = "scada_freeze"     -> "freeze"
    [] scenario = "scada_divergence" -> "offset"
    [] OTHER                         -> "match"

FaultMode(scenario) ==
  IF scenario \in {"single_edge_exclusion", "quorum_loss"} THEN scenario ELSE "none"

(* resolve_runtime_scenario_control_stage: before its start cycle a        *)
(* scenario leaves the cycle normal.                                       *)
ActiveScenario(settings, index) ==
  IF index < settings.start THEN "normal" ELSE settings.scenario

-----------------------------------------------------------------------------
(* The fake SCADA service. *)

NoOverride == [mode |-> "match", source |-> 0]

(* Slip: an override is only ever replaced by another one. *)
Slip_Configured(scenario) ==
  LET mode == ScadaMode(scenario)
  IN  IF mode = "match" THEN override
      ELSE [mode   |-> mode,
            source |-> IF mode = "replay" /\ history # << >> THEN history[1].round ELSE 0]

(* configure_scada_replay_runtime_stage, after clear_overrides. *)
Configured(scenario) ==
  LET mode == ScadaMode(scenario)
  IN  [mode   |-> mode,
       source |-> IF mode = "replay" /\ history # << >> THEN history[1].round ELSE 0]

(* The round whose supervisory values round n shows. *)
Shown(settings, frozenAt, n) ==
  IF settings.mode = "freeze" /\ frozenAt # {} THEN CHOOSE m \in frozenAt : TRUE ELSE n

(* Slip: the last projection is replayed instead of the one asked for. *)
Slip_Behaviour(settings, n) ==
  IF settings.mode \in {"replay", "freeze"} /\ history # << >>
    THEN history[Len(history)].behaviour ELSE n

(* The round whose behavioural payload round n shows: freeze repeats the   *)
(* last projection, replay the one of the round asked for, and both the    *)
(* current one when there is none.                                         *)
Behaviour(settings, n) ==
  LET recorded == {i \in DOMAIN history : history[i].round = settings.source}
  IN  CASE settings.mode = "freeze" /\ history # << >> ->
             history[Len(history)].behaviour
        [] settings.mode = "replay" /\ settings.source # 0 /\ recorded # {} ->
             history[CHOOSE i \in recorded : \A j \in recorded : i <= j].behaviour
        [] settings.mode = "replay" /\ settings.source = 0 /\ history # << >> ->
             history[Len(history)].behaviour
        [] OTHER -> n

(* compare_consensused_to_scada *)
Divergent(projection) ==
  \/ projection.shown # projection.round
  \/ projection.mode = "offset" /\ OffsetExceeds

-----------------------------------------------------------------------------
(* Datasets.  The builders sort the artifacts they select by time, so a    *)
(* dataset is known by the rounds of its records; its key is made of its   *)
(* kind and of the first and last of them.                                 *)

Rounds(records) == {record.round : record \in records}

TrainingRounds == Rounds({record \in artifacts : record.eligible})
EvaluationRounds == Rounds(artifacts)

WindowCount(rounds) ==
  IF Cardinality(rounds) < SequenceLength THEN 0
  ELSE Cardinality(rounds) - SequenceLength + 1

(* A dataset is stored under its first and its last round. *)
DatasetKey(kind, rounds) ==
  [kind |-> kind, span |-> IF rounds = {} THEN << >> ELSE <<Min(rounds), Max(rounds)>>]

DatasetWrites(key, rounds) ==
  <<[object |-> "manifest", key |-> key, rounds |-> rounds],
    [object |-> "windows",  key |-> key, rounds |-> rounds]>>

(* Slip: the metadata is saved before the weights. *)
Slip_ModelWrites(key, rounds) ==
  <<[object |-> "metadata", key |-> key, rounds |-> rounds],
    [object |-> "weights",  key |-> key, rounds |-> rounds]>>

ModelWrites(key, rounds) ==
  <<[object |-> "weights",  key |-> key, rounds |-> rounds],
    [object |-> "metadata", key |-> key, rounds |-> rounds]>>

-----------------------------------------------------------------------------
Init ==
  /\ config = [scenario |-> "normal", start |-> 1]
  /\ pc = "down" /\ cycle = 0 /\ stage = "normal"
  /\ override = NoOverride /\ frozen = {} /\ history = << >>
  /\ todo = << >> /\ round = 0 /\ applied = << >> /\ lost = 0
  /\ artifacts = {} /\ datasets = << >> /\ weights = {} /\ models = {}

(* The operator, at any time. *)
SetScenario(scenario, start) ==
  /\ config' = [scenario |-> scenario, start |-> start]
  /\ UNCHANGED <<pc, cycle, stage, serviceVars, todo, round, applied, storeVars>>

(* build_demo_runtime_components *)
StartRuntime ==
  /\ pc = "down"
  /\ pc' = "idle" /\ cycle' = 0
  /\ override' = NoOverride /\ frozen' = {} /\ history' = << >>
  /\ UNCHANGED <<config, stage, todo, round, applied, storeVars>>

(* The process dies, is stopped, or an exception ends the loop. *)
StopRuntime ==
  /\ pc # "down"
  /\ pc' = "down" /\ todo' = << >>
  /\ UNCHANGED <<config, cycle, stage, serviceVars, round, applied, storeVars>>

(* The loop reads the configuration once per cycle. *)
StartCycle ==
  /\ pc = "idle"
  /\ round < MaxRounds
  /\ cycle' = cycle + 1
  /\ round' = round + 1
  /\ stage' = ActiveScenario(config, cycle + 1)
  /\ applied' = Append(applied, stage')
  /\ pc' = "consensus"
  /\ UNCHANGED <<config, serviceVars, todo, storeVars>>

(* The committed result has no valid state: the lifecycle is blocked.      *)
ConsensusFails ==
  /\ pc = "consensus"
  /\ pc' = "idle"
  /\ override' = Configured(stage) /\ frozen' = {}
  /\ UNCHANGED <<config, cycle, stage, history, todo, round, applied, storeVars>>

(* It has one: project, record, compare.                                   *)
Projection ==
  LET settings == Configured(stage)
  IN  [round     |-> round,
       mode      |-> settings.mode,
       shown     |-> Shown(settings, {}, round),
       behaviour |-> Behaviour(settings, round)]

(* Slip: the comparison is made but its outcome is not consulted. *)
Slip_ConsensusSucceeds ==
  /\ pc = "consensus"
  /\ FaultMode(stage) # "quorum_loss"
  /\ override' = Configured(stage)
  /\ frozen' = IF Projection.mode = "freeze" THEN {Projection.shown} ELSE {}
  /\ history' = Append(history, Projection)
  /\ pc' = "persist"
  /\ UNCHANGED <<config, cycle, stage, todo, round, applied, storeVars>>

ConsensusSucceeds ==
  /\ pc = "consensus"
  /\ FaultMode(stage) # "quorum_loss"
  /\ override' = Configured(stage)
  /\ frozen' = IF Projection.mode = "freeze" THEN {Projection.shown} ELSE {}
  /\ history' = Append(history, Projection)
  /\ pc' = IF Divergent(Projection) THEN "idle" ELSE "persist"
  /\ UNCHANGED <<config, cycle, stage, todo, round, applied, storeVars>>

(* Slip: the operator's latest setting decides the label. *)
Slip_Record ==
  [round |-> round, label |-> config.scenario, eligible |-> config.scenario = "normal"]

(* build_dataset_context: a scenario that is active, an override in force  *)
(* or an injected fault each make the artifact ineligible for training.    *)
Record ==
  [round    |-> round,
   label    |-> stage,
   eligible |-> /\ stage = "normal"
                /\ override.mode = "match"
                /\ FaultMode(stage) = "none"]

PersistArtifact ==
  /\ pc = "persist"
  /\ artifacts' = artifacts \cup {Record}
  /\ pc' = "lifecycle"
  /\ UNCHANGED <<config, cycle, stage, serviceVars, todo, round, applied,
                 datasets, weights, models>>

(* The lifecycle is blocked, although the object may have been stored. *)
PersistFails ==
  /\ pc = "persist"
  /\ artifacts' \in {artifacts, artifacts \cup {Record}}
  /\ pc' = "idle"
  /\ UNCHANGED <<config, cycle, stage, serviceVars, todo, round, applied,
                 datasets, weights, models>>

-----------------------------------------------------------------------------
(* execute_deferred_fingerprint_lifecycle *)

(* Slip: one more eligible cycle is asked for than configured. *)
Slip_EnoughHistory ==
  Cardinality(TrainingRounds) > TrainAfter /\ WindowCount(TrainingRounds) > 0

EnoughHistory ==
  Cardinality(TrainingRounds) >= TrainAfter /\ WindowCount(TrainingRounds) > 0

Defer ==
  /\ pc = "lifecycle" /\ models = {} /\ ~ EnoughHistory
  /\ pc' = "replay"
  /\ UNCHANGED <<config, cycle, stage, serviceVars, todo, round, applied, storeVars>>

(* The first model: persist the dataset, train on it, save. *)
Train ==
  /\ pc = "lifecycle" /\ models = {} /\ EnoughHistory
  /\ LET key == DatasetKey("training", TrainingRounds)
     IN  todo' = DatasetWrites(key, TrainingRounds) \o ModelWrites(key, TrainingRounds)
  /\ pc' = "write"
  /\ UNCHANGED <<config, cycle, stage, serviceVars, round, applied, storeVars>>

(* A model exists: persist the training and the evaluation dataset again,  *)
(* and evaluate the windows of the latter.                                 *)
Reuse ==
  /\ pc = "lifecycle" /\ models # {}
  /\ todo' = DatasetWrites(DatasetKey("training", TrainingRounds), TrainingRounds)
             \o DatasetWrites(DatasetKey("evaluation", EvaluationRounds), EvaluationRounds)
  /\ pc' = "write"
  /\ UNCHANGED <<config, cycle, stage, serviceVars, round, applied, storeVars>>

Saved(key) ==
  IF key \in DOMAIN datasets THEN datasets[key]
                             ELSE [manifest |-> {}, windows |-> {}]

Store(write) ==
  /\ datasets' =
       IF write.object \in {"manifest", "windows"}
         THEN [key \in DOMAIN datasets \cup {write.key} |->
                 IF key = write.key
                   THEN [Saved(key) EXCEPT ![write.object] = write.rounds]
                   ELSE datasets[key]]
         ELSE datasets
  /\ weights' = IF write.object = "weights"
                  THEN weights \cup {[dataset |-> write.key, trained |-> write.rounds]}
                  ELSE weights
  /\ models' = IF write.object = "metadata"
                 THEN models \cup {[dataset |-> write.key, trained |-> write.rounds]}
                 ELSE models
  /\ UNCHANGED artifacts

Write ==
  /\ pc = "write" /\ todo # << >>
  /\ Store(Head(todo))
  /\ todo' = Tail(todo)
  /\ UNCHANGED <<config, pc, cycle, stage, serviceVars, round, applied>>

(* The exception becomes an error stage; the replay stage is skipped. *)
WriteFails ==
  /\ pc = "write" /\ todo # << >>
  /\ Store(Head(todo)) \/ UNCHANGED storeVars
  /\ todo' = << >>
  /\ pc' = "idle"
  /\ UNCHANGED <<config, cycle, stage, serviceVars, round, applied>>

(* Inference reads the model and the dataset it names; nothing is written. *)
FinishLifecycle ==
  /\ pc = "write" /\ todo = << >>
  /\ pc' = "replay"
  /\ UNCHANGED <<config, cycle, stage, serviceVars, todo, round, applied, storeVars>>

(* run_scada_replay_behavior_detection: the dataset of the last artifacts  *)
(* and the projection; an exception in it is noted and swallowed.          *)
DetectsReplay ==
  /\ override.mode \in {"replay", "freeze"}
  /\ models # {}
  /\ Cardinality(artifacts) >= SequenceLength

ReplayKey ==
  [kind |-> "replay", span |-> <<round, override.mode, history[Len(history)].behaviour>>]

DetectReplay ==
  /\ pc = "replay" /\ DetectsReplay
  /\ todo' = DatasetWrites(ReplayKey, {round})
  /\ pc' = "writeReplay"
  /\ UNCHANGED <<config, cycle, stage, serviceVars, round, applied, storeVars>>

WriteReplay ==
  /\ pc = "writeReplay" /\ todo # << >>
  /\ \/ Store(Head(todo)) /\ todo' \in {Tail(todo), << >>}
     \/ UNCHANGED storeVars /\ todo' = << >>
  /\ UNCHANGED <<config, pc, cycle, stage, serviceVars, round, applied>>

(* A read fails: listing the artifacts, loading the dataset or the model,  *)
(* or in the replay stage.                                                 *)
ReadFails ==
  /\ \/ pc \in {"lifecycle", "replay"}
     \/ pc = "write" /\ todo = << >>
  /\ pc' = "idle"
  /\ UNCHANGED <<config, cycle, stage, serviceVars, todo, round, applied, storeVars>>

EndCycle ==
  /\ \/ pc = "replay" /\ ~ DetectsReplay
     \/ pc = "writeReplay" /\ todo = << >>
  /\ pc' = "idle"
  /\ UNCHANGED <<config, cycle, stage, serviceVars, todo, round, applied, storeVars>>

-----------------------------------------------------------------------------
Cycle ==
  \/ StartCycle
  \/ ConsensusSucceeds
  \/ PersistArtifact
  \/ Defer \/ Train \/ Reuse
  \/ Write \/ FinishLifecycle
  \/ DetectReplay \/ WriteReplay
  \/ EndCycle

(* What takes an artifact or a model from a cycle that would have had it. *)
Interrupt ==
  /\ lost < MaxLost
  /\ lost' = lost + 1
  /\ \/ ConsensusFails /\ FaultMode(stage) # "quorum_loss"
     \/ StopRuntime
     \/ PersistFails \/ WriteFails \/ ReadFails

Undisturbed ==
  /\ UNCHANGED lost
  /\ \/ StartRuntime
     \/ Cycle
     \/ ConsensusFails /\ FaultMode(stage) = "quorum_loss"

Next ==
  \/ \E scenario \in Scenario, start \in 1..MaxStart :
       SetScenario(scenario, start) /\ UNCHANGED lost
  \/ Undisturbed
  \/ Interrupt

Spec == Init /\ [][Next]_vars

(* The runtime is started again whenever it is down, and a cycle goes on   *)
(* unless it is interrupted.                                               *)
FairSpec == Spec /\ WF_vars(Undisturbed)

-----------------------------------------------------------------------------
(* Properties. *)

Mode == {"match", "replay", "freeze", "offset"}
Stage == Scenario \cup {"normal"}
Span == {<< >>} \cup (Nat \X Nat) \cup (Nat \X Mode \X Nat)
Key == [kind : {"training", "evaluation", "replay"}, span : Span]

(* The type invariant of one runtime and of the store it shares with the   *)
(* runs before it.                                                         *)
TypeOK ==
  /\ config \in [scenario : Stage, start : Nat]
  /\ pc \in {"down", "idle", "consensus", "persist", "lifecycle", "write",
            "replay", "writeReplay"}
  /\ cycle \in Nat /\ round \in Nat /\ lost \in Nat
  /\ stage \in Stage /\ applied \in Seq(Stage)
  /\ override \in [mode : Mode, source : Nat] /\ frozen \subseteq Nat
  /\ history \in Seq([round : Nat, mode : Mode, shown : Nat, behaviour : Nat])
  /\ artifacts \subseteq [round : Nat, label : Stage, eligible : BOOLEAN]
  /\ DOMAIN datasets \subseteq Key
  /\ datasets \in [DOMAIN datasets -> [manifest : SUBSET Nat, windows : SUBSET Nat]]
  /\ weights \subseteq [dataset : Key, trained : SUBSET Nat]
  /\ models \subseteq [dataset : Key, trained : SUBSET Nat]
  /\ todo \in Seq([object : {"manifest", "windows", "weights", "metadata"},
                   key : Key, rounds : SUBSET Nat])

(* The model is trained on rounds that ran under no scenario: whatever the *)
(* operator changes while a cycle is under way, and whatever writes fail,  *)
(* no faulty, frozen, replayed or offset round is ever among the records   *)
(* build_normal_training_windows selects (evaluate_training_eligibility).  *)
TrainingDataIsNormal ==
  \A key \in DOMAIN datasets :
    key.kind = "training" => \A n \in datasets[key].windows : applied[n] = "normal"

(* A round without a valid state, or one SCADA contradicts, reaches no     *)
(* stage that writes: the store is the same when its cycle ends.           *)
BlockedRound ==
  \/ history = << >>
  \/ history[Len(history)].round # round
  \/ Divergent(history[Len(history)])

BlockedCyclesWriteNothing ==
  [][pc # "down" /\ BlockedRound => UNCHANGED storeVars]_vars

(* Whatever the runtime died between, a model that can be found is there:  *)
(* its weights are stored, and the dataset its metadata names, the         *)
(* baseline of every later threshold, is still the one it was trained on.  *)
ModelIsBacked ==
  \A model \in models :
    /\ model \in weights
    /\ Saved(model.dataset) = [manifest |-> model.trained, windows |-> model.trained]

(* An override lasts one cycle: every projection was made in the mode of   *)
(* the scenario its own round ran under.                                   *)
OverridesLastOneCycle ==
  \A i \in DOMAIN history : history[i].mode = ScadaMode(applied[history[i].round])

(* A replayed projection repeats the behaviour of the run's first one, and *)
(* a freeze the behaviour of the last projection before it, for as long as *)
(* it lasts.                                                               *)
RepeatedBehaviourIsRecorded ==
  \A i \in DOMAIN history :
    /\ history[i].mode = "replay" => history[i].behaviour = history[1].round
    /\ history[i].mode \in {"match", "offset"} => history[i].behaviour = history[i].round
    /\ \A j \in DOMAIN history :
         (i < j /\ \A k \in (i + 1)..j : history[k].mode = "freeze")
           => history[j].behaviour = history[i].behaviour

(* The supervisory values stay the same for as long as a freeze lasts      *)
(* (docs/runtime-artifacts-and-evidence-report.md, scada_freeze).          *)
FreezeHoldsValues ==
  \A i, j \in DOMAIN history :
    (i < j /\ \A k \in i..j : history[k].mode = "freeze")
      => history[j].shown = history[i].shown

(* What is stored counts: wherever one cycle is interrupted, in the middle *)
(* of its writes or between them, before or after one took effect, the     *)
(* rounds that remain lead to a model as long as the operator keeps the    *)
(* scenario normal (execute_deferred_fingerprint_lifecycle).               *)
EnoughRounds(interruptions) ==
  /\ interruptions + TrainAfter <= MaxRounds
  /\ interruptions + SequenceLength <= MaxRounds

NormalRunsTrain ==
  [](config.scenario = "normal" /\ EnoughRounds(lost)) => <>(models # {})
=============================================================================
