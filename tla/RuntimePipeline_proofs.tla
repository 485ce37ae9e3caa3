------------------------ MODULE RuntimePipeline_proofs ------------------------
(***************************************************************************)
(* Proofs about RuntimePipeline, for every set of scenarios, every length  *)
(* of window and of history, any number of rounds and of interruptions.    *)
(*                                                                         *)
(* The datasets carry the argument.  An artifact is always of the latest   *)
(* round, so the eligible rounds only grow at their end, and the key of a  *)
(* training dataset determines its rounds: those eligible up to the last   *)
(* round the key names (Selected).  A dataset that is written again is     *)
(* therefore written with what it held.                                    *)
(***************************************************************************)
EXTENDS RuntimePipeline, FiniteSetTheorems, SequenceTheorems, TLAPS

-----------------------------------------------------------------------------
(* The cycle: which round is under way, under which scenario, and what the *)
(* service has projected in this run.                                      *)

Writing == {"persist", "lifecycle", "write", "replay", "writeReplay"}

CycleFollowsScenario ==
  /\ Len(applied) = round
  /\ pc \notin {"down", "idle"} => round # 0 /\ stage = applied[round]

ProjectionsInOrder ==
  /\ \A i \in DOMAIN history : history[i].round \in 1..round
  /\ \A i, j \in DOMAIN history : i < j => history[i].round < history[j].round
  /\ pc = "consensus" => \A i \in DOMAIN history : history[i].round < round

OnlyValidRoundsWrite == pc \in Writing => ~ BlockedRound

FirstIsItself == history # << >> => history[1].behaviour = history[1].round

-----------------------------------------------------------------------------
(* The artifacts. *)

Ends(rounds) ==
  rounds = {} \/ \E a, b \in rounds : \A n \in rounds : a <= n /\ n <= b

ArtifactsInOrder ==
  /\ \A record \in artifacts : record.round \in 1..round
  /\ pc \in {"consensus", "persist"} => \A record \in artifacts : record.round < round
  /\ Ends(TrainingRounds) /\ Ends(EvaluationRounds)

EligibleIsNormal ==
  \A record \in artifacts : record.eligible => applied[record.round] = "normal"

-----------------------------------------------------------------------------
(* The datasets and the model. *)

(* The rounds a training key stands for. *)
Selected(key) == {n \in TrainingRounds : key.span # << >> /\ n <= key.span[2]}

Good(key, rounds) ==
  key.kind = "training" =>
    /\ key.span # << >> => key.span[2] \in TrainingRounds
    /\ rounds = Selected(key)

DatasetsAreSelected ==
  \A key \in DOMAIN datasets :
    key.kind = "training" =>
      /\ key.span # << >> => key.span[2] \in TrainingRounds
      /\ datasets[key].windows \subseteq Selected(key)

ModelsAreSelected ==
  \A model \in models :
    model.dataset.kind = "training" /\ Good(model.dataset, model.trained)

Stored(write) ==
  /\ write.object = "manifest" =>
       write.key \in DOMAIN datasets /\ datasets[write.key].manifest = write.rounds
  /\ write.object = "windows" =>
       write.key \in DOMAIN datasets /\ datasets[write.key].windows = write.rounds
  /\ write.object = "weights" =>
       [dataset |-> write.key, trained |-> write.rounds] \in weights

(* What the metadata of a model announces. *)
Announced(write) ==
  {[object |-> o, key |-> write.key, rounds |-> write.rounds] :
     o \in {"manifest", "windows", "weights"}}

WritesAreGood ==
  /\ pc \notin {"write", "writeReplay"} => todo = << >>
  /\ \A i \in 1..Len(todo) :
       /\ Good(todo[i].key, todo[i].rounds)
       /\ todo[i].object = "metadata" => todo[i].key.kind = "training"

MetadataComesLast ==
  \A i \in 1..Len(todo) :
    todo[i].object = "metadata" =>
      \A write \in Announced(todo[i]) :
        Stored(write) \/ \E j \in 1..(i - 1) : todo[j] = write

(* The inductive invariant. *)
Inductive ==
  /\ TypeOK
  /\ CycleFollowsScenario /\ ProjectionsInOrder /\ OnlyValidRoundsWrite
  /\ OverridesLastOneCycle /\ FirstIsItself /\ RepeatedBehaviourIsRecorded
  /\ ArtifactsInOrder /\ EligibleIsNormal
  /\ DatasetsAreSelected /\ ModelsAreSelected /\ ModelIsBacked
  /\ WritesAreGood /\ MetadataComesLast

-----------------------------------------------------------------------------
(* Facts about the operators. *)

LEMMA ModeType == \A scenario : ScadaMode(scenario) \in Mode
BY DEF ScadaMode, Mode

(* The first and the last of a nonempty set of rounds are in it. *)
LEMMA EndsAreFound ==
  ASSUME NEW rounds \in SUBSET Nat, rounds # {}, Ends(rounds)
  PROVE  /\ Min(rounds) \in rounds /\ \A n \in rounds : Min(rounds) <= n
         /\ Max(rounds) \in rounds /\ \A n \in rounds : n <= Max(rounds)
<1>1. PICK a \in rounds, b \in rounds : \A n \in rounds : a <= n /\ n <= b
  BY DEF Ends
<1>2. \E x \in rounds : \A y \in rounds : x =< y
  BY <1>1
<1>3. \E x \in rounds : \A y \in rounds : x >= y
  BY <1>1
<1>4. Min(rounds) \in rounds /\ \A y \in rounds : Min(rounds) =< y
  BY <1>2, Zenon DEF Min
<1>5. Max(rounds) \in rounds /\ \A y \in rounds : Max(rounds) >= y
  BY <1>3, Zenon DEF Max
<1> QED BY <1>4, <1>5

LEMMA EndsGrow ==
  ASSUME NEW rounds \in SUBSET Nat, Ends(rounds), NEW n \in Nat,
         \A m \in rounds : m < n
  PROVE  Ends(rounds \cup {n})
<1>1. CASE rounds = {}
  BY <1>1 DEF Ends
<1>2. CASE rounds # {}
  <2>1. PICK a \in rounds, b \in rounds : \A m \in rounds : a <= m /\ m <= b
    BY <1>2 DEF Ends
  <2>2. \A m \in rounds \cup {n} : a <= m /\ m <= n
    BY <2>1
  <2> QED BY <2>2 DEF Ends
<1> QED BY <1>1, <1>2

(* The positions of a history. *)
LEMMA Positions ==
  ASSUME TypeOK
  PROVE  /\ Len(history) \in Nat /\ DOMAIN history = 1..Len(history)
         /\ history # << >> => /\ 1 \in DOMAIN history /\ Len(history) \in DOMAIN history
                               /\ 1 <= Len(history)
         /\ \A i \in DOMAIN history :
              history[i] \in [round : Nat, mode : Mode, shown : Nat, behaviour : Nat]
<1> DEFINE R == [round : Nat, mode : Mode, shown : Nat, behaviour : Nat]
<1> HIDE DEF R
<1>1. history \in Seq(R)
  BY DEF TypeOK, R
<1>2. /\ Len(history) \in Nat /\ DOMAIN history = 1..Len(history)
      /\ \A i \in DOMAIN history : history[i] \in R
  BY <1>1
<1>3. ASSUME history # << >> PROVE Len(history) >= 1
  BY <1>1, <1>3, EmptySeq
<1> QED BY <1>2, <1>3 DEF R

LEMMA ConfiguredType ==
  ASSUME TypeOK, NEW scenario
  PROVE  /\ Configured(scenario) \in [mode : Mode, source : Nat]
         /\ Configured(scenario).mode = ScadaMode(scenario)
         /\ (ScadaMode(scenario) = "replay" /\ history # << >>)
              => Configured(scenario).source = history[1].round
<1>1. history # << >> => history[1].round \in Nat
  BY Positions
<1> QED BY <1>1, ModeType DEF Configured

(* Whose behaviour a cycle repeats. *)
LEMMA Repeated ==
  ASSUME TypeOK, ProjectionsInOrder
  PROVE  Behaviour(Configured(stage), round) =
           IF ScadaMode(stage) = "freeze" /\ history # << >>
             THEN history[Len(history)].behaviour
           ELSE IF ScadaMode(stage) = "replay" /\ history # << >>
             THEN history[1].behaviour
           ELSE round
<1> DEFINE settings == Configured(stage)
           recorded == {i \in DOMAIN history : history[i].round = settings.source}
<1>1. settings.mode = ScadaMode(stage)
  BY ConfiguredType
<1>2. CASE ScadaMode(stage) = "replay" /\ history # << >>
  <2>1. settings.source = history[1].round /\ settings.source # 0
    BY <1>2, ConfiguredType, Positions DEF ProjectionsInOrder
  <2>2. recorded = {1}
    BY <1>2, <2>1, Positions DEF ProjectionsInOrder
  <2>3. (CHOOSE i \in recorded : \A j \in recorded : i <= j) = 1
    BY <2>2
  <2> QED BY <1>1, <1>2, <2>1, <2>2, <2>3 DEF Behaviour
<1>3. CASE ~ (ScadaMode(stage) = "replay" /\ history # << >>)
  <2>1. CASE history = << >>
    <3>1. DOMAIN history = {}
      BY <2>1
    <3> QED BY <1>1, <1>3, <2>1, <3>1 DEF Behaviour
  <2> QED BY <1>1, <1>3, <2>1 DEF Behaviour
<1> QED BY <1>2, <1>3

(* What a cycle projects: a round's values in the mode of its scenario. *)
LEMMA ProjectionType ==
  ASSUME TypeOK, ProjectionsInOrder
  PROVE  /\ Projection \in [round : Nat, mode : Mode, shown : Nat, behaviour : Nat]
         /\ Projection.round = round /\ Projection.shown = round
         /\ Projection.mode = ScadaMode(stage)
         /\ Projection.behaviour = Behaviour(Configured(stage), round)
<1> DEFINE settings == Configured(stage)
<1>1. settings \in [mode : Mode, source : Nat] /\ settings.mode = ScadaMode(stage)
  BY ConfiguredType
<1>2. Shown(settings, {}, round) = round
  BY DEF Shown
<1>3. round \in Nat
  BY DEF TypeOK
<1>4. Behaviour(settings, round) \in Nat
  BY <1>3, Repeated, Positions
<1> QED BY <1>1, <1>2, <1>3, <1>4 DEF Projection

(* The history once a cycle has projected. *)
LEMMA Appended ==
  ASSUME TypeOK, ProjectionsInOrder, ConsensusSucceeds
  PROVE  /\ history' \in Seq([round : Nat, mode : Mode, shown : Nat, behaviour : Nat])
         /\ Len(history') = Len(history) + 1
         /\ DOMAIN history' = 1..(Len(history) + 1)
         /\ \A i \in DOMAIN history : history'[i] = history[i]
         /\ history'[Len(history) + 1] = Projection
         /\ history' # << >>
<1> DEFINE R == [round : Nat, mode : Mode, shown : Nat, behaviour : Nat]
<1>1. history \in Seq(R) /\ Projection \in R
  BY ProjectionType DEF TypeOK
<1> HIDE DEF R
<1>2. history' = Append(history, Projection)
  BY DEF ConsensusSucceeds
<1>3. /\ history' \in Seq(R) /\ Len(history') = Len(history) + 1
      /\ DOMAIN history' = 1..(Len(history) + 1)
      /\ \A i \in 1..Len(history) : history'[i] = history[i]
      /\ history'[Len(history) + 1] = Projection
  BY <1>1, <1>2
<1>4. history' # << >>
  BY <1>1, <1>3
<1> QED BY <1>3, <1>4, Positions DEF R

-----------------------------------------------------------------------------
(* The steps, and what they leave alone. *)

Operates == \E scenario \in Scenario, start \in 1..MaxStart : SetScenario(scenario, start)

LEMMA Steps ==
  ASSUME Next
  PROVE  /\ \/ Operates \/ StartRuntime \/ StopRuntime
            \/ StartCycle \/ ConsensusFails \/ ConsensusSucceeds
            \/ PersistArtifact \/ PersistFails
            \/ Defer \/ Train \/ Reuse \/ Write \/ WriteFails \/ FinishLifecycle
            \/ DetectReplay \/ WriteReplay \/ ReadFails \/ EndCycle
         /\ lost' = lost \/ lost' = lost + 1
BY DEF Next, Undisturbed, Interrupt, Cycle, Operates

(* The steps that write no object. *)
Reads ==
  \/ Operates \/ StartRuntime \/ StopRuntime
  \/ StartCycle \/ ConsensusFails \/ ConsensusSucceeds
  \/ Defer \/ Train \/ Reuse \/ FinishLifecycle
  \/ DetectReplay \/ ReadFails \/ EndCycle

(* The steps that neither begin a cycle nor project. *)
Goes ==
  \/ Operates \/ StartRuntime \/ StopRuntime \/ ConsensusFails
  \/ PersistArtifact \/ PersistFails
  \/ Defer \/ Train \/ Reuse \/ Write \/ WriteFails \/ FinishLifecycle
  \/ DetectReplay \/ WriteReplay \/ ReadFails \/ EndCycle

LEMMA ReadsKeepStore ==
  ASSUME Reads
  PROVE  UNCHANGED <<artifacts, datasets, weights, models>>
BY DEF Reads, Operates, SetScenario, StartRuntime, StopRuntime, StartCycle,
       ConsensusFails, ConsensusSucceeds, Defer, Train, Reuse, FinishLifecycle,
       DetectReplay, ReadFails, EndCycle, storeVars

LEMMA GoesOn ==
  ASSUME TypeOK, Goes
  PROVE  /\ UNCHANGED <<round, applied>> /\ (stage' = stage)
         /\ history' \in {history, << >>}
         /\ pc' \in Writing => pc \in Writing /\ history' = history
         /\ pc' # "consensus" \/ (pc = "consensus" /\ history' = history)
         /\ pc' = "persist" => pc = "persist"
         /\ pc' \notin {"down", "idle"} => pc \notin {"down", "idle"}
BY DEF TypeOK, Goes, Operates, SetScenario, StartRuntime, StopRuntime,
       ConsensusFails, PersistArtifact, PersistFails, Defer, Train, Reuse, Write,
       WriteFails, FinishLifecycle, DetectReplay, WriteReplay, ReadFails, EndCycle,
       serviceVars, storeVars, Writing

-----------------------------------------------------------------------------
(* The cycle. *)

LEMMA CycleStep ==
  ASSUME TypeOK, CycleFollowsScenario, ProjectionsInOrder, OnlyValidRoundsWrite, Next
  PROVE  CycleFollowsScenario' /\ ProjectionsInOrder' /\ OnlyValidRoundsWrite'
<1>1. CASE Goes
  <2>1. CycleFollowsScenario'
    BY <1>1, GoesOn DEF CycleFollowsScenario
  <2>2. ProjectionsInOrder'
    <3>1. CASE history' = history
      BY <1>1, <3>1, GoesOn DEF ProjectionsInOrder
    <3>2. CASE history' = << >>
      BY <3>2 DEF ProjectionsInOrder
    <3> QED BY <1>1, <3>1, <3>2, GoesOn
  <2>3. OnlyValidRoundsWrite'
    BY <1>1, GoesOn DEF OnlyValidRoundsWrite, BlockedRound, Divergent
  <2> QED BY <2>1, <2>2, <2>3
<1>2. CASE StartCycle
  <2>1. /\ round' = round + 1 /\ stage' = ActiveScenario(config, cycle + 1)
        /\ applied' = Append(applied, stage') /\ pc' = "consensus"
        /\ history' = history
    BY <1>2 DEF StartCycle, serviceVars
  <2>2. stage' \in Stage
    <3>1. config.scenario \in Stage
      BY DEF TypeOK
    <3> QED BY <2>1, <3>1 DEF ActiveScenario, Stage
  <2>3. round \in Nat /\ applied \in Seq(Stage) /\ Len(applied) = round
    BY DEF TypeOK, CycleFollowsScenario
  <2>4. CycleFollowsScenario'
    BY <2>1, <2>2, <2>3 DEF CycleFollowsScenario
  <2>5. ProjectionsInOrder'
    BY <2>1, <2>3, Positions DEF ProjectionsInOrder
  <2>6. OnlyValidRoundsWrite'
    BY <2>1 DEF OnlyValidRoundsWrite, Writing
  <2> QED BY <2>4, <2>5, <2>6
<1>3. CASE ConsensusSucceeds
  <2>1. /\ UNCHANGED <<round, applied, stage>>
        /\ pc = "consensus" /\ pc' = IF Divergent(Projection) THEN "idle" ELSE "persist"
    BY <1>3 DEF ConsensusSucceeds
  <2>2. Projection.round = round
    BY ProjectionType
  <2>3. CycleFollowsScenario'
    BY <2>1 DEF CycleFollowsScenario
  <2>4. ProjectionsInOrder'
    <3>1. round \in Nat /\ round # 0
      BY <2>1 DEF TypeOK, CycleFollowsScenario
    <3>2. \A i \in DOMAIN history : history[i].round \in 1..round /\ history[i].round < round
      BY <2>1 DEF ProjectionsInOrder
    <3>3. /\ DOMAIN history' = 1..(Len(history) + 1) /\ DOMAIN history = 1..Len(history)
          /\ \A i \in DOMAIN history : history'[i].round = history[i].round
          /\ history'[Len(history) + 1].round = round
          /\ Len(history) \in Nat
      BY <1>3, <2>2, Appended, Positions
    <3>4. \A i \in DOMAIN history' : history'[i].round \in 1..round
      BY <3>1, <3>2, <3>3
    <3>5. \A i, j \in DOMAIN history' : i < j => history'[i].round < history'[j].round
      <4>1. TAKE i, j \in DOMAIN history'
      <4>2. HAVE i < j
      <4>3. i \in DOMAIN history
        BY <3>3, <4>2
      <4>4. CASE j = Len(history) + 1
        BY <3>2, <3>3, <4>3, <4>4
      <4>5. CASE j \in DOMAIN history
        BY <3>3, <4>2, <4>3, <4>5 DEF ProjectionsInOrder
      <4> QED BY <3>3, <4>4, <4>5
    <3> QED BY <2>1, <3>4, <3>5 DEF ProjectionsInOrder
  <2>5. OnlyValidRoundsWrite'
    BY <1>3, <2>1, <2>2, Appended DEF OnlyValidRoundsWrite, BlockedRound, Writing, Divergent
  <2> QED BY <2>3, <2>4, <2>5
<1> QED BY <1>1, <1>2, <1>3, Steps DEF Goes

-----------------------------------------------------------------------------
(* The projections of one run. *)

LEMMA HistoryStep ==
  ASSUME TypeOK, CycleFollowsScenario, ProjectionsInOrder, Next,
         OverridesLastOneCycle, FirstIsItself, RepeatedBehaviourIsRecorded
  PROVE  OverridesLastOneCycle' /\ FirstIsItself' /\ RepeatedBehaviourIsRecorded'
<1>1. CASE history' = << >>
  BY <1>1 DEF OverridesLastOneCycle, FirstIsItself, RepeatedBehaviourIsRecorded
<1>2. ASSUME history' = history,
             \A i \in DOMAIN history : applied'[history[i].round] = applied[history[i].round]
      PROVE  OverridesLastOneCycle' /\ FirstIsItself' /\ RepeatedBehaviourIsRecorded'
  BY <1>2 DEF OverridesLastOneCycle, FirstIsItself, RepeatedBehaviourIsRecorded
<1>3. CASE Goes
  BY <1>1, <1>2, <1>3, GoesOn
<1>4. CASE StartCycle
  <2>1. applied' = Append(applied, stage') /\ history' = history
    BY <1>4 DEF StartCycle, serviceVars
  <2>2. \A i \in DOMAIN history : history[i].round \in 1..Len(applied)
    BY DEF CycleFollowsScenario, ProjectionsInOrder
  <2>3. applied \in Seq(Stage)
    BY DEF TypeOK
  <2>4. \A n \in 1..Len(applied) : applied'[n] = applied[n]
    BY <2>1, <2>3
  <2> QED BY <1>2, <2>1, <2>2, <2>4
<1>5. CASE ConsensusSucceeds
  <2> DEFINE L == Len(history)
  <2>1. /\ L \in Nat /\ DOMAIN history = 1..L /\ DOMAIN history' = 1..(L + 1)
        /\ \A i \in 1..L : history'[i] = history[i]
        /\ history'[L + 1] = Projection
    BY <1>5, Appended, Positions
  <2>2. history = << >> <=> L = 0
    BY Positions
  <2>3. /\ Projection.round = round /\ Projection.mode = ScadaMode(stage)
        /\ Projection.behaviour =
             IF Projection.mode = "freeze" /\ L # 0 THEN history[L].behaviour
             ELSE IF Projection.mode = "replay" /\ L # 0 THEN history[1].behaviour
             ELSE round
    BY <2>2, ProjectionType, Repeated
  <2>4. applied' = applied /\ stage = applied[round]
    BY <1>5 DEF ConsensusSucceeds, CycleFollowsScenario
  <2> HIDE DEF L
  <2>5. OverridesLastOneCycle'
    <3>1. ASSUME NEW i \in 1..(L + 1)
          PROVE  history'[i].mode = ScadaMode(applied[history'[i].round])
      <4>1. CASE i = L + 1
        BY <2>1, <2>3, <2>4, <4>1
      <4>2. CASE i \in 1..L
        BY <2>1, <4>2 DEF OverridesLastOneCycle
      <4> QED BY <2>1, <4>1, <4>2
    <3> QED BY <2>1, <2>4, <3>1 DEF OverridesLastOneCycle
  <2>6. FirstIsItself'
    <3>1. CASE L = 0
      BY <2>1, <2>3, <3>1 DEF FirstIsItself
    <3>2. CASE L # 0
      BY <2>1, <2>2, <3>2 DEF FirstIsItself
    <3> QED BY <3>1, <3>2
  <2>7. history'[1].behaviour = history'[1].round
    BY <1>5, <2>6, Appended DEF FirstIsItself
  <2>8. ASSUME NEW i \in 1..(L + 1)
        PROVE  /\ history'[i].mode = "replay" => history'[i].behaviour = history'[1].round
               /\ history'[i].mode \in {"match", "offset"}
                    => history'[i].behaviour = history'[i].round
    <3>1. CASE i \in 1..L
      BY <2>1, <3>1 DEF RepeatedBehaviourIsRecorded
    <3>2. CASE i = L + 1 /\ L = 0
      BY <2>1, <2>3, <3>2
    <3>3. CASE i = L + 1 /\ L # 0
      <4>1. history'[1] = history[1] /\ history[1].behaviour = history[1].round
        BY <2>1, <2>7, <3>3
      <4> QED BY <2>1, <2>3, <3>3, <4>1
    <3> QED BY <2>1, <3>1, <3>2, <3>3
  <2>9. ASSUME NEW i \in 1..(L + 1), NEW j \in 1..(L + 1), i < j,
               \A k \in (i + 1)..j : history'[k].mode = "freeze"
        PROVE  history'[j].behaviour = history'[i].behaviour
    <3>1. ASSUME NEW m \in 1..L, i <= m, m <= j
          PROVE  history[m].behaviour = history[i].behaviour
      <4>1. i \in 1..L /\ \A k \in (i + 1)..m : history[k].mode = "freeze"
        BY <2>1, <2>9, <3>1
      <4> QED BY <2>1, <3>1, <4>1 DEF RepeatedBehaviourIsRecorded
    <3>2. CASE j \in 1..L
      BY <2>1, <2>9, <3>1, <3>2
    <3>3. CASE j = L + 1
      <4>1. history'[j].mode = "freeze" /\ L \in 1..L /\ i <= L
        BY <2>1, <2>9, <3>3
      <4>2. history'[j].behaviour = history[L].behaviour
        BY <2>1, <2>3, <3>3, <4>1
      <4> QED BY <2>1, <2>9, <3>1, <3>3, <4>1, <4>2
    <3> QED BY <2>1, <3>2, <3>3
  <2>10. RepeatedBehaviourIsRecorded'
    BY <2>1, <2>8, <2>9 DEF RepeatedBehaviourIsRecorded
  <2> QED BY <2>5, <2>6, <2>10
<1> QED BY <1>3, <1>4, <1>5, Steps DEF Goes

-----------------------------------------------------------------------------
(* What a cycle without a valid round may not do. *)

LEMMA BlockedStep ==
  ASSUME TypeOK, OnlyValidRoundsWrite, Next, pc # "down", BlockedRound
  PROVE  UNCHANGED storeVars
<1>1. pc \notin Writing
  BY DEF OnlyValidRoundsWrite
<1>2. CASE Reads
  BY <1>2, ReadsKeepStore DEF storeVars
<1>3. CASE PersistArtifact \/ PersistFails \/ Write \/ WriteFails \/ WriteReplay
  BY <1>1, <1>3 DEF Writing, PersistArtifact, PersistFails, Write, WriteFails, WriteReplay
<1> QED BY <1>2, <1>3, Steps DEF Reads

-----------------------------------------------------------------------------
(* The artifacts. *)

(* Storing the artifact of the cycle, the one step that adds to them. *)
Records ==
  /\ pc = "persist" /\ pc' \notin {"consensus", "persist", "write", "writeReplay"}
  /\ artifacts' = artifacts \cup {Record}
  /\ UNCHANGED <<round, applied, todo, datasets, weights, models>>

LEMMA ArtifactSteps ==
  ASSUME TypeOK, Next
  PROVE  Records \/ UNCHANGED artifacts
<1>1. CASE Reads
  BY <1>1, ReadsKeepStore
<1>2. CASE PersistArtifact
  BY <1>2 DEF PersistArtifact, Records
<1>3. CASE PersistFails
  BY <1>3 DEF PersistFails, Records
<1>4. CASE Write \/ WriteFails \/ WriteReplay
  BY <1>4 DEF Write, WriteFails, WriteReplay, Store, storeVars
<1> QED BY <1>1, <1>2, <1>3, <1>4, Steps DEF Reads

LEMMA RoundSteps ==
  ASSUME TypeOK, CycleFollowsScenario, Next
  PROVE  \/ /\ UNCHANGED <<round, applied>>
            /\ pc' \in {"consensus", "persist"} => pc \in {"consensus", "persist"}
         \/ /\ round' = round + 1
            /\ \A n \in 1..round : applied'[n] = applied[n]
<1>1. CASE StartCycle
  <2>1. round' = round + 1 /\ applied' = Append(applied, stage')
    BY <1>1 DEF StartCycle
  <2>2. applied \in Seq(Stage) /\ Len(applied) = round
    BY DEF TypeOK, CycleFollowsScenario
  <2> QED BY <2>1, <2>2
<1>2. CASE ConsensusSucceeds
  BY <1>2 DEF ConsensusSucceeds
<1>3. CASE Goes
  BY <1>3, GoesOn DEF Writing
<1> QED BY <1>1, <1>2, <1>3, Steps DEF Goes

LEMMA RoundsType ==
  ASSUME TypeOK
  PROVE  TrainingRounds \subseteq Nat /\ EvaluationRounds \subseteq Nat
BY DEF TypeOK, TrainingRounds, EvaluationRounds, Rounds

(* An artifact adds its round at the end. *)
LEMMA RecordedLast ==
  ASSUME TypeOK, ArtifactsInOrder, Records
  PROVE  /\ \A n \in TrainingRounds : n < round
         /\ \A n \in EvaluationRounds : n < round
         /\ TrainingRounds' \in {TrainingRounds, TrainingRounds \cup {round}}
         /\ EvaluationRounds' = EvaluationRounds \cup {round}
<1>1. \A record \in artifacts : record.round < round
  BY DEF ArtifactsInOrder, Records
<1>2. artifacts' = artifacts \cup {Record} /\ Record.round = round
  BY DEF Records, Record
<1>3. TrainingRounds' = TrainingRounds \cup (IF Record.eligible THEN {round} ELSE {})
  BY <1>2 DEF TrainingRounds, Rounds
<1>4. EvaluationRounds' = EvaluationRounds \cup {round}
  BY <1>2 DEF EvaluationRounds, Rounds
<1> QED BY <1>1, <1>3, <1>4 DEF TrainingRounds, EvaluationRounds, Rounds

LEMMA ArtifactStep ==
  ASSUME TypeOK, CycleFollowsScenario, ArtifactsInOrder, EligibleIsNormal, Next
  PROVE  ArtifactsInOrder' /\ EligibleIsNormal'
<1> round \in Nat
  BY DEF TypeOK
<1>1. CASE Records
  <2>1. /\ artifacts' = artifacts \cup {Record} /\ Record.round = round
        /\ UNCHANGED <<round, applied>>
        /\ pc' \notin {"consensus", "persist"} /\ round # 0 /\ stage = applied[round]
        /\ Record.eligible => stage = "normal"
    BY <1>1 DEF Records, Record, CycleFollowsScenario
  <2>2. Ends(TrainingRounds') /\ Ends(EvaluationRounds')
    BY <1>1, RecordedLast, RoundsType, EndsGrow DEF ArtifactsInOrder
  <2>3. Ends(TrainingRounds)' /\ Ends(EvaluationRounds)'
    BY <2>2 DEF Ends
  <2>4. ArtifactsInOrder'
    BY <2>1, <2>3 DEF ArtifactsInOrder
  <2>5. EligibleIsNormal'
    BY <2>1 DEF EligibleIsNormal
  <2> QED BY <2>4, <2>5
<1>2. CASE UNCHANGED artifacts
  <2>1. Ends(TrainingRounds)' /\ Ends(EvaluationRounds)'
    BY <1>2 DEF ArtifactsInOrder, Ends, TrainingRounds, EvaluationRounds, Rounds
  <2>2. ArtifactsInOrder' /\ EligibleIsNormal'
    <3>1. CASE /\ UNCHANGED <<round, applied>>
               /\ pc' \in {"consensus", "persist"} => pc \in {"consensus", "persist"}
      BY <1>2, <2>1, <3>1 DEF ArtifactsInOrder, EligibleIsNormal
    <3>2. CASE round' = round + 1 /\ \A n \in 1..round : applied'[n] = applied[n]
      BY <1>2, <2>1, <3>2 DEF ArtifactsInOrder, EligibleIsNormal
    <3> QED BY <3>1, <3>2, RoundSteps
  <2> QED BY <2>2
<1> QED BY <1>1, <1>2, ArtifactSteps

-----------------------------------------------------------------------------
(* The keys. *)

LEMMA DatasetKeyType ==
  ASSUME NEW kind \in {"training", "evaluation"}, NEW rounds \in SUBSET Nat, Ends(rounds)
  PROVE  /\ DatasetKey(kind, rounds) \in Key
         /\ DatasetKey(kind, rounds).kind = kind
         /\ rounds = {} => DatasetKey(kind, rounds).span = << >>
         /\ rounds # {} => /\ DatasetKey(kind, rounds).span[2] \in rounds
                           /\ DatasetKey(kind, rounds).span # << >>
                           /\ \A n \in rounds : n <= DatasetKey(kind, rounds).span[2]
<1>1. CASE rounds = {}
  BY <1>1 DEF DatasetKey, Key, Span
<1>2. CASE rounds # {}
  <2>1. /\ Min(rounds) \in Nat /\ Max(rounds) \in rounds /\ Max(rounds) \in Nat
        /\ \A n \in rounds : n <= Max(rounds)
    BY <1>2, EndsAreFound
  <2>2. DatasetKey(kind, rounds) = [kind |-> kind, span |-> <<Min(rounds), Max(rounds)>>]
    BY <1>2 DEF DatasetKey
  <2>3. <<Min(rounds), Max(rounds)>> \in Span
    BY <2>1 DEF Span
  <2>4. DatasetKey(kind, rounds) \in Key
    BY <2>2, <2>3 DEF Key
  <2>5. DatasetKey(kind, rounds).span = <<Min(rounds), Max(rounds)>>
    BY <2>2
  <2>6. /\ DatasetKey(kind, rounds).span[2] = Max(rounds)
        /\ DatasetKey(kind, rounds).span # << >>
    BY <2>5
  <2> QED BY <1>2, <2>1, <2>2, <2>4, <2>6
<1> QED BY <1>1, <1>2

(* The key of the eligible rounds stands for all of them. *)
LEMMA TrainingKeyIsGood ==
  ASSUME TypeOK, ArtifactsInOrder
  PROVE  /\ DatasetKey("training", TrainingRounds) \in Key
         /\ DatasetKey("training", TrainingRounds).kind = "training"
         /\ Good(DatasetKey("training", TrainingRounds), TrainingRounds)
<1>1. Ends(TrainingRounds) /\ TrainingRounds \in SUBSET Nat
  BY RoundsType DEF ArtifactsInOrder
<1>2. CASE TrainingRounds = {}
  BY <1>1, <1>2, DatasetKeyType DEF Good, Selected
<1>3. CASE TrainingRounds # {}
  BY <1>1, <1>3, DatasetKeyType DEF Good, Selected
<1> QED BY <1>2, <1>3

LEMMA EvaluationKeyType ==
  ASSUME TypeOK, ArtifactsInOrder
  PROVE  /\ DatasetKey("evaluation", EvaluationRounds) \in Key
         /\ DatasetKey("evaluation", EvaluationRounds).kind = "evaluation"
BY RoundsType, DatasetKeyType DEF ArtifactsInOrder

(* What a key stands for does not change. *)
LEMMA SelectedStays ==
  ASSUME TypeOK, ArtifactsInOrder, Next, NEW key,
         key.span # << >> => key.span[2] \in TrainingRounds
  PROVE  /\ key.span # << >> => key.span[2] \in TrainingRounds'
         /\ Selected(key)' = Selected(key)
<1>1. CASE UNCHANGED artifacts
  BY <1>1 DEF TrainingRounds, Rounds, Selected
<1>2. CASE Records
  <2>1. /\ \A n \in TrainingRounds : n < round
        /\ TrainingRounds' \in {TrainingRounds, TrainingRounds \cup {round}}
        /\ TrainingRounds \subseteq Nat /\ round \in Nat
    BY <1>2, RecordedLast, RoundsType DEF TypeOK
  <2>2. Selected(key)' = {n \in TrainingRounds' : key.span # << >> /\ n <= key.span[2]}
    BY DEF Selected
  <2>3. CASE key.span = << >>
    BY <2>2, <2>3 DEF Selected
  <2>4. CASE key.span # << >>
    <3>1. PICK last \in TrainingRounds : last = key.span[2]
      BY <2>4
    <3>2. /\ last \in TrainingRounds'
          /\ \A n : n \in TrainingRounds' /\ n <= last <=> n \in TrainingRounds /\ n <= last
      BY <2>1
    <3>3. Selected(key) = {n \in TrainingRounds : n <= last}
      BY <2>4, <3>1 DEF Selected
    <3>4. Selected(key)' = {n \in TrainingRounds' : n <= last}
      BY <2>2, <2>4, <3>1
    <3>5. Selected(key)' = Selected(key)
      BY <3>2, <3>3, <3>4
    <3> QED BY <3>1, <3>2, <3>5
  <2> QED BY <2>3, <2>4
<1> QED BY <1>1, <1>2, ArtifactSteps

LEMMA GoodStays ==
  ASSUME TypeOK, ArtifactsInOrder, Next, NEW key, NEW rounds, Good(key, rounds)
  PROVE  Good(key, rounds)'
BY SelectedStays DEF Good

-----------------------------------------------------------------------------
(* The writes. *)

(* The steps that store the next object the cycle has to write. *)
Stores ==
  /\ pc \in {"write", "writeReplay"} /\ todo # << >>
  /\ Store(Head(todo))
  /\ \/ todo' = Tail(todo) /\ pc' = pc
     \/ todo' = << >>

(* The steps that leave the store, and at most drop what is to be written. *)
Drops ==
  /\ UNCHANGED storeVars
  /\ todo' \in {todo, << >>}
  /\ todo' = << >> \/ pc' = pc \/ pc \notin {"write", "writeReplay"}

LEMMA StoreSteps ==
  ASSUME TypeOK, Next
  PROVE  Records \/ Stores \/ Drops \/ Train \/ Reuse \/ DetectReplay
<1>1. CASE Operates \/ StartRuntime \/ StopRuntime \/ StartCycle
  BY <1>1 DEF Operates, SetScenario, StartRuntime, StopRuntime, StartCycle, Drops
<1>2. CASE ConsensusFails \/ ConsensusSucceeds
  BY <1>2 DEF ConsensusFails, ConsensusSucceeds, Drops
<1>3. CASE PersistArtifact \/ PersistFails
  BY <1>3 DEF PersistArtifact, PersistFails, Records, Drops, storeVars
<1>4. CASE Defer \/ FinishLifecycle \/ ReadFails \/ EndCycle
  BY <1>4 DEF Defer, FinishLifecycle, ReadFails, EndCycle, Drops
<1>5. CASE Write \/ WriteFails \/ WriteReplay
  BY <1>5 DEF Write, WriteFails, WriteReplay, Stores, Drops
<1> QED BY <1>1, <1>2, <1>3, <1>4, <1>5, Steps

WriteType ==
  [object : {"manifest", "windows", "weights", "metadata"}, key : Key, rounds : SUBSET Nat]

LEMMA SavedType ==
  ASSUME TypeOK, NEW key
  PROVE  Saved(key) \in [manifest : SUBSET Nat, windows : SUBSET Nat]
<1>1. datasets \in [DOMAIN datasets -> [manifest : SUBSET Nat, windows : SUBSET Nat]]
  BY DEF TypeOK
<1> QED BY <1>1 DEF Saved

LEMMA StoreEffect ==
  ASSUME TypeOK, NEW w \in WriteType, Store(w)
  PROVE  /\ artifacts' = artifacts
         /\ DOMAIN datasets' = DOMAIN datasets
              \cup (IF w.object \in {"manifest", "windows"} THEN {w.key} ELSE {})
         /\ \A key \in DOMAIN datasets : key # w.key => datasets'[key] = datasets[key]
         /\ w.object = "manifest" => datasets'[w.key] =
              [manifest |-> w.rounds, windows |-> Saved(w.key).windows]
         /\ w.object = "windows" => datasets'[w.key] =
              [manifest |-> Saved(w.key).manifest, windows |-> w.rounds]
         /\ w.object \in {"weights", "metadata"} => datasets' = datasets
         /\ weights' = weights \cup (IF w.object = "weights"
              THEN {[dataset |-> w.key, trained |-> w.rounds]} ELSE {})
         /\ models' = models \cup (IF w.object = "metadata"
              THEN {[dataset |-> w.key, trained |-> w.rounds]} ELSE {})
<1>1. Saved(w.key) \in [manifest : SUBSET Nat, windows : SUBSET Nat]
  BY SavedType
<1>2. artifacts' = artifacts
  BY DEF Store
<1>3. /\ weights' = weights \cup (IF w.object = "weights"
           THEN {[dataset |-> w.key, trained |-> w.rounds]} ELSE {})
      /\ models' = models \cup (IF w.object = "metadata"
           THEN {[dataset |-> w.key, trained |-> w.rounds]} ELSE {})
  BY DEF Store
<1>4. CASE w.object \in {"weights", "metadata"}
  BY <1>2, <1>3, <1>4 DEF Store
<1>5. CASE w.object \in {"manifest", "windows"}
  <2>1. datasets' = [key \in DOMAIN datasets \cup {w.key} |->
                       IF key = w.key THEN [Saved(w.key) EXCEPT ![w.object] = w.rounds]
                                      ELSE datasets[key]]
    BY <1>5, Zenon DEF Store
  <2>2. /\ DOMAIN datasets' = DOMAIN datasets \cup {w.key}
        /\ datasets'[w.key] = [Saved(w.key) EXCEPT ![w.object] = w.rounds]
        /\ \A key \in DOMAIN datasets : key # w.key => datasets'[key] = datasets[key]
    BY <2>1
  <2>3. w.object = "manifest" => [Saved(w.key) EXCEPT ![w.object] = w.rounds] =
          [manifest |-> w.rounds, windows |-> Saved(w.key).windows]
    BY <1>1
  <2>4. w.object = "windows" => [Saved(w.key) EXCEPT ![w.object] = w.rounds] =
          [manifest |-> Saved(w.key).manifest, windows |-> w.rounds]
    BY <1>1
  <2> QED BY <1>2, <1>3, <1>5, <2>2, <2>3, <2>4
<1>6. w.object \in {"manifest", "windows", "weights", "metadata"}
  BY DEF WriteType
<1> QED BY <1>4, <1>5, <1>6

(* A dataset that is there changes in the object that is written. *)
LEMMA DatasetEffect ==
  ASSUME TypeOK, NEW w \in WriteType, Store(w), NEW key \in DOMAIN datasets
  PROVE  /\ key \in DOMAIN datasets'
         /\ \/ datasets'[key].manifest = datasets[key].manifest
            \/ w.key = key /\ datasets'[key].manifest = w.rounds
         /\ \/ datasets'[key].windows = datasets[key].windows
            \/ w.key = key /\ datasets'[key].windows = w.rounds
<1>1. w.object \in {"manifest", "windows", "weights", "metadata"}
  BY DEF WriteType
<1>2. DOMAIN datasets' = DOMAIN datasets
        \cup (IF w.object \in {"manifest", "windows"} THEN {w.key} ELSE {})
  BY StoreEffect
<1>3. CASE w.object \in {"weights", "metadata"}
  <2>1. datasets' = datasets
    BY <1>3, StoreEffect
  <2> QED BY <2>1
<1>4. CASE key # w.key
  <2>1. datasets'[key] = datasets[key]
    BY <1>4, StoreEffect
  <2> QED BY <1>2, <2>1
<1>5. CASE key = w.key /\ w.object = "manifest"
  <2>1. datasets'[key] = [manifest |-> w.rounds, windows |-> datasets[key].windows]
    BY <1>5, StoreEffect DEF Saved
  <2> QED BY <1>2, <1>5, <2>1
<1>6. CASE key = w.key /\ w.object = "windows"
  <2>1. datasets'[key] = [manifest |-> datasets[key].manifest, windows |-> w.rounds]
    BY <1>6, StoreEffect DEF Saved
  <2> QED BY <1>2, <1>6, <2>1
<1> QED BY <1>1, <1>3, <1>4, <1>5, <1>6

(* A training object is written again with what it held. *)
LEMMA StoredStays ==
  ASSUME TypeOK, NEW w \in WriteType, Store(w), Good(w.key, w.rounds),
         NEW v \in WriteType, v.key.kind = "training", Good(v.key, v.rounds),
         Stored(v)
  PROVE  Stored(v)'
<1>1. w.key = v.key => w.rounds = v.rounds
  BY DEF Good
<1>2. CASE v.object \in {"weights", "metadata"}
  BY <1>2, StoreEffect DEF Stored
<1>3. CASE v.object = "manifest"
  <2>1. v.key \in DOMAIN datasets /\ datasets[v.key].manifest = v.rounds
    BY <1>3 DEF Stored
  <2>2. v.key \in DOMAIN datasets' /\ datasets'[v.key].manifest = v.rounds
    BY <1>1, <2>1, DatasetEffect
  <2> QED BY <1>3, <2>2 DEF Stored
<1>4. CASE v.object = "windows"
  <2>1. v.key \in DOMAIN datasets /\ datasets[v.key].windows = v.rounds
    BY <1>4 DEF Stored
  <2>2. v.key \in DOMAIN datasets' /\ datasets'[v.key].windows = v.rounds
    BY <1>1, <2>1, DatasetEffect
  <2> QED BY <1>4, <2>2 DEF Stored
<1>5. v.object \in {"manifest", "windows", "weights", "metadata"}
  BY DEF WriteType
<1> QED BY <1>2, <1>3, <1>4, <1>5

LEMMA StoresItself ==
  ASSUME TypeOK, NEW w \in WriteType, Store(w)
  PROVE  Stored(w)'
<1>1. w.object = "manifest" => w.key \in DOMAIN datasets' /\ datasets'[w.key].manifest = w.rounds
  <2> SUFFICES ASSUME w.object = "manifest"
               PROVE  w.key \in DOMAIN datasets' /\ datasets'[w.key].manifest = w.rounds
    OBVIOUS
  <2>1. datasets'[w.key] = [manifest |-> w.rounds, windows |-> Saved(w.key).windows]
    BY StoreEffect
  <2>2. w.key \in DOMAIN datasets'
    BY StoreEffect
  <2> QED BY <2>1, <2>2
<1>2. w.object = "windows" => w.key \in DOMAIN datasets' /\ datasets'[w.key].windows = w.rounds
  <2> SUFFICES ASSUME w.object = "windows"
               PROVE  w.key \in DOMAIN datasets' /\ datasets'[w.key].windows = w.rounds
    OBVIOUS
  <2>1. datasets'[w.key] = [manifest |-> Saved(w.key).manifest, windows |-> w.rounds]
    BY StoreEffect
  <2>2. w.key \in DOMAIN datasets'
    BY StoreEffect
  <2> QED BY <2>1, <2>2
<1>3. w.object = "weights" => [dataset |-> w.key, trained |-> w.rounds] \in weights'
  BY StoreEffect
<1> QED BY <1>1, <1>2, <1>3 DEF Stored

LEMMA SavedTypeNext ==
  ASSUME TypeOK', NEW key
  PROVE  Saved(key)' \in [manifest : SUBSET Nat, windows : SUBSET Nat]
<1>1. datasets' \in [DOMAIN datasets' -> [manifest : SUBSET Nat, windows : SUBSET Nat]]
  BY DEF TypeOK
<1> QED BY <1>1 DEF Saved

LEMMA SavedEffect ==
  ASSUME TypeOK, NEW w \in WriteType, Store(w), NEW key
  PROVE  /\ \/ Saved(key)'.manifest = Saved(key).manifest
            \/ w.key = key /\ Saved(key)'.manifest = w.rounds
         /\ \/ Saved(key)'.windows = Saved(key).windows
            \/ w.key = key /\ Saved(key)'.windows = w.rounds
<1>1. CASE key \in DOMAIN datasets
  <2>1. key \in DOMAIN datasets'
    BY <1>1, DatasetEffect
  <2>2. Saved(key) = datasets[key] /\ Saved(key)' = datasets'[key]
    BY <1>1, <2>1 DEF Saved
  <2> QED BY <1>1, <2>2, DatasetEffect
<1>2. CASE key \notin DOMAIN datasets /\ key \notin DOMAIN datasets'
  BY <1>2 DEF Saved
<1>3. CASE key \notin DOMAIN datasets /\ key \in DOMAIN datasets'
  <2>1. key = w.key /\ w.object \in {"manifest", "windows"}
    BY <1>3, StoreEffect
  <2>2. Saved(key)' = datasets'[w.key]
    BY <1>3, <2>1 DEF Saved
  <2>3. CASE w.object = "manifest"
    <3>1. Saved(key)' = [manifest |-> w.rounds, windows |-> Saved(key).windows]
      BY <2>1, <2>2, <2>3, StoreEffect
    <3> QED BY <2>1, <3>1
  <2>4. CASE w.object = "windows"
    <3>1. Saved(key)' = [manifest |-> Saved(key).manifest, windows |-> w.rounds]
      BY <2>1, <2>2, <2>4, StoreEffect
    <3> QED BY <2>1, <3>1
  <2> QED BY <2>1, <2>3, <2>4
<1> QED BY <1>1, <1>2, <1>3

(* What is first to be written. *)
LEMMA FirstWrite ==
  ASSUME TypeOK, WritesAreGood, MetadataComesLast, Stores, NEW w, w = Head(todo)
  PROVE  /\ w \in WriteType /\ Store(w) /\ Good(w.key, w.rounds)
         /\ w.object = "metadata" => /\ w.key.kind = "training"
                                     /\ \A v \in Announced(w) : Stored(v)
<1>1. todo \in Seq(WriteType)
  BY DEF TypeOK, WriteType
<1>2. w = todo[1] /\ 1 \in 1..Len(todo) /\ w \in WriteType
  BY <1>1 DEF Stores
<1>3. \A i \in 1..(1 - 1) : FALSE
  OBVIOUS
<1> QED BY <1>2, <1>3 DEF Stores, WritesAreGood, MetadataComesLast

LEMMA StoreStep ==
  ASSUME TypeOK, TypeOK', ArtifactsInOrder, Next,
         DatasetsAreSelected, ModelsAreSelected, ModelIsBacked,
         WritesAreGood, MetadataComesLast
  PROVE  DatasetsAreSelected' /\ ModelsAreSelected' /\ ModelIsBacked'
<1>1. ASSUME UNCHANGED <<datasets, weights, models>>
      PROVE  DatasetsAreSelected' /\ ModelsAreSelected' /\ ModelIsBacked'
  <2>1. DatasetsAreSelected'
    BY <1>1, SelectedStays DEF DatasetsAreSelected
  <2>2. ModelsAreSelected'
    BY <1>1, GoodStays DEF ModelsAreSelected
  <2>3. ModelIsBacked'
    <3>1. ASSUME NEW key PROVE Saved(key)' = Saved(key)
      BY <1>1 DEF Saved
    <3> QED BY <1>1, <3>1, Zenon DEF ModelIsBacked
  <2> QED BY <2>1, <2>2, <2>3
<1>2. CASE Records \/ Drops \/ Train \/ Reuse \/ DetectReplay
  BY <1>1, <1>2 DEF Records, Drops, Train, Reuse, DetectReplay, storeVars
<1>3. CASE Stores
  <2>1. PICK w : w = Head(todo)
    OBVIOUS
  <2>2. /\ w \in WriteType /\ Store(w) /\ Good(w.key, w.rounds)
        /\ w.object = "metadata" => /\ w.key.kind = "training"
                                    /\ \A v \in Announced(w) : Stored(v)
    BY <1>3, <2>1, FirstWrite
  <2>3. artifacts' = artifacts
    BY <2>2, StoreEffect
  <2>4. \A key : Selected(key)' = Selected(key) /\ TrainingRounds' = TrainingRounds
    BY <2>3 DEF Selected, TrainingRounds, Rounds
  <2>5. DatasetsAreSelected'
    <3> SUFFICES ASSUME NEW key \in DOMAIN datasets', key.kind = "training"
                 PROVE  /\ key.span # << >> => key.span[2] \in TrainingRounds
                        /\ datasets'[key].windows \subseteq Selected(key)
      BY <2>4 DEF DatasetsAreSelected
    <3>1. CASE key \in DOMAIN datasets
      <4>1. \/ datasets'[key].windows = datasets[key].windows
            \/ w.key = key /\ datasets'[key].windows = w.rounds
        BY <2>2, <3>1, DatasetEffect
      <4> QED BY <2>2, <3>1, <4>1 DEF DatasetsAreSelected, Good
    <3>2. CASE key \notin DOMAIN datasets
      <4>1. key = w.key /\ Saved(key)' = datasets'[key] /\ Saved(key).windows = {}
        BY <2>2, <3>2, StoreEffect DEF Saved
      <4>2. datasets'[key].windows \in {{}, w.rounds}
        BY <2>2, <4>1, SavedEffect
      <4> QED BY <2>2, <4>1, <4>2 DEF Good
    <3> QED BY <3>1, <3>2
  <2>6. ASSUME NEW model \in models'
        PROVE  \/ model \in models
               \/ /\ w.object = "metadata" /\ model = [dataset |-> w.key, trained |-> w.rounds]
                  /\ UNCHANGED <<datasets, weights>>
    BY <2>2, StoreEffect
  <2>7. ModelsAreSelected'
    <3> SUFFICES ASSUME NEW model \in models'
                 PROVE  model.dataset.kind = "training" /\ Good(model.dataset, model.trained)'
      BY DEF ModelsAreSelected
    <3>1. Good(model.dataset, model.trained)' <=> Good(model.dataset, model.trained)
      BY <2>4 DEF Good
    <3> QED BY <2>2, <2>6, <3>1 DEF ModelsAreSelected
  <2>8. ModelIsBacked'
    <3> SUFFICES ASSUME NEW model \in models'
                 PROVE  /\ model \in weights'
                        /\ Saved(model.dataset)' =
                             [manifest |-> model.trained, windows |-> model.trained]
      BY Zenon DEF ModelIsBacked
    <3>1. CASE model \in models
      <4>1. /\ model \in weights
            /\ Saved(model.dataset) = [manifest |-> model.trained, windows |-> model.trained]
            /\ model.dataset.kind = "training" /\ Good(model.dataset, model.trained)
        BY <3>1 DEF ModelIsBacked, ModelsAreSelected
      <4>2. w.key = model.dataset => w.rounds = model.trained
        BY <2>2, <4>1 DEF Good
      <4>3. /\ Saved(model.dataset)'.manifest = model.trained
            /\ Saved(model.dataset)'.windows = model.trained
        BY <2>2, <4>1, <4>2, SavedEffect
      <4>4. Saved(model.dataset)' \in [manifest : SUBSET Nat, windows : SUBSET Nat]
        BY SavedTypeNext
      <4>5. model \in weights'
        BY <2>2, <4>1, StoreEffect
      <4> QED BY <4>3, <4>4, <4>5
    <3>2. CASE /\ w.object = "metadata" /\ model = [dataset |-> w.key, trained |-> w.rounds]
               /\ UNCHANGED <<datasets, weights>>
      <4> DEFINE v(o) == [object |-> o, key |-> w.key, rounds |-> w.rounds]
      <4>1. Stored(v("manifest")) /\ Stored(v("windows")) /\ Stored(v("weights"))
        BY <2>2, <3>2 DEF Announced
      <4>2. /\ w.key \in DOMAIN datasets /\ datasets[w.key].manifest = w.rounds
            /\ datasets[w.key].windows = w.rounds
            /\ model \in weights
        BY <3>2, <4>1 DEF Stored
      <4>3. Saved(model.dataset)' = datasets[w.key]
        BY <3>2, <4>2 DEF Saved
      <4>4. Saved(model.dataset)' \in [manifest : SUBSET Nat, windows : SUBSET Nat]
        BY SavedTypeNext
      <4> QED BY <3>2, <4>2, <4>3, <4>4
    <3> QED BY <2>6, <3>1, <3>2
  <2> QED BY <2>5, <2>7, <2>8
<1> QED BY <1>2, <1>3, StoreSteps

(* The objects a cycle sets out to write. *)
LEMMA DatasetWritesAre ==
  ASSUME NEW key, NEW rounds
  PROVE  /\ Len(DatasetWrites(key, rounds)) = 2
         /\ DatasetWrites(key, rounds)[1] = [object |-> "manifest", key |-> key, rounds |-> rounds]
         /\ DatasetWrites(key, rounds)[2] = [object |-> "windows", key |-> key, rounds |-> rounds]
BY DEF DatasetWrites

LEMMA FourWrites ==
  ASSUME NEW S, NEW s \in Seq(S), NEW t \in Seq(S), Len(s) = 2, Len(t) = 2
  PROVE  /\ s \o t \in Seq(S) /\ Len(s \o t) = 4
         /\ (s \o t)[1] = s[1] /\ (s \o t)[2] = s[2]
         /\ (s \o t)[3] = t[1] /\ (s \o t)[4] = t[2]
<1>1. /\ s \o t \in Seq(S) /\ Len(s \o t) = Len(s) + Len(t)
      /\ \A i \in 1..(Len(s) + Len(t)) :
           (s \o t)[i] = IF i <= Len(s) THEN s[i] ELSE t[i - Len(s)]
  BY ConcatProperties, Zenon
<1> DEFINE u == s \o t
<1>2. \A i \in 1..4 : u[i] = IF i <= 2 THEN s[i] ELSE t[i - 2]
  BY <1>1
<1> HIDE DEF u
<1>3. u[1] = s[1] /\ u[2] = s[2] /\ u[3] = t[1] /\ u[4] = t[2]
  BY <1>2
<1> QED BY <1>1, <1>3 DEF u

LEMMA DatasetWritesType ==
  ASSUME NEW key \in Key, NEW rounds \in SUBSET Nat
  PROVE  DatasetWrites(key, rounds) \in Seq(WriteType)
<1>1. /\ [object |-> "manifest", key |-> key, rounds |-> rounds] \in WriteType
      /\ [object |-> "windows", key |-> key, rounds |-> rounds] \in WriteType
  BY DEF WriteType
<1> HIDE DEF WriteType
<1> QED BY <1>1 DEF DatasetWrites

LEMMA ModelWritesType ==
  ASSUME NEW key \in Key, NEW rounds \in SUBSET Nat
  PROVE  ModelWrites(key, rounds) \in Seq(WriteType) /\ Len(ModelWrites(key, rounds)) = 2
<1>1. /\ [object |-> "weights", key |-> key, rounds |-> rounds] \in WriteType
      /\ [object |-> "metadata", key |-> key, rounds |-> rounds] \in WriteType
  BY DEF WriteType
<1> QED BY <1>1 DEF ModelWrites

LEMMA TrainWrites ==
  ASSUME TypeOK, ArtifactsInOrder, Train
  PROVE  \E key \in Key :
           /\ key.kind = "training" /\ Good(key, TrainingRounds)
           /\ todo' \in Seq(WriteType) /\ Len(todo') = 4
           /\ todo'[1] = [object |-> "manifest", key |-> key, rounds |-> TrainingRounds]
           /\ todo'[2] = [object |-> "windows", key |-> key, rounds |-> TrainingRounds]
           /\ todo'[3] = [object |-> "weights", key |-> key, rounds |-> TrainingRounds]
           /\ todo'[4] = [object |-> "metadata", key |-> key, rounds |-> TrainingRounds]
<1> DEFINE key == DatasetKey("training", TrainingRounds)
           s == DatasetWrites(key, TrainingRounds)
           t == ModelWrites(key, TrainingRounds)
<1>1. key \in Key /\ key.kind = "training" /\ Good(key, TrainingRounds)
  BY TrainingKeyIsGood
<1>2. TrainingRounds \in SUBSET Nat
  BY RoundsType
<1>3. todo' = s \o t
  BY DEF Train
<1>4. s \in Seq(WriteType) /\ t \in Seq(WriteType) /\ Len(s) = 2 /\ Len(t) = 2
  BY <1>1, <1>2, DatasetWritesType, ModelWritesType, DatasetWritesAre
<1>5. /\ s[1] = [object |-> "manifest", key |-> key, rounds |-> TrainingRounds]
      /\ s[2] = [object |-> "windows", key |-> key, rounds |-> TrainingRounds]
      /\ t[1] = [object |-> "weights", key |-> key, rounds |-> TrainingRounds]
      /\ t[2] = [object |-> "metadata", key |-> key, rounds |-> TrainingRounds]
  BY DEF DatasetWrites, ModelWrites
<1> HIDE DEF key, s, t
<1>6. /\ todo' \in Seq(WriteType) /\ Len(todo') = 4
      /\ todo'[1] = s[1] /\ todo'[2] = s[2] /\ todo'[3] = t[1] /\ todo'[4] = t[2]
  BY <1>3, <1>4, FourWrites
<1>7. key \in Key
  BY <1>1
<1> QED BY <1>1, <1>5, <1>6, <1>7, Zenon

LEMMA ReuseWrites ==
  ASSUME TypeOK, ArtifactsInOrder, Reuse
  PROVE  /\ todo' \in Seq(WriteType) /\ Len(todo') = 4
         /\ \A i \in 1..4 : todo'[i].object # "metadata" /\ Good(todo'[i].key, todo'[i].rounds)
<1> DEFINE key == DatasetKey("training", TrainingRounds)
           s == DatasetWrites(key, TrainingRounds)
           key2 == DatasetKey("evaluation", EvaluationRounds)
           t == DatasetWrites(key2, EvaluationRounds)
<1>1. /\ key \in Key /\ Good(key, TrainingRounds)
      /\ key2 \in Key /\ key2.kind = "evaluation"
  BY TrainingKeyIsGood, EvaluationKeyType
<1>2. TrainingRounds \in SUBSET Nat /\ EvaluationRounds \in SUBSET Nat
  BY RoundsType
<1>3. todo' = s \o t
  BY DEF Reuse
<1>4. s \in Seq(WriteType) /\ t \in Seq(WriteType) /\ Len(s) = 2 /\ Len(t) = 2
  BY <1>1, <1>2, DatasetWritesType, DatasetWritesAre
<1>5. /\ s[1] = [object |-> "manifest", key |-> key, rounds |-> TrainingRounds]
      /\ s[2] = [object |-> "windows", key |-> key, rounds |-> TrainingRounds]
      /\ t[1] = [object |-> "manifest", key |-> key2, rounds |-> EvaluationRounds]
      /\ t[2] = [object |-> "windows", key |-> key2, rounds |-> EvaluationRounds]
  BY DEF DatasetWrites
<1> HIDE DEF key, s, t, key2
<1>6. /\ todo' \in Seq(WriteType) /\ Len(todo') = 4
      /\ todo'[1] = s[1] /\ todo'[2] = s[2] /\ todo'[3] = t[1] /\ todo'[4] = t[2]
  BY <1>3, <1>4, FourWrites
<1>7. Good(key2, EvaluationRounds)
  BY <1>1 DEF Good
<1>8. ASSUME NEW i \in 1..4
      PROVE  todo'[i].object # "metadata" /\ Good(todo'[i].key, todo'[i].rounds)
  BY <1>1, <1>5, <1>6, <1>7
<1> QED BY <1>6, <1>8

LEMMA ReplayWrites ==
  ASSUME TypeOK, OnlyValidRoundsWrite, DetectReplay
  PROVE  /\ todo' \in Seq(WriteType) /\ Len(todo') = 2
         /\ \A i \in 1..2 : todo'[i].object # "metadata" /\ Good(todo'[i].key, todo'[i].rounds)
<1>1. ReplayKey \in Key /\ ReplayKey.kind = "replay"
  <2>1. history # << >>
    BY DEF DetectReplay, OnlyValidRoundsWrite, BlockedRound, Writing
  <2>2. history[Len(history)].behaviour \in Nat
    BY <2>1, Positions
  <2>3. round \in Nat /\ override.mode \in Mode
    BY DEF TypeOK
  <2>4. <<round, override.mode, history[Len(history)].behaviour>> \in Nat \X Mode \X Nat
    BY <2>2, <2>3
  <2> QED BY <2>4 DEF ReplayKey, Key, Span
<1>2. {round} \in SUBSET Nat
  BY DEF TypeOK
<1>3. todo' = DatasetWrites(ReplayKey, {round})
  BY DEF DetectReplay
<1>4. Good(ReplayKey, {round})
  BY <1>1 DEF Good
<1>5. todo' \in Seq(WriteType) /\ Len(todo') = 2
  BY <1>1, <1>2, <1>3, DatasetWritesType, DatasetWritesAre
<1>6. ASSUME NEW i \in 1..2
      PROVE  todo'[i].object # "metadata" /\ Good(todo'[i].key, todo'[i].rounds)
  <2>1. todo'[1] = [object |-> "manifest", key |-> ReplayKey, rounds |-> {round}]
    BY <1>3, DatasetWritesAre
  <2>2. todo'[2] = [object |-> "windows", key |-> ReplayKey, rounds |-> {round}]
    BY <1>3, DatasetWritesAre
  <2> QED BY <1>4, <2>1, <2>2
<1> QED BY <1>5, <1>6

LEMMA TodoStep ==
  ASSUME TypeOK, ArtifactsInOrder, OnlyValidRoundsWrite, Next,
         WritesAreGood, MetadataComesLast
  PROVE  WritesAreGood' /\ MetadataComesLast'
<1>1. CASE todo' = << >>
  BY <1>1 DEF WritesAreGood, MetadataComesLast
<1>2. CASE Records
  <2>1. todo' = << >>
    BY <1>2 DEF Records, WritesAreGood
  <2> QED BY <1>1, <2>1
<1>3. CASE Drops /\ todo' # << >>
  <2>1. todo' = todo /\ pc' = pc /\ UNCHANGED storeVars
    BY <1>3 DEF Drops, WritesAreGood
  <2>2. WritesAreGood'
    BY <2>1, GoodStays DEF WritesAreGood
  <2>3. \A v : Stored(v)' <=> Stored(v)
    BY <2>1 DEF Stored, storeVars
  <2>4. MetadataComesLast'
    BY <2>1, <2>3 DEF MetadataComesLast, Announced
  <2> QED BY <2>2, <2>4
<1>4. CASE Stores /\ todo' # << >>
  <2>1. PICK w : w = Head(todo)
    OBVIOUS
  <2>2. w \in WriteType /\ Store(w) /\ Good(w.key, w.rounds)
    BY <1>4, <2>1, FirstWrite
  <2>3. todo \in Seq(WriteType)
    BY DEF TypeOK, WriteType
  <2>4. /\ Len(todo) \in Nat /\ Len(todo) >= 1 /\ todo[1] = w /\ pc' = pc
        /\ Len(todo') = Len(todo) - 1
        /\ \A i \in 1..Len(todo') : todo'[i] = todo[i + 1] /\ todo[i + 1] \in WriteType
    BY <1>4, <2>1, <2>3, HeadTailProperties DEF Stores
  <2>5. WritesAreGood'
    <3>1. pc' \in {"write", "writeReplay"}
      BY <1>4, <2>4 DEF Stores
    <3>2. ASSUME NEW i \in 1..Len(todo')
          PROVE  /\ Good(todo[i].key, todo[i].rounds)'
                 /\ todo'[i].object = "metadata" => todo'[i].key.kind = "training"
      <4>1. PICK v : v = todo[i + 1] /\ v = todo'[i]
        BY <2>4
      <4>2. i + 1 \in 1..Len(todo)
        BY <2>4
      <4>3. Good(v.key, v.rounds) /\ (v.object = "metadata" => v.key.kind = "training")
        BY <4>1, <4>2 DEF WritesAreGood
      <4>4. Good(v.key, v.rounds)'
        BY <4>3, GoodStays
      <4> QED BY <4>1, <4>3, <4>4 DEF Good, Selected
    <3> QED BY <3>1, <3>2 DEF WritesAreGood
  <2>6. ASSUME NEW i \in 1..Len(todo'), todo'[i].object = "metadata",
               NEW v \in Announced(todo'[i])
        PROVE  Stored(v)' \/ \E j \in 1..(i - 1) : todo'[j] = v
    <3>1. /\ i + 1 \in 1..Len(todo) /\ todo'[i] = todo[i + 1]
          /\ todo[i + 1] \in WriteType
      BY <2>4
    <3>2. /\ Good(todo[i + 1].key, todo[i + 1].rounds)
          /\ todo[i + 1].key.kind = "training"
      BY <2>6, <3>1 DEF WritesAreGood
    <3>3. v \in Announced(todo[i + 1])
      BY <2>6, <3>1 DEF Announced
    <3>4. v \in WriteType /\ v.key.kind = "training" /\ Good(v.key, v.rounds)
      BY <3>1, <3>2, <3>3 DEF Announced, WriteType
    <3>5. CASE Stored(v)
      BY <2>2, <3>4, <3>5, StoredStays
    <3>6. CASE \E j \in 1..i : todo[j] = v
      <4>1. PICK j \in 1..i : todo[j] = v
        BY <3>6
      <4>2. CASE j = 1
        BY <2>2, <2>4, <4>1, <4>2, StoresItself
      <4>3. CASE j # 1
        <5>1. j - 1 \in 1..(i - 1) /\ j - 1 \in 1..Len(todo')
          BY <4>1, <4>3, <2>4
        <5>2. todo'[j - 1] = v
          BY <2>4, <4>1, <5>1
        <5> QED BY <5>1, <5>2
      <4> QED BY <4>2, <4>3
    <3>7. Stored(v) \/ \E j \in 1..((i + 1) - 1) : todo[j] = v
      BY <2>6, <3>1, <3>3 DEF MetadataComesLast
    <3> QED BY <3>5, <3>6, <3>7
  <2>7. MetadataComesLast'
    BY <2>6 DEF MetadataComesLast, Announced
  <2> QED BY <2>5, <2>7
<1>5. CASE Train
  <2>1. PICK key \in Key :
           /\ key.kind = "training" /\ Good(key, TrainingRounds)
           /\ todo' \in Seq(WriteType) /\ Len(todo') = 4
           /\ todo'[1] = [object |-> "manifest", key |-> key, rounds |-> TrainingRounds]
           /\ todo'[2] = [object |-> "windows", key |-> key, rounds |-> TrainingRounds]
           /\ todo'[3] = [object |-> "weights", key |-> key, rounds |-> TrainingRounds]
           /\ todo'[4] = [object |-> "metadata", key |-> key, rounds |-> TrainingRounds]
    BY <1>5, TrainWrites
  <2>2. pc' = "write" /\ artifacts' = artifacts
    BY <1>5 DEF Train, storeVars
  <2>3. PICK rounds : rounds = TrainingRounds
    OBVIOUS
  <2>4. Good(key, rounds)'
    BY <2>1, <2>3, GoodStays
  <2>5. ASSUME NEW i \in 1..4
        PROVE  /\ todo'[i].key = key /\ todo'[i].rounds = rounds
               /\ todo'[i].object = "metadata" => i = 4
    BY <2>1, <2>3
  <2>6. WritesAreGood'
    <3>1. ASSUME NEW i \in 1..4
          PROVE  Good(todo[i].key, todo[i].rounds)'
      BY <2>4, <2>5 DEF Good, Selected
    <3> QED BY <2>1, <2>2, <2>5, <3>1 DEF WritesAreGood
  <2>7. ASSUME NEW v \in Announced(todo'[4])
        PROVE  \E j \in 1..3 : todo'[j] = v
    <3>1. v \in {todo'[1], todo'[2], todo'[3]}
      BY <2>1, <2>5 DEF Announced
    <3> QED BY <3>1
  <2>8. MetadataComesLast'
    BY <2>1, <2>5, <2>7 DEF MetadataComesLast, Announced
  <2> QED BY <2>6, <2>8
<1>6. ASSUME NEW n \in Nat, todo' \in Seq(WriteType), Len(todo') = n,
             artifacts' = artifacts, pc' \in {"write", "writeReplay"},
             \A i \in 1..n : todo'[i].object # "metadata" /\ Good(todo'[i].key, todo'[i].rounds)
      PROVE  WritesAreGood' /\ MetadataComesLast'
  <2>1. ASSUME NEW i \in 1..n
        PROVE  Good(todo[i].key, todo[i].rounds)'
    <3>1. PICK v : v = todo'[i]
      OBVIOUS
    <3>2. Good(v.key, v.rounds)
      BY <1>6, <3>1
    <3>3. Good(v.key, v.rounds)'
      BY <3>2, GoodStays
    <3> QED BY <3>1, <3>3 DEF Good, Selected
  <2> QED BY <1>6, <2>1 DEF WritesAreGood, MetadataComesLast
<1>7. CASE Reuse
  BY <1>6, <1>7, ReuseWrites DEF Reuse, storeVars
<1>8. CASE DetectReplay
  BY <1>6, <1>8, ReplayWrites DEF DetectReplay, storeVars
<1> QED BY <1>1, <1>2, <1>3, <1>4, <1>5, <1>7, <1>8, StoreSteps

-----------------------------------------------------------------------------
(* Types. *)

ControlType ==
  /\ config \in [scenario : Stage, start : Nat]
  /\ pc \in {"down", "idle", "consensus", "persist", "lifecycle", "write",
            "replay", "writeReplay"}
  /\ cycle \in Nat /\ round \in Nat
  /\ stage \in Stage /\ applied \in Seq(Stage)
  /\ override \in [mode : Mode, source : Nat] /\ frozen \subseteq Nat

LEMMA ControlStep ==
  ASSUME TypeOK, ProjectionsInOrder, Next
  PROVE  ControlType'
<1> ControlType
  BY DEF TypeOK, ControlType
<1> DEFINE S == Stage
           O == [mode : Mode, source : Nat]
           C == [scenario : Stage, start : Nat]
<1>1. CASE Operates
  <2>1. PICK scenario \in Scenario, start \in 1..MaxStart : SetScenario(scenario, start)
    BY <1>1 DEF Operates
  <2>2. scenario \in Stage /\ start \in Nat
    BY PipelineAssumption DEF Stage
  <2>3. /\ config' = [scenario |-> scenario, start |-> start]
        /\ UNCHANGED <<pc, cycle, round, stage, applied, override, frozen>>
    BY <2>1 DEF SetScenario, serviceVars
  <2> QED BY <2>2, <2>3 DEF ControlType
<1>2. CASE StartRuntime
  <2>1. /\ pc' = "idle" /\ cycle' = 0 /\ override' = NoOverride /\ frozen' = {}
        /\ UNCHANGED <<config, round, stage, applied>>
    BY <1>2 DEF StartRuntime
  <2>2. NoOverride \in O
    BY DEF NoOverride, Mode
  <2> QED BY <2>1, <2>2 DEF ControlType
<1>3. CASE StartCycle
  <2>1. /\ pc' = "consensus" /\ cycle' = cycle + 1 /\ round' = round + 1
        /\ stage' = ActiveScenario(config, cycle + 1) /\ applied' = Append(applied, stage')
        /\ UNCHANGED <<config, override, frozen>>
    BY <1>3 DEF StartCycle, serviceVars
  <2>2. stage' \in Stage
    <3>1. config.scenario \in Stage
      BY DEF ControlType
    <3> QED BY <2>1, <3>1 DEF ActiveScenario, Stage
  <2>3. applied' \in Seq(Stage)
    BY <2>1, <2>2, AppendProperties DEF ControlType
  <2> QED BY <2>1, <2>2, <2>3 DEF ControlType
<1>4. CASE ConsensusFails \/ ConsensusSucceeds
  <2>1. /\ pc' \in {"idle", "persist"} /\ override' = Configured(stage)
        /\ frozen' \in {{}, {Projection.shown}}
        /\ UNCHANGED <<config, cycle, round, stage, applied>>
    BY <1>4 DEF ConsensusFails, ConsensusSucceeds
  <2>2. Configured(stage) \in O /\ Projection.shown \in Nat
    BY ConfiguredType, ProjectionType
  <2> QED BY <2>1, <2>2 DEF ControlType
<1>5. CASE \/ StopRuntime \/ PersistArtifact \/ PersistFails
           \/ Defer \/ Train \/ Reuse \/ Write \/ WriteFails \/ FinishLifecycle
           \/ DetectReplay \/ WriteReplay \/ ReadFails \/ EndCycle
  <2>1. /\ pc' \in {"down", "idle", "lifecycle", "write", "replay", "writeReplay"}
        /\ UNCHANGED <<config, cycle, round, stage, applied, override, frozen>>
    BY <1>5 DEF StopRuntime, PersistArtifact, PersistFails, Defer, Train, Reuse, Write,
       WriteFails, FinishLifecycle, DetectReplay, WriteReplay, ReadFails, EndCycle,
       serviceVars
  <2> QED BY <2>1 DEF ControlType
<1> QED BY <1>1, <1>2, <1>3, <1>4, <1>5, Steps

LEMMA HistoryType ==
  ASSUME TypeOK, ProjectionsInOrder, Next
  PROVE  history' \in Seq([round : Nat, mode : Mode, shown : Nat, behaviour : Nat])
<1>1. history \in Seq([round : Nat, mode : Mode, shown : Nat, behaviour : Nat])
  BY DEF TypeOK
<1>2. CASE Goes
  <2>1. history' \in {history, << >>}
    BY <1>2, GoesOn
  <2> QED BY <1>1, <2>1, EmptySeq, Zenon
<1>3. CASE StartCycle
  BY <1>1, <1>3 DEF StartCycle, serviceVars
<1>4. CASE ConsensusSucceeds
  BY <1>4, Appended
<1> QED BY <1>2, <1>3, <1>4, Steps DEF Goes

LEMMA ArtifactType ==
  ASSUME TypeOK, Next
  PROVE  artifacts' \subseteq [round : Nat, label : Stage, eligible : BOOLEAN]
<1>1. artifacts \subseteq [round : Nat, label : Stage, eligible : BOOLEAN]
  BY DEF TypeOK
<1>2. Record \in [round : Nat, label : Stage, eligible : BOOLEAN]
  BY DEF TypeOK, Record
<1> QED BY <1>1, <1>2, ArtifactSteps DEF Records

LEMMA StoreType ==
  ASSUME TypeOK, WritesAreGood, MetadataComesLast, Next
  PROVE  /\ DOMAIN datasets' \subseteq Key
         /\ datasets' \in [DOMAIN datasets' -> [manifest : SUBSET Nat, windows : SUBSET Nat]]
         /\ weights' \subseteq [dataset : Key, trained : SUBSET Nat]
         /\ models' \subseteq [dataset : Key, trained : SUBSET Nat]
<1> DEFINE D == [manifest : SUBSET Nat, windows : SUBSET Nat]
           M == [dataset : Key, trained : SUBSET Nat]
<1>1. /\ DOMAIN datasets \subseteq Key /\ datasets \in [DOMAIN datasets -> D]
      /\ weights \subseteq M /\ models \subseteq M
  BY DEF TypeOK
<1>2. CASE UNCHANGED <<datasets, weights, models>>
  BY <1>1, <1>2
<1>3. CASE Stores
  <2>1. PICK w : w = Head(todo)
    OBVIOUS
  <2>2. w \in WriteType /\ Store(w)
    BY <1>3, <2>1, FirstWrite
  <2>3. w.key \in Key /\ w.rounds \in SUBSET Nat /\ Saved(w.key) \in D
    BY <2>2, SavedType DEF WriteType
  <2>4. [dataset |-> w.key, trained |-> w.rounds] \in M
    BY <2>3
  <2>5. weights' \subseteq M /\ models' \subseteq M /\ DOMAIN datasets' \subseteq Key
    <3> HIDE DEF M
    <3>1. weights' \subseteq weights \cup {[dataset |-> w.key, trained |-> w.rounds]}
      BY <2>2, StoreEffect
    <3>2. models' \subseteq models \cup {[dataset |-> w.key, trained |-> w.rounds]}
      BY <2>2, StoreEffect
    <3>3. DOMAIN datasets' \subseteq DOMAIN datasets \cup {w.key}
      BY <2>2, StoreEffect
    <3> QED BY <1>1, <2>3, <2>4, <3>1, <3>2, <3>3
  <2>6. /\ [manifest |-> w.rounds, windows |-> Saved(w.key).windows] \in D
        /\ [manifest |-> Saved(w.key).manifest, windows |-> w.rounds] \in D
    BY <2>3
  <2> HIDE DEF D
  <2>7. ASSUME NEW key \in DOMAIN datasets'
        PROVE  datasets'[key] \in D
    <3>1. CASE w.object \in {"weights", "metadata"}
      <4>1. datasets' = datasets
        BY <2>2, <3>1, StoreEffect
      <4> QED BY <1>1, <2>7, <4>1
    <3>2. CASE w.object \in {"manifest", "windows"} /\ key = w.key
      BY <2>2, <2>6, <3>2, StoreEffect
    <3>3. CASE key # w.key
      BY <1>1, <2>2, <2>7, <3>3, StoreEffect
    <3> QED BY <2>2, <3>1, <3>2, <3>3 DEF WriteType
  <2>8. datasets' = [key \in DOMAIN datasets' |-> datasets'[key]]
    BY <1>1, <2>2 DEF Store
  <2> QED BY <2>5, <2>7, <2>8 DEF D
<1>4. CASE Records \/ Drops \/ Train \/ Reuse \/ DetectReplay
  BY <1>2, <1>4 DEF Records, Drops, Train, Reuse, DetectReplay, storeVars
<1> QED BY <1>3, <1>4, StoreSteps

LEMMA TodoType ==
  ASSUME TypeOK, ArtifactsInOrder, OnlyValidRoundsWrite, Next
  PROVE  todo' \in Seq(WriteType)
<1>1. todo \in Seq(WriteType)
  BY DEF TypeOK, WriteType
<1>2. CASE todo' \in {todo, << >>}
  BY <1>1, <1>2, EmptySeq, Zenon
<1>3. CASE Stores /\ todo' # << >>
  BY <1>1, <1>3, HeadTailProperties DEF Stores
<1>4. CASE Train
  BY <1>4, TrainWrites
<1>5. CASE Reuse
  BY <1>5, ReuseWrites
<1>6. CASE DetectReplay
  BY <1>6, ReplayWrites
<1>7. CASE Records \/ Drops
  BY <1>2, <1>7 DEF Records, Drops
<1> QED BY <1>2, <1>3, <1>4, <1>5, <1>6, <1>7, StoreSteps

LEMMA TypeStep ==
  ASSUME Inductive, Next
  PROVE  TypeOK'
<1>1. /\ TypeOK /\ ProjectionsInOrder /\ WritesAreGood /\ MetadataComesLast
      /\ ArtifactsInOrder /\ OnlyValidRoundsWrite
  BY DEF Inductive
<1>2. lost' \in Nat
  BY <1>1, Steps DEF TypeOK
<1> QED BY <1>1, <1>2, ControlStep, HistoryType, ArtifactType, StoreType, TodoType
        DEF TypeOK, ControlType, WriteType

-----------------------------------------------------------------------------
(* Results. *)

LEMMA Initially ==
  ASSUME Init
  PROVE  Inductive
<1> USE DEF Init
<1>1. TypeOK
  BY PipelineAssumption DEF TypeOK, Stage, Mode, NoOverride
<1>2. CycleFollowsScenario /\ ProjectionsInOrder /\ OnlyValidRoundsWrite
  BY DEF CycleFollowsScenario, ProjectionsInOrder, OnlyValidRoundsWrite, Writing
<1>3. OverridesLastOneCycle /\ FirstIsItself /\ RepeatedBehaviourIsRecorded
  BY DEF OverridesLastOneCycle, FirstIsItself, RepeatedBehaviourIsRecorded
<1>4. ArtifactsInOrder /\ EligibleIsNormal
  BY DEF ArtifactsInOrder, EligibleIsNormal, Ends, TrainingRounds, EvaluationRounds, Rounds
<1>5. DatasetsAreSelected /\ ModelsAreSelected /\ ModelIsBacked
  BY DEF DatasetsAreSelected, ModelsAreSelected, ModelIsBacked
<1>6. WritesAreGood /\ MetadataComesLast
  BY DEF WritesAreGood, MetadataComesLast
<1> QED BY <1>1, <1>2, <1>3, <1>4, <1>5, <1>6 DEF Inductive

LEMMA Preserved ==
  ASSUME Inductive, [Next]_vars
  PROVE  Inductive'
<1>1. CASE Next
  <2>1. TypeOK'
    BY <1>1, TypeStep
  <2>2. CycleFollowsScenario' /\ ProjectionsInOrder' /\ OnlyValidRoundsWrite'
    BY <1>1, CycleStep DEF Inductive
  <2>3. OverridesLastOneCycle' /\ FirstIsItself' /\ RepeatedBehaviourIsRecorded'
    BY <1>1, HistoryStep DEF Inductive
  <2>4. ArtifactsInOrder' /\ EligibleIsNormal'
    BY <1>1, ArtifactStep DEF Inductive
  <2>5. DatasetsAreSelected' /\ ModelsAreSelected' /\ ModelIsBacked'
    BY <1>1, <2>1, StoreStep DEF Inductive
  <2>6. WritesAreGood' /\ MetadataComesLast'
    BY <1>1, TodoStep DEF Inductive
  <2> QED BY <2>1, <2>2, <2>3, <2>4, <2>5, <2>6 DEF Inductive
<1>2. CASE UNCHANGED vars
  <2> USE <1>2 DEF vars, serviceVars, storeVars
  <2>1. TypeOK'
    BY DEF Inductive, TypeOK
  <2>2. CycleFollowsScenario' /\ ProjectionsInOrder' /\ OnlyValidRoundsWrite'
    BY DEF Inductive, CycleFollowsScenario, ProjectionsInOrder, OnlyValidRoundsWrite,
           BlockedRound, Divergent
  <2>3. OverridesLastOneCycle' /\ FirstIsItself' /\ RepeatedBehaviourIsRecorded'
    BY DEF Inductive, OverridesLastOneCycle, FirstIsItself, RepeatedBehaviourIsRecorded
  <2>4. ArtifactsInOrder' /\ EligibleIsNormal'
    BY DEF Inductive, ArtifactsInOrder, EligibleIsNormal, Ends, TrainingRounds,
           EvaluationRounds, Rounds
  <2>5. \A key : Selected(key)' = Selected(key) /\ TrainingRounds' = TrainingRounds
    BY DEF Selected, TrainingRounds, Rounds
  <2>6. DatasetsAreSelected' /\ ModelsAreSelected'
    BY <2>5 DEF Inductive, DatasetsAreSelected, ModelsAreSelected, Good
  <2>7. ModelIsBacked'
    <3>1. \A key : Saved(key)' = Saved(key)
      BY DEF Saved
    <3> QED BY <3>1, Zenon DEF Inductive, ModelIsBacked
  <2>8. WritesAreGood'
    BY DEF Inductive, WritesAreGood, Good, Selected, TrainingRounds, Rounds
  <2>9. MetadataComesLast'
    <3>1. \A v : Stored(v)' <=> Stored(v)
      BY DEF Stored
    <3> QED BY <3>1 DEF Inductive, MetadataComesLast, Announced
  <2> QED BY <2>1, <2>2, <2>3, <2>4, <2>6, <2>7, <2>8, <2>9 DEF Inductive
<1> QED BY <1>1, <1>2

LEMMA Invariance == Spec => []Inductive
<1>1. Init => Inductive
  BY Initially
<1>2. Inductive /\ [Next]_vars => Inductive'
  BY Preserved
<1> QED BY <1>1, <1>2, PTL DEF Spec

(* The type invariant of the runtime and of the store it shares with the   *)
(* runs before it (run_local_demo.py).                                     *)
THEOREM TypeCorrect == Spec => []TypeOK
<1>1. Inductive => TypeOK
  BY DEF Inductive
<1> QED BY <1>1, Invariance, PTL

(* Whatever the operator changes and whatever fails, the records that      *)
(* build_normal_training_windows selects are of normal rounds.             *)
THEOREM TrainsOnNormalRounds == Spec => []TrainingDataIsNormal
<1>1. Inductive => TrainingDataIsNormal
  <2> SUFFICES ASSUME Inductive, NEW key \in DOMAIN datasets, key.kind = "training",
                      NEW n \in datasets[key].windows
               PROVE  applied[n] = "normal"
    BY DEF TrainingDataIsNormal
  <2>1. n \in TrainingRounds
    BY DEF Inductive, DatasetsAreSelected, Selected
  <2>2. PICK record \in artifacts : record.eligible /\ record.round = n
    BY <2>1 DEF TrainingRounds, Rounds
  <2> QED BY <2>2 DEF Inductive, EligibleIsNormal
<1> QED BY <1>1, Invariance, PTL

(* A model whose metadata is stored has its weights and the dataset it was *)
(* trained on, whatever the runtime died between.                          *)
THEOREM ModelsAreBacked == Spec => []ModelIsBacked
<1>1. Inductive => ModelIsBacked
  BY DEF Inductive
<1> QED BY <1>1, Invariance, PTL

(* Every projection was made in the mode of its own round's scenario       *)
(* (configure_scada_replay_runtime_stage).                                 *)
THEOREM OverridesEnd == Spec => []OverridesLastOneCycle
<1>1. Inductive => OverridesLastOneCycle
  BY DEF Inductive
<1> QED BY <1>1, Invariance, PTL

(* Replayed and frozen projections repeat recorded behaviour               *)
(* (_resolve_historical_behavioral_state).                                 *)
THEOREM RepeatsAreRecorded == Spec => []RepeatedBehaviourIsRecorded
<1>1. Inductive => RepeatedBehaviourIsRecorded
  BY DEF Inductive
<1> QED BY <1>1, Invariance, PTL

(* A cycle whose round is not valid leaves the object store alone          *)
(* (run_scada_comparison_and_persistence).                                 *)
THEOREM BlockedCyclesLeaveStore == Spec => BlockedCyclesWriteNothing
<1>1. Inductive /\ [Next]_vars => [pc # "down" /\ BlockedRound => UNCHANGED storeVars]_vars
  <2> SUFFICES ASSUME Inductive, Next, pc # "down", BlockedRound
               PROVE  UNCHANGED storeVars
    OBVIOUS
  <2> QED BY BlockedStep DEF Inductive
<1> QED BY <1>1, Invariance, PTL DEF Spec, BlockedCyclesWriteNothing
===============================================================================
