---------------------------- MODULE AcademicRunner ----------------------------
(***************************************************************************)
(* academic_runner.py and academic_report.py, driven by                    *)
(* scripts/run_academic_experiments.py: invocations of the campaign's      *)
(* commands, which share nothing but an artifact directory.  A pilot phase *)
(* (batch 0) is followed by the confirmatory batches 1, 2, ...; each cell, *)
(* one model fit at one seed, is executed for hours and then published     *)
(* through a journal: two payload files, a manifest that commits them, and *)
(* the two artifacts copied from the payloads.  Invocations overlap, die   *)
(* anywhere, and find the remains of others; the sources whose hash every  *)
(* cell carries may be edited while they run.                              *)
(*                                                                         *)
(* Datasets, models and scores are data: an outcome is the number of the   *)
(* execution of its cell and the sources it names.  The configuration is   *)
(* a valid v2 one with accountable numeric authority, and the projected    *)
(* cost, once known, is authorised.                                        *)
(***************************************************************************)
EXTENDS Naturals, FiniteSets

CONSTANTS Process,      \* invocations that may run at a time
          Cell,         \* positions of the logical plan
          Batch,        \* Batch[c]: 0 for the pilot, else the confirmatory batch
          Core,         \* versions of the numerical-core sources, 0 the first
          Jobs,         \* the commands the operator gives
          None,         \* a file that does not exist
          MaxFaults,    \* bound of crashes and errors
          MaxEdits      \* bound of edits of the sources

VARIABLES
  source,              \* the sources on disk
  recordedCore,        \* numerical-core-manifest.json
  ledger,              \* confirmatory-batch-ledger.json exists
  preflights,          \* preflight.json of each phase
  predictionPayloads,  \* transactions/<cell>.prediction.<hash>.jsonl
  cellPayloads,        \* transactions/<cell>.cell.<hash>.json
  manifests,           \* transactions/<cell>.transaction.json
  predictions,         \* predictions/<cell>.jsonl
  cells,               \* cells/<cell>.json
  failures,            \* cells with a retained record in failures/
  summaries,           \* run-summary.json of each phase
  progress,            \* batches/<batch>-progress.json: the batches it counts complete
  report,              \* confirmatory report: outcomes emitted or withheld
  proc,                \* proc[p]: the invocation p runs
  executed,            \* executed[c]: how often the cell was executed
  faults,              \* crashes and errors so far
  edits                \* edits of the sources so far

journal == <<predictionPayloads, cellPayloads, manifests>>
artifacts == <<predictions, cells>>
records == <<recordedCore, ledger, preflights, failures, summaries, progress, report>>
vars == <<source, records, journal, artifacts, proc, executed, faults, edits>>

Outcome == [run : Nat, core : Core]
Phase == {"pilot", "confirmatory"}
Batches == {Batch[c] : c \in Cell}

PhaseOf(b) == IF b = 0 THEN "pilot" ELSE "confirmatory"
CellsOf(phase) == {c \in Cell : PhaseOf(Batch[c]) = phase}

(* What the command line admits: a preflight of either phase, the pilot,   *)
(* one confirmatory batch, and the confirmatory report.  A pilot run may   *)
(* be restricted to some datasets and models, a batch may not.             *)
Preflight(phase) == [command |-> "preflight", phase |-> phase, batch |-> 0, rows |-> {}]
RunPilot(rows) == [command |-> "run", phase |-> "pilot", batch |-> 0, rows |-> rows]
RunBatch(b) ==
  [command |-> "run", phase |-> "confirmatory", batch |-> b, rows |-> {c \in Cell : Batch[c] = b}]
Report == [command |-> "report", phase |-> "confirmatory", batch |-> 0, rows |-> {}]

AllJobs ==
  {Preflight(phase) : phase \in Phase}
    \cup {RunPilot(rows) : rows \in SUBSET CellsOf("pilot") \ {{}}}
    \cup {RunBatch(b) : b \in Batches \ {0}}
    \cup {Report}

ASSUME CampaignAssumption ==
  /\ Cell \subseteq Nat
  /\ IsFiniteSet(Cell)
  /\ Batch \in [Cell -> Nat]
  /\ \E c \in Cell : Batch[c] = 0
  /\ \E c \in Cell : Batch[c] > 0
  /\ Core \subseteq Nat
  /\ 0 \in Core
  /\ Jobs \subseteq AllJobs
  /\ None \notin Core \cup Outcome \cup BOOLEAN
  /\ MaxFaults \in Nat
  /\ MaxEdits \in Nat

Blocked == [ready |-> FALSE, cost |-> FALSE]
Nothing == [c \in Cell |-> None]
NoVerdict == [exact |-> FALSE, eligible |-> FALSE, input |-> Nothing, complete |-> {}]

(* An invocation: where it is in its code, the cells a loop has left, the  *)
(* outcome it is publishing, its preflight, the cells it loaded and what   *)
(* it concluded from them.                                                 *)
Begin(job, pc, todo) ==
  [job |-> job, pc |-> pc, todo |-> todo, work |-> None, gate |-> Blocked, verdict |-> NoVerdict]
Idle == Begin(Report, "idle", {})

Init ==
  /\ source = 0
  /\ recordedCore = None
  /\ ledger = FALSE
  /\ preflights = [phase \in Phase |-> None]
  /\ predictionPayloads = [c \in Cell |-> {}]
  /\ cellPayloads = [c \in Cell |-> {}]
  /\ manifests = Nothing
  /\ predictions = Nothing
  /\ cells = Nothing
  /\ failures = {}
  /\ summaries = [phase \in Phase |-> None]
  /\ progress = [b \in Batches |-> None]
  /\ report = None
  /\ proc = [p \in Process |-> Idle]
  /\ executed = [c \in Cell |-> 0]
  /\ faults = 0
  /\ edits = 0

-----------------------------------------------------------------------------
(* Committed transactions whose artifacts are not both in place: those a   *)
(* recovery changes anything for.                                          *)
Open(phase) ==
  {c \in CellsOf(phase) : /\ manifests[c] # None
                          /\ \/ predictions[c] # manifests[c]
                             \/ cells[c] # manifests[c]}

(* The cell a loop of p is at: the first it has left, in plan order. *)
Current(p, c) ==
  /\ c \in proc[p].todo
  /\ \A d \in proc[p].todo : c <= d

Slip_Admissible(c, outcome) ==
  outcome # None /\ predictions[c] = outcome /\ manifests[c] = outcome

(* _validate_resume_artifact: the cell carries the hash of the sources as  *)
(* they are now, its predictions are the ones it names, and the manifest   *)
(* and both payloads agree with it.                                        *)
Admissible(c, outcome) ==
  /\ outcome # None
  /\ outcome.core = source
  /\ predictions[c] = outcome
  /\ manifests[c] = outcome
  /\ outcome \in predictionPayloads[c]
  /\ outcome \in cellPayloads[c]

At(p, pc) == proc[p].pc = pc
Goto(p, pc) == proc' = [proc EXCEPT ![p].pc = pc]
Exit(p) == proc' = [proc EXCEPT ![p] = Idle]

(* main: a command starts.  A confirmatory batch first needs the persisted *)
(* preflight to know the cost; without it nothing is written.              *)
Start(p, job) ==
  /\ At(p, "idle")
  /\ job.command = "run" /\ job.phase = "confirmatory" =>
       preflights["confirmatory"] # None /\ preflights["confirmatory"].cost
  /\ proc' = [proc EXCEPT ![p] = Begin(job, "recover", Open(job.phase))]
  /\ UNCHANGED <<source, records, journal, artifacts, executed, faults, edits>>

-----------------------------------------------------------------------------
(* _recover_cell_transaction: with payloads that match the manifest, an    *)
(* artifact is created unless it is there; other content is a conflict.    *)
Authentic(c) == manifests[c] \in predictionPayloads[c] \cap cellPayloads[c]
Placeable(c, target) == Authentic(c) /\ target \in {None, manifests[c]}

(* A conflict while recovering: _initialize_evidence and the report raise, *)
(* the planning gate goes on to a blocked preflight.                       *)
RecoveryRaises(p) ==
  IF proc[p].pc \in {"recover", "recoverCell"} THEN Exit(p) ELSE Goto(p, "evaluate")

(* _recover_cell_transactions, of the invocation's phase or, in the        *)
(* planning gate of a confirmatory preflight, of the pilot.                *)
RecoverPrediction(p, c) ==
  /\ proc[p].pc \in {"recover", "planning"}
  /\ Current(p, c)
  /\ IF Placeable(c, predictions[c])
     THEN /\ predictions' = [predictions EXCEPT ![c] = manifests[c]]
          /\ Goto(p, IF At(p, "recover") THEN "recoverCell" ELSE "planningCell")
     ELSE /\ RecoveryRaises(p)
          /\ UNCHANGED predictions
  /\ UNCHANGED <<source, records, journal, cells, executed, faults, edits>>

RecoverCell(p, c) ==
  /\ proc[p].pc \in {"recoverCell", "planningCell"}
  /\ Current(p, c)
  /\ IF Placeable(c, cells[c])
     THEN /\ cells' = [cells EXCEPT ![c] = manifests[c]]
          /\ proc' = [proc EXCEPT ![p].pc = IF @ = "recoverCell" THEN "recover" ELSE "planning",
                                  ![p].todo = @ \ {c}]
     ELSE /\ RecoveryRaises(p)
          /\ UNCHANGED cells
  /\ UNCHANGED <<source, records, journal, predictions, executed, faults, edits>>

(* Anything an earlier confirmatory invocation may have left. *)
PriorState ==
  \/ preflights["confirmatory"] # None
  \/ summaries["confirmatory"] # None
  \/ failures \cap CellsOf("confirmatory") # {}
  \/ \E b \in Batches \ {0} : progress[b] # None
  \/ \E c \in CellsOf("confirmatory") : cells[c] # None

(* _initialize_evidence: the hash of the sources is recorded, or must      *)
(* equal the recorded one; then, in the confirmatory phase, so is the      *)
(* ledger of batches, unless the phase has state and no ledger.  A run     *)
(* initialises twice in a row, by itself and in run_preflight.             *)
InitializeEvidence(p) ==
  /\ At(p, "recover")
  /\ proc[p].todo = {}
  /\ proc[p].job.command # "report"
  /\ LET confirmatory == proc[p].job.phase = "confirmatory"
     IN IF recordedCore \notin {None, source} \/ (confirmatory /\ ~ledger /\ PriorState)
        THEN Exit(p) /\ UNCHANGED <<recordedCore, ledger>>
        ELSE /\ recordedCore' = source
             /\ ledger' = (ledger \/ confirmatory)
             /\ proc' = [proc EXCEPT ![p].pc = IF confirmatory THEN "planning" ELSE "evaluate",
                                     ![p].todo = IF confirmatory THEN Open("pilot") ELSE {}]
  /\ UNCHANGED <<source, preflights, failures, summaries, progress, report,
                 journal, artifacts, executed, faults, edits>>

-----------------------------------------------------------------------------
(* run_preflight.  A confirmatory phase is ready once every pilot cell is  *)
(* admissible (_repetition_planning_gate), the pilot's own preflight was   *)
(* ready (_observed_phase_disjointness) and its summary, exact, tells the  *)
(* cost (_computational_load); a dataset may fail to load in any phase.    *)
PilotAuthenticated == \A c \in CellsOf("pilot") : Admissible(c, cells[c])
PilotDisjoint == preflights["pilot"] # None /\ preflights["pilot"].ready
CostKnown ==
  /\ summaries["pilot"] # None
  /\ summaries["pilot"].exact
  /\ \A c \in CellsOf("pilot") : cells[c] # None

Evaluation(phase, recovered) ==
  [ready |-> \/ phase = "pilot"
             \/ recovered /\ PilotAuthenticated /\ PilotDisjoint /\ CostKnown,
   cost |-> phase = "confirmatory" /\ CostKnown]

EvaluatePreflight(p) ==
  /\ \/ At(p, "evaluate")
     \/ At(p, "planning") /\ proc[p].todo = {}
  /\ LET gate == Evaluation(proc[p].job.phase, proc[p].todo = {})
     IN \/ /\ proc' = [proc EXCEPT ![p].pc = "preflight", ![p].todo = {}, ![p].gate = gate]
           /\ UNCHANGED faults
        \/ /\ faults < MaxFaults
           /\ faults' = faults + 1
           /\ proc' = [proc EXCEPT ![p].pc = "preflight", ![p].todo = {},
                                   ![p].gate = [gate EXCEPT !.ready = FALSE]]
  /\ UNCHANGED <<source, records, journal, artifacts, executed, edits>>

WritePreflight(p) ==
  /\ At(p, "preflight")
  /\ preflights' = [preflights EXCEPT ![proc[p].job.phase] = proc[p].gate]
  /\ IF proc[p].job.command = "run" THEN Goto(p, "gate") ELSE Exit(p)
  /\ UNCHANGED <<source, recordedCore, ledger, failures, summaries, progress, report,
                 journal, artifacts, executed, faults, edits>>

Slip_OrderKept(b) ==
  ledger /\ \A c \in Cell : Batch[c] \in 1..(b - 2) => Admissible(c, cells[c])

(* _confirmatory_batch_order_issue: every cell of every earlier batch is   *)
(* there and admissible.                                                   *)
OrderKept(b) ==
  /\ ledger
  /\ \A c \in Cell : Batch[c] \in 1..(b - 1) => Admissible(c, cells[c])

(* run_academic_phase after its preflight: a blocked one, an unknown cost  *)
(* or a batch out of order leaves a failure record for every planned cell. *)
Admitted(job, gate) ==
  /\ gate.ready
  /\ job.phase = "confirmatory" => gate.cost /\ OrderKept(job.batch)

EnterPhase(p) ==
  /\ At(p, "gate")
  /\ IF Admitted(proc[p].job, proc[p].gate)
     THEN /\ proc' = [proc EXCEPT ![p].pc = "next", ![p].todo = proc[p].job.rows]
          /\ UNCHANGED failures
     ELSE /\ failures' = failures \cup proc[p].job.rows
          /\ Goto(p, "assess")
  /\ UNCHANGED <<source, recordedCore, ledger, preflights, summaries, progress, report,
                 journal, artifacts, executed, faults, edits>>

(* The dataset cannot be prepared again: all planned cells fail.           *)
DatasetFails(p) ==
  /\ At(p, "next")
  /\ proc[p].todo = proc[p].job.rows
  /\ faults < MaxFaults
  /\ faults' = faults + 1
  /\ failures' = failures \cup proc[p].todo
  /\ proc' = [proc EXCEPT ![p].pc = "assess", ![p].todo = {}]
  /\ UNCHANGED <<source, recordedCore, ledger, preflights, summaries, progress, report,
                 journal, artifacts, executed, edits>>

(* The loop leaves cell c behind, with or without a failure record.        *)
Leave(p, c) == proc' = [proc EXCEPT ![p].pc = "next", ![p].todo = @ \ {c}, ![p].work = None]

Slip_LeaveFailed(p, c) == Leave(p, c) /\ UNCHANGED failures

LeaveFailed(p, c) == Leave(p, c) /\ failures' = failures \cup {c}

(* A cell that exists is resumed or, if it is not admissible, failed; it   *)
(* is never executed again.                                                *)
ResumeCell(p, c) ==
  /\ At(p, "next")
  /\ Current(p, c)
  /\ CASE cells[c] = None -> Goto(p, "execute") /\ UNCHANGED failures
       [] cells[c] # None /\ Admissible(c, cells[c]) -> Leave(p, c) /\ UNCHANGED failures
       [] OTHER -> LeaveFailed(p, c)
  /\ UNCHANGED <<source, recordedCore, ledger, preflights, summaries, progress, report,
                 journal, artifacts, executed, faults, edits>>

(* _execute_cell: hours later, an outcome of its own with the hash of the  *)
(* sources as they are at that moment.                                     *)
ExecuteCell(p, c) ==
  /\ At(p, "execute")
  /\ Current(p, c)
  /\ executed' = [executed EXCEPT ![c] = @ + 1]
  /\ proc' = [proc EXCEPT ![p].pc = "stagePrediction",
                          ![p].work = [run |-> executed[c] + 1, core |-> source]]
  /\ UNCHANGED <<source, records, journal, artifacts, faults, edits>>

Executing == {"execute", "stagePrediction", "stageCell", "commit", "placePrediction", "placeCell"}

(* The execution, or a write of the publication, raises. *)
CellFails(p, c) ==
  /\ proc[p].pc \in Executing
  /\ Current(p, c)
  /\ faults < MaxFaults
  /\ faults' = faults + 1
  /\ LeaveFailed(p, c)
  /\ UNCHANGED <<source, recordedCore, ledger, preflights, summaries, progress, report,
                 journal, artifacts, executed, edits>>

-----------------------------------------------------------------------------
(* _publish_cell_transaction: both payloads, under names of their own      *)
(* content, ...                                                            *)
StagePrediction(p, c) ==
  /\ At(p, "stagePrediction")
  /\ Current(p, c)
  /\ predictionPayloads' = [predictionPayloads EXCEPT ![c] = @ \cup {proc[p].work}]
  /\ Goto(p, "stageCell")
  /\ UNCHANGED <<source, records, cellPayloads, manifests, artifacts, executed, faults, edits>>

StageCell(p, c) ==
  /\ At(p, "stageCell")
  /\ Current(p, c)
  /\ cellPayloads' = [cellPayloads EXCEPT ![c] = @ \cup {proc[p].work}]
  /\ Goto(p, "commit")
  /\ UNCHANGED <<source, records, predictionPayloads, manifests, artifacts, executed, faults, edits>>

Slip_Commit(p, c) ==
  /\ At(p, "commit")
  /\ Current(p, c)
  /\ manifests' = [manifests EXCEPT ![c] = proc[p].work]
  /\ Goto(p, "placePrediction")
  /\ UNCHANGED <<source, records, predictionPayloads, cellPayloads, artifacts, executed, faults, edits>>

(* ... then the manifest, which _atomic_write creates or finds to differ,  *)
(* also when another invocation creates it at that moment, ...             *)
Commit(p, c) ==
  /\ At(p, "commit")
  /\ Current(p, c)
  /\ IF manifests[c] \in {None, proc[p].work}
     THEN /\ manifests' = [manifests EXCEPT ![c] = proc[p].work]
          /\ Goto(p, "placePrediction")
          /\ UNCHANGED failures
     ELSE /\ LeaveFailed(p, c)
          /\ UNCHANGED manifests
  /\ UNCHANGED <<source, recordedCore, ledger, preflights, summaries, progress, report,
                 predictionPayloads, cellPayloads, artifacts, executed, faults, edits>>

Slip_PlacePrediction(p, c) ==
  /\ At(p, "placePrediction")
  /\ Current(p, c)
  /\ cells' = [cells EXCEPT ![c] = manifests[c]]
  /\ Goto(p, "placeCell")
  /\ UNCHANGED <<source, records, journal, predictions, executed, faults, edits>>

(* ... then both artifacts, as a recovery would place them.                *)
PlacePrediction(p, c) ==
  /\ At(p, "placePrediction")
  /\ Current(p, c)
  /\ IF Placeable(c, predictions[c])
     THEN /\ predictions' = [predictions EXCEPT ![c] = manifests[c]]
          /\ Goto(p, "placeCell")
          /\ UNCHANGED failures
     ELSE /\ LeaveFailed(p, c)
          /\ UNCHANGED predictions
  /\ UNCHANGED <<source, recordedCore, ledger, preflights, summaries, progress, report,
                 journal, cells, executed, faults, edits>>

PlaceCell(p, c) ==
  /\ At(p, "placeCell")
  /\ Current(p, c)
  /\ IF Placeable(c, cells[c])
     THEN /\ cells' = [cells EXCEPT ![c] = manifests[c]]
          /\ Leave(p, c)
          /\ UNCHANGED failures
     ELSE /\ LeaveFailed(p, c)
          /\ UNCHANGED cells
  /\ UNCHANGED <<source, recordedCore, ledger, preflights, summaries, progress, report,
                 journal, predictions, executed, faults, edits>>

-----------------------------------------------------------------------------
(* The complete cells a phase holds, as analysis_input_identity binds them. *)
Input(phase) == [c \in Cell |-> IF c \in CellsOf(phase) THEN cells[c] ELSE None]

Slip_FailuresResolved(planned, authenticated) == failures \cap planned = {}

(* unresolved_failures: a retained failure counts no more once its cell    *)
(* is complete.                                                            *)
FailuresResolved(planned, authenticated) == failures \cap planned \subseteq authenticated

(* _finalize_phase_summary: what the phase amounts to. *)
Verdict(job, gate) ==
  LET planned == CellsOf(job.phase)
      authenticated == {c \in planned : Admissible(c, cells[c])}
      exact == gate.ready /\ authenticated = planned
  IN [exact |-> exact,
      eligible |-> /\ job.phase = "confirmatory"
                   /\ exact
                   /\ gate.cost
                   /\ recordedCore = source
                   /\ ledger
                   /\ FailuresResolved(planned, authenticated),
      input |-> Input(job.phase),
      complete |-> {b \in Batches \ {0} : /\ job.phase = "confirmatory"
                                          /\ gate.ready
                                          /\ ledger
                                          /\ \A c \in Cell : Batch[c] = b => c \in authenticated}]

(* A dataset that cannot be read again leaves no descriptor to check.      *)
Unread(verdict) == [verdict EXCEPT !.exact = FALSE, !.eligible = FALSE, !.complete = {}]

Assess(p) ==
  /\ \/ At(p, "assess")
     \/ At(p, "next") /\ proc[p].todo = {}
  /\ LET verdict == Verdict(proc[p].job, proc[p].gate)
     IN \/ /\ proc' = [proc EXCEPT ![p].pc = "summary", ![p].verdict = verdict]
           /\ UNCHANGED faults
        \/ /\ faults < MaxFaults
           /\ faults' = faults + 1
           /\ proc' = [proc EXCEPT ![p].pc = "summary", ![p].verdict = Unread(verdict)]
  /\ UNCHANGED <<source, records, journal, artifacts, executed, edits>>

(* run-summary.json is replaced whatever it says by then. *)
WriteSummary(p) ==
  /\ At(p, "summary")
  /\ summaries' = [summaries EXCEPT ![proc[p].job.phase] = proc[p].verdict]
  /\ IF proc[p].job.phase = "confirmatory" THEN Goto(p, "batch") ELSE Exit(p)
  /\ UNCHANGED <<source, recordedCore, ledger, preflights, failures, progress, report,
                 journal, artifacts, executed, faults, edits>>

WriteBatchRecord(p) ==
  /\ At(p, "batch")
  /\ progress' = [progress EXCEPT ![proc[p].job.batch] = proc[p].verdict.complete]
  /\ Exit(p)
  /\ UNCHANGED <<source, recordedCore, ledger, preflights, failures, summaries, report,
                 journal, artifacts, executed, faults, edits>>

(* _eligibility_audit: the report trusts the summary's gate only for the   *)
(* cells it finds itself, with their predictions verified.                 *)
Eligible ==
  /\ ledger
  /\ preflights["confirmatory"] # None
  /\ preflights["confirmatory"].ready
  /\ summaries["confirmatory"] # None
  /\ summaries["confirmatory"].eligible
  /\ summaries["confirmatory"].input = Input("confirmatory")
  /\ \A c \in CellsOf("confirmatory") : cells[c] # None /\ predictions[c] = cells[c]

AuditCells(p) ==
  /\ At(p, "recover")
  /\ proc[p].todo = {}
  /\ proc[p].job.command = "report"
  /\ proc' = [proc EXCEPT ![p].pc = "publish", ![p].verdict.eligible = Eligible]
  /\ UNCHANGED <<source, records, journal, artifacts, executed, faults, edits>>

(* build_academic_report: outcomes are published, or withheld and the      *)
(* figures of an earlier report removed.                                   *)
PublishReport(p) ==
  /\ At(p, "publish")
  /\ report' = proc[p].verdict.eligible
  /\ Exit(p)
  /\ UNCHANGED <<source, recordedCore, ledger, preflights, failures, summaries, progress,
                 journal, artifacts, executed, faults, edits>>

-----------------------------------------------------------------------------
(* The process ends anywhere, or one of its own files cannot be written.   *)
Crash(p) ==
  /\ ~At(p, "idle")
  /\ faults < MaxFaults
  /\ faults' = faults + 1
  /\ Exit(p)
  /\ UNCHANGED <<source, records, journal, artifacts, executed, edits>>

(* Someone edits the sources, or restores them. *)
EditSources ==
  /\ edits < MaxEdits
  /\ edits' = edits + 1
  /\ source' \in Core \ {source}
  /\ UNCHANGED <<records, journal, artifacts, proc, executed, faults>>

CellStep(p, c) ==
  \/ RecoverPrediction(p, c) \/ RecoverCell(p, c)
  \/ ResumeCell(p, c) \/ ExecuteCell(p, c) \/ CellFails(p, c)
  \/ StagePrediction(p, c) \/ StageCell(p, c)
  \/ Commit(p, c) \/ PlacePrediction(p, c) \/ PlaceCell(p, c)

Step(p) ==
  \/ \E c \in Cell : CellStep(p, c)
  \/ InitializeEvidence(p) \/ EvaluatePreflight(p) \/ WritePreflight(p)
  \/ EnterPhase(p) \/ DatasetFails(p)
  \/ Assess(p) \/ WriteSummary(p) \/ WriteBatchRecord(p)
  \/ AuditCells(p) \/ PublishReport(p)

Next ==
  \/ \E p \in Process : Step(p) \/ Crash(p) \/ \E job \in Jobs : Start(p, job)
  \/ EditSources

Spec == Init /\ [][Next]_vars

(* An invocation goes on unless it dies, and the operator repeats every    *)
(* command the command line admits.                                        *)
Fairness ==
  /\ \A p \in Process : WF_vars(Step(p))
  /\ \A job \in Jobs : SF_vars(\E p \in Process : Start(p, job))

FairSpec == Spec /\ Fairness

-----------------------------------------------------------------------------
(* Properties. *)

Gate == [ready : BOOLEAN, cost : BOOLEAN]
Found == [Cell -> Outcome \cup {None}]
Conclusion == [exact : BOOLEAN, eligible : BOOLEAN, input : Found, complete : SUBSET Batches]
Label == {"idle", "recover", "recoverCell", "planning", "planningCell", "evaluate",
          "preflight", "gate", "next", "assess", "summary", "batch", "publish"} \cup Executing

Invocation ==
  [job : AllJobs, pc : Label, todo : SUBSET Cell, work : Outcome \cup {None},
   gate : Gate, verdict : Conclusion]

(* Type correctness, and an invocation holds an outcome exactly while it   *)
(* publishes one: what a failed cell leaves cannot reach the next one      *)
(* (run_academic_phase, the loop over the planned cells).                  *)
TypeOK ==
  /\ source \in Core
  /\ recordedCore \in Core \cup {None}
  /\ ledger \in BOOLEAN
  /\ preflights \in [Phase -> Gate \cup {None}]
  /\ predictionPayloads \in [Cell -> SUBSET Outcome]
  /\ cellPayloads \in [Cell -> SUBSET Outcome]
  /\ manifests \in Found
  /\ predictions \in Found
  /\ cells \in Found
  /\ failures \subseteq Cell
  /\ summaries \in [Phase -> Conclusion \cup {None}]
  /\ progress \in [Batches -> (SUBSET Batches) \cup {None}]
  /\ report \in BOOLEAN \cup {None}
  /\ executed \in [Cell -> Nat]
  /\ proc \in [Process -> Invocation]
  /\ \A p \in Process : (proc[p].work # None) <=> (proc[p].pc \in Executing \ {"execute"})

(* However many invocations publish, recover and die, a reader never finds *)
(* a cell without the predictions it was computed with, nor predictions    *)
(* that no committed manifest with both its payloads accounts for          *)
(* (_publish_cell_transaction, _recover_cell_transaction).                 *)
PublishedPairsAreWhole ==
  \A c \in Cell :
    /\ predictions[c] # None => predictions[c] = manifests[c] /\ Authentic(c)
    /\ cells[c] # None => cells[c] = predictions[c]

(* No cell of a batch is ever executed before every cell of every earlier  *)
(* batch, and of the pilot, is published, although the checks ran hours    *)
(* earlier and on files other invocations were writing                     *)
(* (_confirmatory_batch_order_issue, _repetition_planning_gate).           *)
LaterBatchesFollowEarlier ==
  \A c, d \in Cell : Batch[c] < Batch[d] /\ executed[d] > 0 => cells[c] # None

(* A summary that declares the confirmatory phase eligible, or a report    *)
(* that publishes its outcomes, stays true: the ledger is there, every     *)
(* planned cell is published, and all confirmatory cells name the recorded *)
(* sources, whatever was edited and restored in between                    *)
(* (_finalize_phase_summary, _eligibility_audit).                          *)
EligibleClaimsHold ==
  \/ summaries["confirmatory"] # None /\ summaries["confirmatory"].eligible
  \/ report = TRUE
  => /\ ledger
     /\ \A c \in Cell : cells[c] # None
     /\ \A c \in CellsOf("confirmatory") : cells[c].core = recordedCore

(* A run that ends, blocked, failing or complete, has for each cell it was *)
(* asked for a published artifact or a retained failure                    *)
(* (run_academic_phase: "retain all outcomes").                            *)
EndedRunsAccountForCells ==
  [][\A p \in Process :
       WriteSummary(p) => \A c \in proc[p].job.rows : cells[c] # None \/ c \in failures]_vars

(* What readers find of a cell implements CellPublication: one outcome is  *)
(* chosen for good by its manifest, and is what the cell file shows.       *)
Publication == INSTANCE CellPublication WITH chosen <- manifests, shown <- cells
ImplementsPublication == Publication!Spec

(* No crash, failed write or blocked preflight leaves the artifact         *)
(* directory in a state that repeating the commands cannot complete: if    *)
(* the sources stay as they are, the outcomes are reported in the end.     *)
CampaignCompletes ==
  [](edits = 0) => <>[](report = TRUE)
=============================================================================
