------------------------- MODULE AcademicRunner_proofs -------------------------
(***************************************************************************)
(* Proofs about AcademicRunner, for every campaign, number of overlapping  *)
(* invocations, crashes and edits.  Four inductive invariants, each on top *)
(* of the ones before it: the types, the journal of a cell, the order of   *)
(* the batches, and what eligible records and ended runs claim.            *)
(***************************************************************************)
EXTENDS AcademicRunner, TLAPS

Recovering == {"recover", "recoverCell", "planning", "planningCell"}
Looping == {"next"} \cup Executing

(* The journal of a cell: a manifest has both its payloads, an artifact    *)
(* equals the manifest, and an invocation that is about to create the      *)
(* manifest or the second artifact has made what comes before it.          *)
Prepared(p, c) ==
  /\ proc[p].pc \in {"stageCell", "commit"} => proc[p].work \in predictionPayloads[c]
  /\ proc[p].pc = "commit" => proc[p].work \in cellPayloads[c]
  /\ proc[p].pc \in {"recoverCell", "planningCell", "placeCell"} =>
       Authentic(c) /\ predictions[c] = manifests[c]

Journal ==
  /\ \A c \in Cell : manifests[c] # None => Authentic(c)
  /\ PublishedPairsAreWhole
  /\ \A p \in Process, c \in Cell : Current(p, c) => Prepared(p, c)

(* The order of the batches: what a gate or an admission was checked for   *)
(* is still so while the loop that relies on it runs.                      *)
Precede(d) == \A c \in Cell : Batch[c] < Batch[d] => cells[c] # None

Order ==
  /\ \A d \in Cell : executed[d] > 0 => Precede(d)
  /\ \A p \in Process : proc[p].pc \in Looping => \A d \in proc[p].todo : Precede(d)
  /\ \A p \in Process : proc[p].job.phase = "confirmatory" /\ proc[p].gate.ready =>
       \A c \in CellsOf("pilot") : cells[c] # None

(* What eligible records claim is so.                                      *)
Claim ==
  /\ recordedCore # None
  /\ ledger
  /\ \A c \in Cell : cells[c] # None
  /\ \A c \in CellsOf("confirmatory") : cells[c].core = recordedCore

Claims ==
  /\ \A p \in Process : proc[p].verdict.eligible => Claim
  /\ summaries["confirmatory"] # None /\ summaries["confirmatory"].eligible => Claim
  /\ report = TRUE => Claim

(* The cells a run has dealt with are accounted for.                       *)
Dealt(p) ==
  CASE proc[p].pc \in Looping -> proc[p].job.rows \ proc[p].todo
    [] proc[p].pc \in {"assess", "summary"} -> proc[p].job.rows
    [] OTHER -> {}

Accounts == \A p \in Process : \A c \in Dealt(p) : cells[c] # None \/ c \in failures

-----------------------------------------------------------------------------
(* What the operators promise.                                             *)

(* A command names cells of its own phase and batch.                       *)
LEMMA CommandCells ==
  ASSUME NEW job \in AllJobs
  PROVE  /\ job.phase \in Phase
         /\ job.rows \subseteq Cell
         /\ \A d \in job.rows : IF job.phase = "pilot" THEN Batch[d] = 0 ELSE Batch[d] = job.batch
<1>1. CASE job \in {Preflight(phase) : phase \in Phase} \cup {Report}
  BY <1>1 DEF Preflight, Report, Phase
<1>2. CASE job \in {RunPilot(rows) : rows \in SUBSET CellsOf("pilot") \ {{}}}
  <2>1. PICK rows \in SUBSET CellsOf("pilot") : job = RunPilot(rows)
    BY <1>2
  <2>2. \A d \in rows : d \in Cell /\ Batch[d] = 0
    BY <2>1 DEF CellsOf, PhaseOf
  <2> QED
    BY <2>1, <2>2 DEF RunPilot, Phase
<1>3. CASE job \in {RunBatch(b) : b \in Batches \ {0}}
  BY <1>3 DEF RunBatch, Phase
<1> QED
  BY <1>1, <1>2, <1>3 DEF AllJobs

(* A plan has one first cell.                                              *)
LEMMA CurrentUnique ==
  ASSUME NEW p \in Process, TypeOK,
         NEW c \in Cell, NEW d \in Cell, Current(p, c), Current(p, d)
  PROVE  c = d
<1>1. c <= d /\ d <= c
  BY DEF Current
<1> QED
  BY <1>1, CampaignAssumption

(* A verdict is a conclusion over the cells there are.                     *)
LEMMA VerdictType ==
  ASSUME NEW job \in AllJobs, NEW gate \in Gate, cells \in Found
  PROVE  /\ Verdict(job, gate) \in Conclusion
         /\ Unread(Verdict(job, gate)) \in Conclusion
<1>1. Input(job.phase) \in Found
  BY DEF Input, Found
<1>2. Verdict(job, gate) \in Conclusion
  BY <1>1 DEF Verdict, Conclusion, Gate
<1> QED
  BY <1>2 DEF Unread, Conclusion

(* What Begin makes is an invocation.                                      *)
LEMMA BeginType ==
  ASSUME NEW job \in AllJobs, NEW pc \in Label, NEW todo \in SUBSET Cell
  PROVE  Begin(job, pc, todo) \in Invocation
<1>1. NoVerdict \in Conclusion
  BY DEF NoVerdict, Conclusion, Nothing, Found
<1>2. Blocked \in Gate
  BY DEF Blocked, Gate
<1> QED
  BY <1>1, <1>2 DEF Begin, Invocation

LEMMA IdleType == Idle \in Invocation /\ Idle.work = None /\ Idle.pc = "idle"
<1>1. Report \in AllJobs
  BY DEF AllJobs
<1>2. Begin(Report, "idle", {}) \in Invocation
  BY <1>1, BeginType DEF Label
<1> QED
  BY <1>2 DEF Idle, Begin

-----------------------------------------------------------------------------
(* The types.                                                              *)

LEMMA TypeInit == Init => TypeOK
<1> SUFFICES ASSUME Init PROVE TypeOK
  OBVIOUS
<1>1. None \notin Outcome /\ 0 \in Core
  BY CampaignAssumption
<1>2. manifests \in Found /\ predictions \in Found /\ cells \in Found
  BY DEF Init, Nothing, Found
<1>3. proc \in [Process -> Invocation] /\ \A p \in Process : proc[p] = Idle
  BY IdleType DEF Init
<1>4. \A p \in Process : (proc[p].work # None) <=> (proc[p].pc \in Executing \ {"execute"})
  BY <1>3, IdleType DEF Executing
<1> QED
  BY <1>1, <1>2, <1>3, <1>4 DEF Init, TypeOK

(* The invocations' part of the types, and how the recurring changes of an *)
(* invocation keep it.                                                     *)
InvocationsOK ==
  /\ proc \in [Process -> Invocation]
  /\ \A p \in Process : (proc[p].work # None) <=> (proc[p].pc \in Executing \ {"execute"})

LEMMA UpdateType ==
  ASSUME TypeOK, NEW p \in Process, NEW r \in Invocation, proc' = [proc EXCEPT ![p] = r],
         (r.work # None) <=> (r.pc \in Executing \ {"execute"})
  PROVE  InvocationsOK'
BY DEF TypeOK, InvocationsOK

LEMMA ExitType == ASSUME TypeOK, NEW p \in Process, Exit(p) PROVE InvocationsOK'
BY IdleType, UpdateType DEF Exit, Executing

LEMMA GotoType ==
  ASSUME TypeOK, NEW p \in Process, NEW label \in Label, Goto(p, label),
         (proc[p].work # None) <=> (label \in Executing \ {"execute"})
  PROVE  InvocationsOK'
<1> DEFINE r == [proc[p] EXCEPT !.pc = label]
<1>1. r \in Invocation /\ r.work = proc[p].work /\ r.pc = label
  BY DEF TypeOK, Invocation
<1>2. proc' = [proc EXCEPT ![p] = r]
  BY DEF Goto
<1> QED
  BY <1>1, <1>2, UpdateType

LEMMA LeaveType ==
  ASSUME TypeOK, NEW p \in Process, NEW c \in Cell, Leave(p, c) PROVE InvocationsOK'
<1> DEFINE r == [[[proc[p] EXCEPT !.pc = "next"] EXCEPT !.todo = proc[p].todo \ {c}] EXCEPT !.work = None]
<1>1. r \in Invocation /\ r.work = None /\ r.pc = "next"
  BY DEF TypeOK, Invocation, Label
<1>2. proc' = [proc EXCEPT ![p] = r]
  BY DEF Leave, TypeOK, Invocation
<1> QED
  BY <1>1, <1>2, UpdateType DEF Executing

LEMMA TypeStep == TypeOK /\ [Next]_vars => TypeOK'
<1> SUFFICES ASSUME TypeOK, [Next]_vars PROVE TypeOK'
  OBVIOUS
<1> USE DEF TypeOK, records, journal, artifacts, At, Goto, Exit
<1>0. None \notin Outcome /\ source \in Core
  BY CampaignAssumption
<1>1. ASSUME NEW p \in Process, NEW job \in Jobs, Start(p, job) PROVE TypeOK'
  <2>1. job \in AllJobs /\ "recover" \in Label
    BY CampaignAssumption DEF Label
  <2>2. Begin(job, "recover", Open(job.phase)) \in Invocation
    BY <2>1, BeginType DEF Open, CellsOf
  <2>3. /\ Begin(job, "recover", Open(job.phase)).work = None
        /\ Begin(job, "recover", Open(job.phase)).pc = "recover"
    BY DEF Begin
  <2> QED
    BY <1>1, <2>2, <2>3 DEF Start, Executing
<1>2. ASSUME NEW p \in Process, NEW c \in Cell, RecoverPrediction(p, c) PROVE TypeOK'
  <2>1. InvocationsOK'
    <3>1. \A label \in {"recoverCell", "planningCell", "evaluate"} :
            Goto(p, label) => InvocationsOK'
      <4>1. \A label \in {"recoverCell", "planningCell", "evaluate"} : label \in Label
        BY DEF Label
      <4>2. proc[p].work = None
        BY <1>2 DEF RecoverPrediction, Executing
      <4> QED
        BY <4>1, <4>2, GotoType DEF Executing
    <3> QED
      BY <1>2, <3>1, ExitType DEF RecoverPrediction, RecoveryRaises
  <2>2. predictions' \in Found
    BY <1>2 DEF RecoverPrediction, Found
  <2> QED
    BY <1>2, <2>1, <2>2 DEF RecoverPrediction, InvocationsOK
<1>3. ASSUME NEW p \in Process, NEW c \in Cell, RecoverCell(p, c) PROVE TypeOK'
  BY <1>3, IdleType DEF RecoverCell, RecoveryRaises, Invocation, Label, Executing, Found
<1>4. ASSUME NEW p \in Process, NEW c \in Cell, ResumeCell(p, c) PROVE TypeOK'
  BY <1>4 DEF ResumeCell, Leave, LeaveFailed, Invocation, Label, Executing
<1>5. ASSUME NEW p \in Process, NEW c \in Cell, ExecuteCell(p, c) PROVE TypeOK'
  <2>1. [run |-> executed[c] + 1, core |-> source] \in Outcome
    BY <1>0 DEF Outcome
  <2> QED
    BY <1>0, <1>5, <2>1 DEF ExecuteCell, Invocation, Label, Executing
<1>6. ASSUME NEW p \in Process, NEW c \in Cell, CellFails(p, c) PROVE TypeOK'
  <2>1. InvocationsOK'
    BY <1>6, LeaveType DEF CellFails, LeaveFailed
  <2> QED
    BY <1>6, <2>1 DEF CellFails, LeaveFailed, InvocationsOK
<1>7. ASSUME NEW p \in Process, NEW c \in Cell, StagePrediction(p, c) PROVE TypeOK'
  BY <1>7 DEF StagePrediction, Invocation, Label, Executing
<1>8. ASSUME NEW p \in Process, NEW c \in Cell, StageCell(p, c) PROVE TypeOK'
  BY <1>8 DEF StageCell, Invocation, Label, Executing
<1>9. ASSUME NEW p \in Process, NEW c \in Cell, Commit(p, c) PROVE TypeOK'
  <2>1. CASE manifests[c] \in {None, proc[p].work}
    <3>1. InvocationsOK'
      BY <1>9, <2>1, GotoType DEF Commit, Label, Executing
    <3>2. proc[p].work \in Outcome \cup {None}
      BY DEF Invocation
    <3>3. manifests' \in Found
      BY <1>9, <2>1, <3>2 DEF Commit, Found
    <3> QED
      BY <1>9, <2>1, <3>1, <3>3 DEF Commit, InvocationsOK
  <2>2. CASE manifests[c] \notin {None, proc[p].work}
    <3>1. InvocationsOK'
      BY <1>9, <2>2, LeaveType DEF Commit, LeaveFailed
    <3> QED
      BY <1>9, <2>2, <3>1 DEF Commit, LeaveFailed, InvocationsOK
  <2> QED
    BY <1>9, <2>1, <2>2 DEF Commit
<1>10. ASSUME NEW p \in Process, NEW c \in Cell, PlacePrediction(p, c) PROVE TypeOK'
  <2>1. CASE Goto(p, "placeCell")
    <3>1. InvocationsOK'
      BY <1>10, <2>1, GotoType DEF PlacePrediction, Label, Executing
    <3> QED
      BY <1>10, <3>1 DEF PlacePrediction, LeaveFailed, InvocationsOK, Found
  <2>2. CASE LeaveFailed(p, c) /\ UNCHANGED predictions
    <3>1. InvocationsOK'
      BY <2>2, LeaveType DEF LeaveFailed
    <3> QED
      BY <1>10, <2>2, <3>1 DEF PlacePrediction, LeaveFailed, InvocationsOK
  <2> QED
    BY <1>10, <2>1, <2>2 DEF PlacePrediction
<1>11. ASSUME NEW p \in Process, NEW c \in Cell, PlaceCell(p, c) PROVE TypeOK'
  <2>1. InvocationsOK'
    BY <1>11, LeaveType DEF PlaceCell, LeaveFailed
  <2> QED
    BY <1>11, <2>1 DEF PlaceCell, LeaveFailed, InvocationsOK, Found
<1>12. ASSUME NEW p \in Process, InitializeEvidence(p) PROVE TypeOK'
  <2>1. CASE Exit(p) /\ UNCHANGED <<recordedCore, ledger>>
    BY <1>12, <2>1, ExitType DEF InitializeEvidence, InvocationsOK
  <2>2. CASE ~(Exit(p) /\ UNCHANGED <<recordedCore, ledger>>)
    <3>1. Open("pilot") \subseteq Cell
      BY DEF Open, CellsOf
    <3>2. InvocationsOK'
      BY <1>12, <2>2, <3>1 DEF InitializeEvidence, InvocationsOK, Invocation, Label, Executing
    <3>3. recordedCore' \in Core \cup {None} /\ ledger' \in BOOLEAN
      BY <1>12, <2>2 DEF InitializeEvidence
    <3> QED
      BY <1>12, <3>2, <3>3 DEF InitializeEvidence, InvocationsOK
  <2> QED
    BY <2>1, <2>2
<1>13. ASSUME NEW p \in Process, EvaluatePreflight(p) PROVE TypeOK'
  <2>1. \A phase \in Phase, b \in BOOLEAN :
          /\ Evaluation(phase, b) \in Gate
          /\ [Evaluation(phase, b) EXCEPT !.ready = FALSE] \in Gate
    BY DEF Evaluation, Gate
  <2>2. proc[p].job.phase \in Phase
    BY CommandCells DEF Invocation
  <2>3. PICK gate \in Gate :
          proc' = [proc EXCEPT ![p].pc = "preflight", ![p].todo = {}, ![p].gate = gate]
    BY <1>13, <2>1, <2>2 DEF EvaluatePreflight
  <2>4. InvocationsOK'
    BY <1>13, <2>3 DEF EvaluatePreflight, InvocationsOK, Invocation, Label, Executing
  <2> QED
    BY <1>13, <2>4 DEF EvaluatePreflight, InvocationsOK
<1>14. ASSUME NEW p \in Process, WritePreflight(p) PROVE TypeOK'
  <2>1. InvocationsOK'
    BY <1>14, ExitType, GotoType DEF WritePreflight, Label, Executing
  <2>2. proc[p].gate \in Gate
    BY DEF Invocation
  <2> QED
    BY <1>14, <2>1, <2>2 DEF WritePreflight, InvocationsOK
<1>15. ASSUME NEW p \in Process, EnterPhase(p) PROVE TypeOK'
  <2>1. proc[p].job.rows \subseteq Cell
    BY CommandCells DEF Invocation
  <2> QED
    BY <1>15, <2>1 DEF EnterPhase, Invocation, Label, Executing
<1>16. ASSUME NEW p \in Process, DatasetFails(p) PROVE TypeOK'
  <2>1. proc[p].todo \subseteq Cell
    BY DEF Invocation
  <2> DEFINE r == [[proc[p] EXCEPT !.pc = "assess"] EXCEPT !.todo = {}]
  <2>2. r \in Invocation /\ r.work = proc[p].work /\ r.pc = "assess"
    BY DEF Invocation, Label
  <2>3. proc' = [proc EXCEPT ![p] = r]
    BY <1>16 DEF DatasetFails, Invocation
  <2>4. InvocationsOK'
    <3>1. r.work = None
      BY <1>16, <2>2 DEF DatasetFails, Executing
    <3> HIDE DEF r
    <3> QED
      BY <2>2, <2>3, <3>1, UpdateType DEF Executing
  <2> QED
    BY <1>16, <2>1, <2>4 DEF DatasetFails, InvocationsOK
<1>17. ASSUME NEW p \in Process, Assess(p) PROVE TypeOK'
  <2>1. /\ Verdict(proc[p].job, proc[p].gate) \in Conclusion
        /\ Unread(Verdict(proc[p].job, proc[p].gate)) \in Conclusion
    BY VerdictType DEF Invocation
  <2>2. PICK verdict \in Conclusion :
          proc' = [proc EXCEPT ![p].pc = "summary", ![p].verdict = verdict]
    BY <1>17, <2>1 DEF Assess
  <2>3. InvocationsOK'
    BY <1>17, <2>2 DEF Assess, InvocationsOK, Invocation, Label, Executing
  <2> QED
    BY <1>17, <2>3 DEF Assess, InvocationsOK
<1>18. ASSUME NEW p \in Process, WriteSummary(p) PROVE TypeOK'
  <2>1. InvocationsOK'
    BY <1>18, ExitType, GotoType DEF WriteSummary, Label, Executing
  <2>2. proc[p].verdict \in Conclusion
    BY DEF Invocation
  <2> QED
    BY <1>18, <2>1, <2>2 DEF WriteSummary, InvocationsOK
<1>19. ASSUME NEW p \in Process, WriteBatchRecord(p) PROVE TypeOK'
  <2>1. InvocationsOK'
    BY <1>19, ExitType DEF WriteBatchRecord
  <2>2. proc[p].verdict.complete \in SUBSET Batches
    BY DEF Invocation, Conclusion
  <2> QED
    BY <1>19, <2>1, <2>2 DEF WriteBatchRecord, InvocationsOK
<1>20. ASSUME NEW p \in Process, AuditCells(p) PROVE TypeOK'
  <2>1. Eligible \in BOOLEAN
    BY DEF Eligible
  <2> DEFINE verdict == [proc[p].verdict EXCEPT !.eligible = Eligible]
             r == [[proc[p] EXCEPT !.pc = "publish"] EXCEPT !.verdict = verdict]
  <2>2. verdict \in Conclusion
    BY <2>1 DEF Invocation, Conclusion
  <2>3. proc' = [proc EXCEPT ![p] = r] /\ r \in Invocation /\ r.work = proc[p].work /\ r.pc = "publish"
    <3> HIDE DEF verdict
    <3>1. r \in Invocation /\ r.work = proc[p].work /\ r.pc = "publish"
      BY <2>2 DEF Invocation, Label
    <3>2. proc' = [proc EXCEPT ![p] = r]
      BY <1>20 DEF AuditCells, Invocation, verdict
    <3> QED
      BY <3>1, <3>2
  <2>4. InvocationsOK'
    <3>1. r.work = None
      BY <1>20, <2>3 DEF AuditCells, Executing
    <3> HIDE DEF r
    <3> QED
      BY <2>3, <3>1, UpdateType DEF Executing
  <2> QED
    BY <1>20, <2>4 DEF AuditCells, InvocationsOK
<1>21. ASSUME NEW p \in Process, PublishReport(p) PROVE TypeOK'
  <2>1. InvocationsOK'
    BY <1>21, ExitType DEF PublishReport
  <2>2. proc[p].verdict.eligible \in BOOLEAN
    BY DEF Invocation, Conclusion
  <2> QED
    BY <1>21, <2>1, <2>2 DEF PublishReport, InvocationsOK
<1>22. ASSUME NEW p \in Process, Crash(p) PROVE TypeOK'
  BY <1>22, IdleType DEF Crash, Executing
<1>23. CASE EditSources
  BY <1>23 DEF EditSources
<1>24. CASE UNCHANGED vars
  BY <1>24 DEF vars
<1> QED
  BY <1>1, <1>2, <1>3, <1>4, <1>5, <1>6, <1>7, <1>8, <1>9, <1>10, <1>11, <1>12, <1>13, <1>14,
     <1>15, <1>16, <1>17, <1>18, <1>19, <1>20, <1>21, <1>22, <1>23, <1>24
     DEF Next, Step, CellStep

THEOREM TypeCorrect == Spec => []TypeOK
<1>1. Init => TypeOK
  BY TypeInit
<1>2. TypeOK /\ [Next]_vars => TypeOK'
  BY TypeStep
<1> QED
  BY <1>1, <1>2, PTL DEF Spec

-----------------------------------------------------------------------------
(* What every step keeps: nothing that was written is taken back, and an   *)
(* invocation changes by its own steps only.                               *)
Grows ==
  \A c \in Cell :
    /\ predictionPayloads[c] \subseteq predictionPayloads'[c]
    /\ cellPayloads[c] \subseteq cellPayloads'[c]
    /\ manifests[c] # None => manifests'[c] = manifests[c]
    /\ predictions[c] # None => predictions'[c] = predictions[c]
    /\ cells[c] # None => cells'[c] = cells[c]

Moves(p) == Step(p) \/ Crash(p) \/ \E job \in Jobs : Start(p, job)

LEMMA OthersStay ==
  ASSUME TypeOK, NEW p \in Process, Moves(p)
  PROVE  \A q \in Process \ {p} : proc'[q] = proc[q]
<1> USE DEF TypeOK, At, Goto, Exit
<1>1. ASSUME NEW c \in Cell, CellStep(p, c) PROVE \A q \in Process \ {p} : proc'[q] = proc[q]
  BY <1>1 DEF CellStep, RecoverPrediction, RecoverCell, RecoveryRaises, ResumeCell, ExecuteCell,
              CellFails, StagePrediction, StageCell, Commit, PlacePrediction, PlaceCell,
              Leave, LeaveFailed
<1>2. CASE InitializeEvidence(p) \/ EvaluatePreflight(p) \/ WritePreflight(p)
  BY <1>2 DEF InitializeEvidence, EvaluatePreflight, WritePreflight
<1>3. CASE EnterPhase(p) \/ DatasetFails(p) \/ Assess(p) \/ WriteSummary(p) \/ WriteBatchRecord(p)
  BY <1>3 DEF EnterPhase, DatasetFails, Assess, WriteSummary, WriteBatchRecord
<1>4. CASE AuditCells(p) \/ PublishReport(p) \/ Crash(p) \/ \E job \in Jobs : Start(p, job)
  BY <1>4 DEF AuditCells, PublishReport, Crash, Start
<1> QED
  BY <1>1, <1>2, <1>3, <1>4 DEF Moves, Step

LEMMA GrowsStep == TypeOK /\ [Next]_vars => Grows
<1> SUFFICES ASSUME TypeOK, [Next]_vars PROVE Grows
  OBVIOUS
<1> USE DEF journal, artifacts, records
<1>1. CASE UNCHANGED <<journal, artifacts>>
  BY <1>1 DEF Grows
<1>2. ASSUME NEW p \in Process, NEW c \in Cell,
             StagePrediction(p, c) \/ StageCell(p, c) \/ Commit(p, c)
      PROVE  Grows
  BY <1>2 DEF StagePrediction, StageCell, Commit, Grows, TypeOK, Found
<1>3. ASSUME NEW p \in Process, NEW c \in Cell,
             PlacePrediction(p, c) \/ RecoverPrediction(p, c)
      PROVE  Grows
  BY <1>3 DEF PlacePrediction, RecoverPrediction, Placeable, Grows, TypeOK, Found
<1>4. ASSUME NEW p \in Process, NEW c \in Cell, PlaceCell(p, c) \/ RecoverCell(p, c)
      PROVE  Grows
  BY <1>4 DEF PlaceCell, RecoverCell, Placeable, Grows, TypeOK, Found
<1>5. ASSUME NEW p \in Process, NEW c \in Cell,
             ResumeCell(p, c) \/ ExecuteCell(p, c) \/ CellFails(p, c)
      PROVE  UNCHANGED <<journal, artifacts>>
  BY <1>5 DEF ResumeCell, ExecuteCell, CellFails
<1>6. ASSUME NEW p \in Process,
             \/ InitializeEvidence(p) \/ EvaluatePreflight(p) \/ WritePreflight(p)
             \/ EnterPhase(p) \/ DatasetFails(p)
             \/ Assess(p) \/ WriteSummary(p) \/ WriteBatchRecord(p)
             \/ AuditCells(p) \/ PublishReport(p) \/ Crash(p)
             \/ \E job \in Jobs : Start(p, job)
      PROVE  UNCHANGED <<journal, artifacts>>
  BY <1>6 DEF InitializeEvidence, EvaluatePreflight, WritePreflight, EnterPhase, DatasetFails,
              Assess, WriteSummary, WriteBatchRecord, AuditCells, PublishReport, Crash, Start
<1>7. CASE EditSources \/ UNCHANGED vars
  BY <1>1, <1>7 DEF EditSources, vars
<1> QED
  BY <1>1, <1>2, <1>3, <1>4, <1>5, <1>6, <1>7 DEF Next, Step, CellStep

-----------------------------------------------------------------------------
(* The journal.                                                            *)

LEMMA JournalInit == Init => Journal
<1> SUFFICES ASSUME Init PROVE Journal
  OBVIOUS
<1>1. \A p \in Process : proc[p].pc = "idle"
  BY IdleType DEF Init
<1> QED
  BY <1>1 DEF Init, Nothing, Journal, PublishedPairsAreWhole, Prepared

(* A payload is never the file that does not exist.                        *)
LEMMA AuthenticIsThere ==
  ASSUME TypeOK, NEW c \in Cell, Authentic(c) PROVE manifests[c] \in Outcome /\ manifests[c] # None
BY CampaignAssumption DEF TypeOK, Authentic

(* What other invocations have prepared stays so.                          *)
LEMMA PreparedStays ==
  ASSUME TypeOK, Journal, Grows, NEW q \in Process, proc'[q] = proc[q],
         NEW c \in Cell, Current(q, c)'
  PROVE  Prepared(q, c)'
<1>1. Prepared(q, c)
  BY DEF Current, Journal
<1>2. CASE proc[q].pc \in {"recoverCell", "planningCell", "placeCell"}
  <2>1. Authentic(c) /\ predictions[c] = manifests[c]
    BY <1>1, <1>2 DEF Prepared
  <2>2. manifests[c] # None
    BY <2>1, AuthenticIsThere
  <2>3. manifests'[c] = manifests[c] /\ predictions'[c] = predictions[c]
    BY <2>1, <2>2 DEF Grows
  <2>4. Authentic(c)'
    BY <2>1, <2>3 DEF Authentic, Grows
  <2> QED
    BY <1>2, <2>1, <2>3, <2>4 DEF Prepared
<1>3. CASE proc[q].pc \notin {"recoverCell", "planningCell", "placeCell"}
  BY <1>1, <1>3 DEF Prepared, Grows
<1> QED
  BY <1>2, <1>3

LEMMA OthersPrepared ==
  ASSUME TypeOK, Journal, Grows, NEW p \in Process,
         \A q \in Process \ {p} : proc'[q] = proc[q],
         \A c \in Cell : Current(p, c)' => Prepared(p, c)'
  PROVE  \A q \in Process, c \in Cell : Current(q, c)' => Prepared(q, c)'
BY PreparedStays

(* A step that neither writes a file of the journal nor an artifact, and   *)
(* leaves the invocation where nothing is prepared, keeps it.              *)
LEMMA JournalFrame ==
  ASSUME TypeOK, Journal, UNCHANGED <<journal, artifacts>>, NEW p \in Process,
         \A q \in Process \ {p} : proc'[q] = proc[q],
         proc'[p].pc \notin {"stageCell", "commit", "recoverCell", "planningCell", "placeCell"}
  PROVE  Journal'
<1>1. Grows
  BY DEF Grows, journal, artifacts
<1>2. \A c \in Cell : Prepared(p, c)'
  BY DEF Prepared
<1>3. \A q \in Process, c \in Cell : Current(q, c)' => Prepared(q, c)'
  BY <1>1, <1>2, OthersPrepared
<1> QED
  BY <1>3 DEF Journal, PublishedPairsAreWhole, Authentic, journal, artifacts

(* Where the steps that touch no file of the journal leave their           *)
(* invocation.                                                             *)
Unprepared(p) ==
  /\ UNCHANGED <<journal, artifacts>>
  /\ proc'[p].pc \notin {"stageCell", "commit", "recoverCell", "planningCell", "placeCell"}

LEMMA ExitIdle ==
  ASSUME TypeOK, NEW p \in Process, Exit(p) PROVE proc'[p] = Idle
BY DEF TypeOK, Exit

LEMMA LeaveNext ==
  ASSUME TypeOK, NEW p \in Process, NEW c \in Cell, Leave(p, c)
  PROVE  /\ proc'[p].pc = "next"
         /\ proc'[p].todo = proc[p].todo \ {c}
         /\ proc'[p].work = None
         /\ proc'[p].job = proc[p].job
         /\ proc'[p].gate = proc[p].gate
         /\ proc'[p].verdict = proc[p].verdict
BY DEF TypeOK, Invocation, Leave

LEMMA GotoLabel ==
  ASSUME TypeOK, NEW p \in Process, NEW label, Goto(p, label)
  PROVE  /\ proc'[p].pc = label
         /\ proc'[p].todo = proc[p].todo
         /\ proc'[p].work = proc[p].work
         /\ proc'[p].job = proc[p].job
         /\ proc'[p].gate = proc[p].gate
         /\ proc'[p].verdict = proc[p].verdict
BY DEF TypeOK, Invocation, Goto

LEMMA UnpreparedSteps ==
  ASSUME TypeOK, NEW p \in Process
  PROVE  /\ InitializeEvidence(p) => Unprepared(p)
         /\ EvaluatePreflight(p) \/ WritePreflight(p) => Unprepared(p)
         /\ EnterPhase(p) \/ DatasetFails(p) => Unprepared(p)
         /\ Assess(p) \/ WriteSummary(p) \/ WriteBatchRecord(p) => Unprepared(p)
         /\ AuditCells(p) \/ PublishReport(p) \/ Crash(p) => Unprepared(p)
         /\ \A job \in Jobs : Start(p, job) => Unprepared(p)
         /\ \A c \in Cell : ResumeCell(p, c) \/ ExecuteCell(p, c) \/ CellFails(p, c) => Unprepared(p)
<1> USE DEF Unprepared, records, TypeOK, Invocation
<1>1. InitializeEvidence(p) => Unprepared(p)
  <2>1. CASE Exit(p)
    BY <2>1, ExitIdle, IdleType DEF InitializeEvidence
  <2>2. CASE ~Exit(p)
    BY <2>2 DEF InitializeEvidence
  <2> QED
    BY <2>1, <2>2
<1>2. EvaluatePreflight(p) => Unprepared(p)
  BY DEF EvaluatePreflight
<1>3. WritePreflight(p) => Unprepared(p)
  BY ExitIdle, IdleType, GotoLabel DEF WritePreflight
<1>4. EnterPhase(p) \/ DatasetFails(p) => Unprepared(p)
  BY GotoLabel DEF EnterPhase, DatasetFails
<1>5. Assess(p) => Unprepared(p)
  BY DEF Assess
<1>6. WriteSummary(p) \/ WriteBatchRecord(p) => Unprepared(p)
  BY ExitIdle, IdleType, GotoLabel DEF WriteSummary, WriteBatchRecord
<1>7. AuditCells(p) => Unprepared(p)
  BY DEF AuditCells
<1>8. PublishReport(p) \/ Crash(p) => Unprepared(p)
  BY ExitIdle, IdleType DEF PublishReport, Crash
<1>9. ASSUME NEW job \in Jobs, Start(p, job) PROVE Unprepared(p)
  BY <1>9 DEF Start, Begin
<1>10. ASSUME NEW c \in Cell, ResumeCell(p, c) PROVE Unprepared(p)
  <2>1. CASE Goto(p, "execute")
    BY <1>10, <2>1, GotoLabel DEF ResumeCell
  <2>2. CASE Leave(p, c)
    BY <1>10, <2>2, LeaveNext DEF ResumeCell
  <2> QED
    BY <1>10, <2>1, <2>2 DEF ResumeCell, LeaveFailed
<1>11. ASSUME NEW c \in Cell, ExecuteCell(p, c) PROVE Unprepared(p)
  BY <1>11 DEF ExecuteCell
<1>12. ASSUME NEW c \in Cell, CellFails(p, c) PROVE Unprepared(p)
  BY <1>12, LeaveNext DEF CellFails, LeaveFailed
<1> QED
  BY <1>1, <1>2, <1>3, <1>4, <1>5, <1>6, <1>7, <1>8, <1>9, <1>10, <1>11, <1>12

LEMMA JournalStep == TypeOK /\ Journal /\ [Next]_vars => Journal'
<1> SUFFICES ASSUME TypeOK, Journal, [Next]_vars PROVE Journal'
  OBVIOUS
<1>0. Grows
  BY GrowsStep
<1>1. ASSUME NEW p \in Process, Moves(p), Unprepared(p) PROVE Journal'
  BY <1>1, OthersStay, JournalFrame DEF Unprepared
<1>2. ASSUME NEW p \in Process, NEW c \in Cell, Moves(p), StagePrediction(p, c) PROVE Journal'
  <2>1. /\ proc'[p].pc = "stageCell" /\ proc'[p].todo = proc[p].todo /\ proc'[p].work = proc[p].work
        /\ proc[p].work \in predictionPayloads'[c]
    BY <1>2, GotoLabel DEF StagePrediction, TypeOK
  <2>2. \A d \in Cell : Current(p, d)' => d = c
    BY <1>2, <2>1, CurrentUnique DEF Current, StagePrediction
  <2>3. \A d \in Cell : Current(p, d)' => Prepared(p, d)'
    BY <2>1, <2>2 DEF Prepared
  <2>4. \A q \in Process, d \in Cell : Current(q, d)' => Prepared(q, d)'
    BY <1>0, <1>2, <2>3, OthersStay, OthersPrepared
  <2>5. \A d \in Cell : Authentic(d) => Authentic(d)'
    BY <1>0, <1>2 DEF Authentic, Grows, StagePrediction
  <2> QED
    BY <1>2, <2>4, <2>5 DEF Journal, PublishedPairsAreWhole, StagePrediction, artifacts
<1>3. ASSUME NEW p \in Process, NEW c \in Cell, Moves(p), StageCell(p, c) PROVE Journal'
  <2>1. /\ proc'[p].pc = "commit" /\ proc'[p].todo = proc[p].todo /\ proc'[p].work = proc[p].work
        /\ proc[p].work \in cellPayloads'[c]
    BY <1>3, GotoLabel DEF StageCell, TypeOK
  <2>2. \A d \in Cell : Current(p, d)' => d = c
    BY <1>3, <2>1, CurrentUnique DEF Current, StageCell
  <2>3. proc[p].work \in predictionPayloads'[c]
    BY <1>3 DEF Journal, Prepared, StageCell, At
  <2>4. \A d \in Cell : Current(p, d)' => Prepared(p, d)'
    BY <2>1, <2>2, <2>3 DEF Prepared
  <2>5. \A q \in Process, d \in Cell : Current(q, d)' => Prepared(q, d)'
    BY <1>0, <1>3, <2>4, OthersStay, OthersPrepared
  <2>6. \A d \in Cell : Authentic(d) => Authentic(d)'
    BY <1>0, <1>3 DEF Authentic, Grows, StageCell
  <2> QED
    BY <1>3, <2>5, <2>6 DEF Journal, PublishedPairsAreWhole, StageCell, artifacts
<1>4. ASSUME NEW p \in Process, NEW c \in Cell, Moves(p), Commit(p, c) PROVE Journal'
  <2>1. proc'[p].pc \in {"placePrediction", "next"}
    BY <1>4, GotoLabel, LeaveNext DEF Commit, LeaveFailed
  <2>2. \A d \in Cell : Prepared(p, d)'
    BY <2>1 DEF Prepared
  <2>3. \A q \in Process, d \in Cell : Current(q, d)' => Prepared(q, d)'
    BY <1>0, <1>4, <2>2, OthersStay, OthersPrepared
  <2>4. proc[p].work \in predictionPayloads[c] \cap cellPayloads[c]
    BY <1>4 DEF Journal, Prepared, Commit, At
  <2>5. \A d \in Cell : manifests'[d] # None => Authentic(d)'
    BY <1>4, <2>4 DEF Commit, Authentic, Journal, TypeOK, Found
  <2>6. \A d \in Cell : predictions[d] # None => manifests'[d] = manifests[d]
    <3>1. \A d \in Cell : predictions[d] # None => manifests[d] # None
      BY DEF Journal, PublishedPairsAreWhole
    <3> QED
      BY <1>0, <3>1 DEF Grows
  <2> QED
    BY <1>4, <2>3, <2>5, <2>6 DEF Journal, PublishedPairsAreWhole, Commit, artifacts
<1>5. ASSUME NEW p \in Process, NEW c \in Cell, Moves(p),
             PlacePrediction(p, c) \/ RecoverPrediction(p, c)
      PROVE  Journal'
  <2>1. UNCHANGED <<journal, cells>>
    BY <1>5 DEF PlacePrediction, RecoverPrediction
  <2>2. CASE Placeable(c, predictions[c])
    <3>1. /\ predictions' = [predictions EXCEPT ![c] = manifests[c]]
          /\ proc'[p].todo = proc[p].todo
      BY <1>5, <2>2, GotoLabel DEF PlacePrediction, RecoverPrediction
    <3>2. \A d \in Cell : Current(p, d)' => d = c
      BY <1>5, <3>1, CurrentUnique DEF Current, PlacePrediction, RecoverPrediction
    <3>3. Authentic(c)' /\ predictions'[c] = manifests'[c]
      BY <2>1, <2>2, <3>1 DEF Placeable, Authentic, TypeOK, Found, journal
    <3>4. proc'[p].pc \in {"placeCell", "recoverCell", "planningCell"}
      BY <1>5, <2>2, GotoLabel DEF PlacePrediction, RecoverPrediction
    <3>5. \A d \in Cell : Current(p, d)' => Prepared(p, d)'
      BY <3>2, <3>3, <3>4 DEF Prepared
    <3>6. \A q \in Process, d \in Cell : Current(q, d)' => Prepared(q, d)'
      BY <1>0, <1>5, <3>5, OthersStay, OthersPrepared
    <3>7. \A d \in Cell : /\ predictions'[d] # None => predictions'[d] = manifests'[d] /\ Authentic(d)'
                          /\ cells'[d] # None => cells'[d] = predictions'[d]
      BY <2>1, <2>2, <3>1, <3>3
         DEF Journal, PublishedPairsAreWhole, Placeable, Authentic, TypeOK, Found, journal
    <3> QED
      BY <2>1, <3>6, <3>7 DEF Journal, PublishedPairsAreWhole, Authentic, journal
  <2>3. CASE ~Placeable(c, predictions[c])
    <3>1. UNCHANGED <<journal, artifacts>>
      BY <1>5, <2>1, <2>3 DEF PlacePrediction, RecoverPrediction, artifacts
    <3>2. proc'[p].pc \in {"next", "idle", "evaluate"}
      BY <1>5, <2>3, ExitIdle, IdleType, GotoLabel, LeaveNext
         DEF PlacePrediction, RecoverPrediction, RecoveryRaises, LeaveFailed
    <3> QED
      BY <1>5, <3>1, <3>2, OthersStay, JournalFrame
  <2> QED
    BY <2>2, <2>3
<1>6. ASSUME NEW p \in Process, NEW c \in Cell, Moves(p), PlaceCell(p, c) \/ RecoverCell(p, c)
      PROVE  Journal'
  <2>1. UNCHANGED <<journal, predictions>>
    BY <1>6 DEF PlaceCell, RecoverCell
  <2>2. proc'[p].pc \notin {"stageCell", "commit", "recoverCell", "planningCell", "placeCell"}
    BY <1>6, ExitIdle, IdleType, GotoLabel, LeaveNext
       DEF PlaceCell, RecoverCell, RecoveryRaises, LeaveFailed, TypeOK, Invocation
  <2>3. \A q \in Process, d \in Cell : Current(q, d)' => Prepared(q, d)'
    BY <1>0, <1>6, <2>2, OthersStay, OthersPrepared DEF Prepared
  <2>4. predictions[c] = manifests[c]
    BY <1>6 DEF Journal, Prepared, PlaceCell, RecoverCell, At
  <2>5. \A d \in Cell : cells'[d] # None => cells'[d] = predictions'[d]
    BY <1>6, <2>1, <2>4 DEF PlaceCell, RecoverCell, Journal, PublishedPairsAreWhole, TypeOK, Found
  <2> QED
    BY <2>1, <2>3, <2>5 DEF Journal, PublishedPairsAreWhole, Authentic, journal
<1>7. CASE EditSources \/ UNCHANGED vars
  BY <1>7 DEF EditSources, vars, journal, artifacts,
              Journal, PublishedPairsAreWhole, Prepared, Authentic, Current
<1> QED
  BY <1>1, <1>2, <1>3, <1>4, <1>5, <1>6, <1>7, UnpreparedSteps DEF Next, Moves, Step, CellStep

(* A reader finds whole pairs only, whoever publishes, recovers or dies.   *)
THEOREM PairsAreWhole == Spec => []PublishedPairsAreWhole
<1>1. Init => TypeOK /\ Journal
  BY TypeInit, JournalInit
<1>2. TypeOK /\ Journal /\ [Next]_vars => TypeOK' /\ Journal'
  BY TypeStep, JournalStep
<1>3. Journal => PublishedPairsAreWhole
  BY DEF Journal
<1> QED
  BY <1>1, <1>2, <1>3, PTL DEF Spec

-----------------------------------------------------------------------------
(* The refinement.                                                         *)

LEMMA PublicationStep ==
  TypeOK /\ Journal /\ [Next]_vars => [Publication!Next]_(Publication!vars)
<1> SUFFICES ASSUME TypeOK, Journal, [Next]_vars,
                    ~UNCHANGED <<manifests, cells>>
             PROVE  Publication!Next
  BY DEF Publication!vars
<1> USE DEF journal, artifacts, records
<1>1. ASSUME NEW p \in Process, Moves(p), Unprepared(p) PROVE FALSE
  BY <1>1 DEF Unprepared
<1>2. ASSUME NEW p \in Process, NEW c \in Cell,
             \/ StagePrediction(p, c) \/ StageCell(p, c)
             \/ PlacePrediction(p, c) \/ RecoverPrediction(p, c)
      PROVE  FALSE
  BY <1>2 DEF StagePrediction, StageCell, PlacePrediction, RecoverPrediction
<1>3. ASSUME NEW p \in Process, NEW c \in Cell, Commit(p, c) PROVE Publication!Choose(c)
  <2>1. proc[p].work \in Outcome
    BY <1>3 DEF Commit, At, TypeOK, Invocation, Executing
  <2>2. /\ manifests' = [manifests EXCEPT ![c] = proc[p].work]
        /\ manifests[c] = None
        /\ UNCHANGED cells
    BY <1>3 DEF Commit, TypeOK, Found
  <2> QED
    BY <2>1, <2>2 DEF Publication!Choose, TypeOK, Found
<1>4. ASSUME NEW p \in Process, NEW c \in Cell, PlaceCell(p, c) \/ RecoverCell(p, c)
      PROVE  Publication!Show(c)
  <2>1. /\ Placeable(c, cells[c])
        /\ cells' = [cells EXCEPT ![c] = manifests[c]]
        /\ UNCHANGED manifests
    BY <1>4 DEF PlaceCell, RecoverCell
  <2>2. cells[c] = None
    BY <2>1 DEF Placeable, TypeOK, Found
  <2>3. manifests[c] # None
    BY <2>1, AuthenticIsThere DEF Placeable
  <2> QED
    BY <2>1, <2>2, <2>3 DEF Publication!Show
<1>5. CASE EditSources \/ UNCHANGED vars
  BY <1>5 DEF EditSources, vars
<1> QED
  BY <1>1, <1>2, <1>3, <1>4, <1>5, UnpreparedSteps DEF Next, Moves, Step, CellStep, Publication!Next

(* However invocations overlap and die, a cell has one outcome for good.   *)
THEOREM CellsArePublished == Spec => ImplementsPublication
<1>1. Init => TypeOK /\ Journal /\ Publication!Init
  BY TypeInit, JournalInit DEF Init, Nothing, Publication!Init
<1>2. TypeOK /\ Journal /\ [Next]_vars => TypeOK' /\ Journal'
  BY TypeStep, JournalStep
<1>3. TypeOK /\ Journal /\ [Next]_vars => [Publication!Next]_(Publication!vars)
  BY PublicationStep
<1> QED
  BY <1>1, <1>2, <1>3, PTL DEF Spec, ImplementsPublication, Publication!Spec

-----------------------------------------------------------------------------
(* The order of the batches.                                               *)

LEMMA OrderInit == Init => Order
<1> SUFFICES ASSUME Init PROVE Order
  OBVIOUS
<1>1. \A p \in Process : proc[p] = Idle
  BY DEF Init
<1>2. Idle.pc = "idle" /\ Idle.gate = Blocked
  BY DEF Idle, Begin
<1>3. \A d \in Cell : executed[d] = 0
  BY DEF Init
<1> QED
  BY <1>1, <1>2, <1>3 DEF Order, Looping, Executing, Blocked

LEMMA PrecedeStays == ASSUME Grows, NEW d \in Cell, Precede(d) PROVE Precede(d)'
BY DEF Grows, Precede

(* What is known of an invocation's gate and loop survives a step that     *)
(* begins no execution, if it survives in the invocation that takes it.    *)
OrderOf(p) ==
  /\ proc[p].pc \in Looping => \A d \in proc[p].todo : Precede(d)
  /\ proc[p].job.phase = "confirmatory" /\ proc[p].gate.ready =>
       \A c \in CellsOf("pilot") : cells[c] # None

LEMMA OrderFrame ==
  ASSUME TypeOK, Order, Grows, UNCHANGED executed, NEW p \in Process,
         \A q \in Process \ {p} : proc'[q] = proc[q], OrderOf(p)'
  PROVE  Order'
<1>1. \A d \in Cell : executed'[d] > 0 => Precede(d)'
  BY PrecedeStays DEF Order
<1>2. ASSUME NEW q \in Process \ {p} PROVE OrderOf(q)'
  <2>1. OrderOf(q) /\ proc'[q] = proc[q] /\ proc[q].todo \subseteq Cell
    BY DEF Order, OrderOf, TypeOK, Invocation
  <2> QED
    BY <2>1, PrecedeStays DEF OrderOf, Grows, CellsOf
<1> QED
  BY <1>1, <1>2 DEF Order, OrderOf

(* ... for instance because the gate stays and the loop only shrinks.      *)
LEMMA OrderShrinks ==
  ASSUME TypeOK, Order, Grows, UNCHANGED executed, NEW p \in Process,
         \A q \in Process \ {p} : proc'[q] = proc[q],
         proc'[p].job = proc[p].job, proc'[p].gate = proc[p].gate,
         \/ proc'[p].pc \notin Looping
         \/ proc[p].pc \in Looping /\ proc'[p].todo \subseteq proc[p].todo
  PROVE  Order'
<1>1. OrderOf(p) /\ proc[p].todo \subseteq Cell
  BY DEF Order, OrderOf, TypeOK, Invocation
<1>2. OrderOf(p)'
  BY <1>1, PrecedeStays DEF OrderOf, Grows, CellsOf
<1> QED
  BY <1>2, OrderFrame

(* Nothing is known of an idle invocation.                                 *)
LEMMA OrderIdle ==
  ASSUME TypeOK, Order, Grows, UNCHANGED executed, NEW p \in Process,
         \A q \in Process \ {p} : proc'[q] = proc[q], Exit(p)
  PROVE  Order'
<1>1. proc'[p].pc = "idle" /\ ~proc'[p].gate.ready
  BY ExitIdle DEF Idle, Begin, Blocked
<1> QED
  BY <1>1, OrderFrame DEF OrderOf, Looping, Executing

LEMMA OrderStep == TypeOK /\ Order /\ [Next]_vars => Order'
<1> SUFFICES ASSUME TypeOK, Order, [Next]_vars PROVE Order'
  OBVIOUS
<1>0. Grows
  BY GrowsStep
<1>1. ASSUME NEW p \in Process, Moves(p), UNCHANGED executed, Exit(p) PROVE Order'
  BY <1>0, <1>1, OthersStay, OrderIdle
<1>2. ASSUME NEW p \in Process, Moves(p), UNCHANGED executed,
             NEW label \in Label, Goto(p, label), proc[p].pc \in Looping \/ label \notin Looping
      PROVE  Order'
  BY <1>0, <1>2, OthersStay, OrderShrinks, GotoLabel
<1>3. ASSUME NEW p \in Process, NEW c \in Cell, Moves(p), UNCHANGED executed,
             Leave(p, c), proc[p].pc \in Looping
      PROVE  Order'
  BY <1>0, <1>3, OthersStay, OrderShrinks, LeaveNext
<1>4. ASSUME NEW p \in Process, NEW job \in Jobs, Start(p, job), Moves(p) PROVE Order'
  <2>1. proc'[p].pc = "recover" /\ ~proc'[p].gate.ready
    BY <1>4 DEF Start, Begin, Blocked, TypeOK
  <2> QED
    BY <1>0, <1>4, <2>1, OthersStay, OrderFrame DEF Start, OrderOf, Looping, Executing
<1>5. ASSUME NEW p \in Process, NEW c \in Cell, Moves(p), RecoverPrediction(p, c) PROVE Order'
  BY <1>1, <1>2, <1>5 DEF RecoverPrediction, RecoveryRaises, Label, Looping, Executing
<1>6. ASSUME NEW p \in Process, NEW c \in Cell, Moves(p), RecoverCell(p, c) PROVE Order'
  <2>1. CASE RecoveryRaises(p)
    BY <1>1, <1>2, <1>6, <2>1 DEF RecoverCell, RecoveryRaises, Label, Looping, Executing
  <2>2. CASE ~RecoveryRaises(p)
    <3>1. /\ proc'[p].pc \in {"recover", "planning"}
          /\ proc'[p].job = proc[p].job /\ proc'[p].gate = proc[p].gate
      BY <1>6, <2>2 DEF RecoverCell, TypeOK, Invocation
    <3> QED
      BY <1>0, <1>6, <3>1, OthersStay, OrderShrinks DEF RecoverCell, Looping, Executing
  <2> QED
    BY <2>1, <2>2
<1>7. ASSUME NEW p \in Process, Moves(p), InitializeEvidence(p) PROVE Order'
  <2>1. CASE Exit(p)
    BY <1>1, <1>7, <2>1 DEF InitializeEvidence
  <2>2. CASE ~Exit(p)
    <3>1. /\ proc'[p].pc \in {"planning", "evaluate"}
          /\ proc'[p].job = proc[p].job /\ proc'[p].gate = proc[p].gate
      BY <1>7, <2>2 DEF InitializeEvidence, TypeOK, Invocation
    <3> QED
      BY <1>0, <1>7, <3>1, OthersStay, OrderShrinks DEF InitializeEvidence, Looping, Executing
  <2> QED
    BY <2>1, <2>2
<1>8. ASSUME NEW p \in Process, Moves(p), EvaluatePreflight(p) PROVE Order'
  <2> DEFINE Gates(recovered) ==
               {Evaluation(proc[p].job.phase, recovered),
                [Evaluation(proc[p].job.phase, recovered) EXCEPT !.ready = FALSE]}
             Writes(gate) ==
               proc' = [proc EXCEPT ![p].pc = "preflight", ![p].todo = {}, ![p].gate = gate]
  <2>0. PICK recovered \in BOOLEAN : \E gate \in Gates(recovered) : Writes(gate)
    BY <1>8 DEF EvaluatePreflight
  <2>1. PICK gate \in Gates(recovered) : Writes(gate)
    BY <2>0
  <2>2. proc'[p].pc = "preflight" /\ proc'[p].gate = gate /\ proc'[p].job = proc[p].job
    BY <2>1 DEF TypeOK, Invocation
  <2>3. proc[p].job.phase = "confirmatory" /\ gate.ready => PilotAuthenticated
    BY <2>1 DEF Evaluation
  <2>4. PilotAuthenticated => \A c \in CellsOf("pilot") : cells[c] # None
    BY DEF PilotAuthenticated, Admissible
  <2>5. UNCHANGED <<cells, executed>>
    BY <1>8 DEF EvaluatePreflight, artifacts
  <2>6. OrderOf(p)'
    BY <2>2, <2>3, <2>4, <2>5 DEF OrderOf, Looping, Executing
  <2> QED
    BY <1>0, <1>8, <2>5, <2>6, OthersStay, OrderFrame
<1>9. ASSUME NEW p \in Process, Moves(p), WritePreflight(p) PROVE Order'
  BY <1>1, <1>2, <1>9 DEF WritePreflight, Label, Looping, Executing
<1>10. ASSUME NEW p \in Process, Moves(p), EnterPhase(p) PROVE Order'
  <2> DEFINE job == proc[p].job
  <2>1. UNCHANGED <<cells, executed>>
    BY <1>10 DEF EnterPhase, artifacts
  <2>2. CASE Admitted(job, proc[p].gate)
    <3>1. /\ proc'[p].todo = job.rows /\ proc'[p].job = job /\ proc'[p].gate = proc[p].gate
      BY <1>10, <2>2 DEF EnterPhase, TypeOK, Invocation
    <3>2. job \in AllJobs /\ proc[p].gate.ready
      BY <2>2 DEF Admitted, TypeOK, Invocation
    <3>3. ASSUME NEW d \in job.rows, NEW c \in Cell, Batch[c] < Batch[d] PROVE cells[c] # None
      <4>1. job.phase \in Phase /\ Batch[c] \in Nat /\ Batch[d] \in Nat
        BY <3>2, CommandCells, CampaignAssumption
      <4>2. job.phase = "confirmatory" /\ Batch[d] = job.batch
        BY <3>2, <3>3, <4>1, CommandCells, CampaignAssumption DEF Phase
      <4>3. CASE Batch[c] = 0
        <5>1. c \in CellsOf("pilot")
          BY <4>3 DEF CellsOf, PhaseOf
        <5> QED
          BY <3>2, <4>2, <5>1 DEF Order
      <4>4. CASE Batch[c] # 0
        <5>1. OrderKept(job.batch) /\ Batch[c] \in 1..(job.batch - 1)
          BY <2>2, <3>3, <4>1, <4>2, <4>4 DEF Admitted
        <5> QED
          BY <5>1 DEF OrderKept, Admissible
      <4> QED
        BY <4>3, <4>4
    <3>4. OrderOf(p)'
      BY <2>1, <3>1, <3>3 DEF OrderOf, Order, Precede
    <3> QED
      BY <1>0, <1>10, <2>1, <3>4, OthersStay, OrderFrame
  <2>3. CASE ~Admitted(job, proc[p].gate)
    BY <1>2, <1>10, <2>1, <2>3 DEF EnterPhase, Label, Looping, Executing
  <2> QED
    BY <2>2, <2>3
<1>11. ASSUME NEW p \in Process, Moves(p), DatasetFails(p) \/ Assess(p) \/ AuditCells(p) PROVE Order'
  <2>1. /\ proc'[p].pc \in {"assess", "summary", "publish"}
        /\ proc'[p].job = proc[p].job /\ proc'[p].gate = proc[p].gate
    BY <1>11 DEF DatasetFails, Assess, AuditCells, TypeOK, Invocation
  <2> QED
    BY <1>0, <1>11, <2>1, OthersStay, OrderShrinks DEF DatasetFails, Assess, AuditCells, Looping, Executing
<1>12. ASSUME NEW p \in Process, NEW c \in Cell, Moves(p), ResumeCell(p, c) PROVE Order'
  BY <1>2, <1>3, <1>12 DEF ResumeCell, LeaveFailed, At, Label, Looping, Executing
<1>13. ASSUME NEW p \in Process, NEW c \in Cell, Moves(p), ExecuteCell(p, c) PROVE Order'
  <2>1. /\ executed' = [executed EXCEPT ![c] = @ + 1]
        /\ UNCHANGED cells
        /\ proc[p].pc \in Looping
        /\ proc'[p].todo = proc[p].todo
        /\ proc'[p].job = proc[p].job
        /\ proc'[p].gate = proc[p].gate
    BY <1>13 DEF ExecuteCell, At, artifacts, TypeOK, Invocation, Looping, Executing
  <2>2. OrderOf(p) /\ Precede(c)
    BY <1>13 DEF ExecuteCell, Current, At, Order, OrderOf, Looping, Executing
  <2>3. \A d \in Cell : executed'[d] > 0 => Precede(d)
    BY <2>1, <2>2 DEF Order, TypeOK
  <2>4. ASSUME NEW q \in Process PROVE OrderOf(q)'
    <3>1. CASE q = p
      BY <2>1, <2>2, <3>1 DEF OrderOf, Precede, CellsOf
    <3>2. CASE q # p
      BY <1>13, <2>1, <3>2, OthersStay DEF Order, OrderOf, Precede, CellsOf
    <3> QED
      BY <3>1, <3>2
  <2> QED
    BY <2>1, <2>3, <2>4 DEF Order, OrderOf, Precede
<1>14. ASSUME NEW p \in Process, NEW c \in Cell, Moves(p), CellFails(p, c) PROVE Order'
  BY <1>3, <1>14 DEF CellFails, LeaveFailed, Looping
<1>15. ASSUME NEW p \in Process, NEW c \in Cell, Moves(p), StagePrediction(p, c) \/ StageCell(p, c)
       PROVE  Order'
  BY <1>2, <1>15 DEF StagePrediction, StageCell, At, Label, Looping, Executing
<1>16. ASSUME NEW p \in Process, NEW c \in Cell, Moves(p), Commit(p, c) PROVE Order'
  BY <1>2, <1>3, <1>16 DEF Commit, LeaveFailed, At, Label, Looping, Executing
<1>17. ASSUME NEW p \in Process, NEW c \in Cell, Moves(p), PlacePrediction(p, c) \/ PlaceCell(p, c)
       PROVE  Order'
  BY <1>2, <1>3, <1>17 DEF PlacePrediction, PlaceCell, LeaveFailed, At, Label, Looping, Executing
<1>18. ASSUME NEW p \in Process, Moves(p), WriteSummary(p) PROVE Order'
  BY <1>1, <1>2, <1>18 DEF WriteSummary, Label, Looping, Executing
<1>19. ASSUME NEW p \in Process, Moves(p), WriteBatchRecord(p) \/ PublishReport(p) \/ Crash(p)
       PROVE  Order'
  BY <1>1, <1>19 DEF WriteBatchRecord, PublishReport, Crash
<1>20. CASE EditSources \/ UNCHANGED vars
  BY <1>20 DEF EditSources, vars, artifacts, Order, Precede
<1> QED
  BY <1>4, <1>5, <1>6, <1>7, <1>8, <1>9, <1>10, <1>11, <1>12, <1>13, <1>14,
     <1>15, <1>16, <1>17, <1>18, <1>19, <1>20 DEF Next, Moves, Step, CellStep

(* No cell is executed before all earlier batches are published, although  *)
(* the checks of a loop were made before it began.                         *)
THEOREM BatchesFollow == Spec => []LaterBatchesFollowEarlier
<1>1. Init => TypeOK /\ Order
  BY TypeInit, OrderInit
<1>2. TypeOK /\ Order /\ [Next]_vars => TypeOK' /\ Order'
  BY TypeStep, OrderStep
<1>3. Order => LaterBatchesFollowEarlier
  BY DEF Order, Precede, LaterBatchesFollowEarlier
<1> QED
  BY <1>1, <1>2, <1>3, PTL DEF Spec

-----------------------------------------------------------------------------
(* The eligible records.                                                   *)

LEMMA ClaimsInit == Init => Claims
<1> SUFFICES ASSUME Init PROVE Claims
  OBVIOUS
<1>1. \A p \in Process : proc[p] = Idle
  BY DEF Init
<1>2. Idle.verdict = NoVerdict
  BY DEF Idle, Begin
<1>3. \A p \in Process : ~proc[p].verdict.eligible
  BY <1>1, <1>2 DEF NoVerdict
<1>4. summaries["confirmatory"] = None
  BY DEF Init, Phase
<1>5. ~(report = TRUE)
  BY CampaignAssumption DEF Init
<1> QED
  BY <1>3, <1>4, <1>5 DEF Claims

(* The recorded sources and the ledger are written once.                   *)
LEMMA ClaimStays == TypeOK /\ [Next]_vars /\ Claim => Claim'
<1> SUFFICES ASSUME TypeOK, [Next]_vars, Claim PROVE Claim'
  OBVIOUS
<1>1. Grows
  BY GrowsStep
<1>2. UNCHANGED <<recordedCore, ledger>>
  <2> USE DEF records, Claim
  <2>1. ASSUME NEW p \in Process, NEW c \in Cell, CellStep(p, c)
        PROVE  UNCHANGED <<recordedCore, ledger>>
    BY <2>1 DEF CellStep, RecoverPrediction, RecoverCell, ResumeCell, ExecuteCell, CellFails,
                StagePrediction, StageCell, Commit, PlacePrediction, PlaceCell
  <2>2. ASSUME NEW p \in Process, InitializeEvidence(p)
        PROVE  UNCHANGED <<recordedCore, ledger>>
    BY <2>2 DEF InitializeEvidence, TypeOK
  <2>3. ASSUME NEW p \in Process,
               \/ EvaluatePreflight(p) \/ WritePreflight(p)
               \/ EnterPhase(p) \/ DatasetFails(p)
               \/ Assess(p) \/ WriteSummary(p) \/ WriteBatchRecord(p)
               \/ AuditCells(p) \/ PublishReport(p) \/ Crash(p)
               \/ \E job \in Jobs : Start(p, job)
        PROVE  UNCHANGED <<recordedCore, ledger>>
    BY <2>3 DEF EvaluatePreflight, WritePreflight, EnterPhase, DatasetFails, Assess,
                WriteSummary, WriteBatchRecord, AuditCells, PublishReport, Crash, Start
  <2>4. CASE EditSources \/ UNCHANGED vars
    BY <2>4 DEF EditSources, vars
  <2> QED
    BY <2>1, <2>2, <2>3, <2>4 DEF Next, Step
<1> QED
  BY <1>1, <1>2 DEF Claim, Grows, CellsOf

(* An assessment that finds the phase eligible makes a true claim: the     *)
(* pilot was checked by the preflight that opened its gate.                *)
LEMMA VerdictClaims ==
  ASSUME TypeOK, Order, NEW p \in Process, Verdict(proc[p].job, proc[p].gate).eligible
  PROVE  Claim
<1> DEFINE authenticated == {c \in CellsOf(proc[p].job.phase) : Admissible(c, cells[c])}
<1>1. /\ proc[p].job.phase = "confirmatory"
      /\ proc[p].gate.ready
      /\ authenticated = CellsOf(proc[p].job.phase)
      /\ recordedCore = source
      /\ ledger
  BY DEF Verdict
<1>2. \A c \in CellsOf("confirmatory") : cells[c] # None /\ cells[c].core = source
  BY <1>1 DEF Admissible
<1>3. \A c \in CellsOf("pilot") : cells[c] # None
  BY <1>1 DEF Order
<1>4. \A c \in Cell : c \in CellsOf("pilot") \/ c \in CellsOf("confirmatory")
  BY DEF CellsOf, PhaseOf
<1>5. recordedCore # None
  BY <1>1, CampaignAssumption DEF TypeOK
<1> QED
  BY <1>1, <1>2, <1>3, <1>4, <1>5 DEF Claim

(* Only an assessment and an audit conclude anything.                      *)
LEMMA VerdictStays ==
  ASSUME TypeOK, NEW p \in Process, Moves(p), ~Assess(p), ~AuditCells(p)
  PROVE  proc'[p].verdict = proc[p].verdict \/ ~proc'[p].verdict.eligible
<1> DEFINE Same == proc'[p].verdict = proc[p].verdict \/ ~proc'[p].verdict.eligible
<1>1. Exit(p) => Same
  BY ExitIdle DEF Idle, Begin, NoVerdict
<1>2. \A label \in Label : Goto(p, label) => Same
  BY GotoLabel
<1>3. \A c \in Cell : Leave(p, c) => Same
  BY LeaveNext
<1>4. ASSUME NEW c \in Cell, RecoverPrediction(p, c) PROVE Same
  BY <1>1, <1>2, <1>4 DEF RecoverPrediction, RecoveryRaises, Label
<1>5. ASSUME NEW c \in Cell, RecoverCell(p, c) PROVE Same
  <2>1. CASE RecoveryRaises(p)
    BY <1>1, <1>2, <2>1 DEF RecoveryRaises, Label
  <2>2. CASE ~RecoveryRaises(p)
    BY <1>5, <2>2 DEF RecoverCell, TypeOK, Invocation
  <2> QED
    BY <2>1, <2>2
<1>6. ASSUME NEW c \in Cell, ResumeCell(p, c) \/ CellFails(p, c) PROVE Same
  BY <1>2, <1>3, <1>6 DEF ResumeCell, CellFails, LeaveFailed, Label, Executing
<1>7. ASSUME NEW c \in Cell, ExecuteCell(p, c) PROVE Same
  BY <1>7 DEF ExecuteCell, TypeOK, Invocation
<1>8. ASSUME NEW c \in Cell, StagePrediction(p, c) \/ StageCell(p, c) PROVE Same
  BY <1>2, <1>8 DEF StagePrediction, StageCell, Label, Executing
<1>9. ASSUME NEW c \in Cell, Commit(p, c) \/ PlacePrediction(p, c) \/ PlaceCell(p, c) PROVE Same
  BY <1>2, <1>3, <1>9 DEF Commit, PlacePrediction, PlaceCell, LeaveFailed, Label, Executing
<1>10. ASSUME InitializeEvidence(p) PROVE Same
  <2>1. CASE Exit(p)
    BY <1>1, <2>1
  <2>2. CASE ~Exit(p)
    BY <1>10, <2>2 DEF InitializeEvidence, TypeOK, Invocation
  <2> QED
    BY <2>1, <2>2
<1>11. ASSUME EvaluatePreflight(p) \/ DatasetFails(p) PROVE Same
  BY <1>11 DEF EvaluatePreflight, DatasetFails, TypeOK, Invocation
<1>12. ASSUME EnterPhase(p) PROVE Same
  <2>1. CASE Admitted(proc[p].job, proc[p].gate)
    BY <1>12, <2>1 DEF EnterPhase, TypeOK, Invocation
  <2>2. CASE ~Admitted(proc[p].job, proc[p].gate)
    BY <1>2, <1>12, <2>2 DEF EnterPhase, Label
  <2> QED
    BY <2>1, <2>2
<1>13. ASSUME WritePreflight(p) \/ WriteSummary(p) PROVE Same
  BY <1>1, <1>2, <1>13 DEF WritePreflight, WriteSummary, Label
<1>14. ASSUME WriteBatchRecord(p) \/ PublishReport(p) \/ Crash(p) PROVE Same
  BY <1>1, <1>14 DEF WriteBatchRecord, PublishReport, Crash
<1>15. ASSUME NEW job \in Jobs, Start(p, job) PROVE Same
  BY <1>15 DEF Start, Begin, NoVerdict, TypeOK
<1> QED
  BY <1>4, <1>5, <1>6, <1>7, <1>8, <1>9, <1>10, <1>11, <1>12, <1>13, <1>14, <1>15
     DEF Moves, Step, CellStep

(* Only WriteSummary and PublishReport publish a claim.                    *)
LEMMA RecordsStay ==
  ASSUME NEW p \in Process, Moves(p)
  PROVE  /\ ~WriteSummary(p) => UNCHANGED summaries
         /\ ~PublishReport(p) => UNCHANGED report
<1> USE DEF records
<1>1. ASSUME NEW c \in Cell, CellStep(p, c) PROVE UNCHANGED <<summaries, report>>
  BY <1>1 DEF CellStep, RecoverPrediction, RecoverCell, ResumeCell, ExecuteCell, CellFails,
              StagePrediction, StageCell, Commit, PlacePrediction, PlaceCell
<1> QED
  BY <1>1 DEF Moves, Step, InitializeEvidence, EvaluatePreflight, WritePreflight, EnterPhase,
              DatasetFails, Assess, WriteSummary, WriteBatchRecord, AuditCells, PublishReport,
              Crash, Start

LEMMA ClaimsStep == TypeOK /\ Order /\ Claims /\ [Next]_vars => Claims'
<1> SUFFICES ASSUME TypeOK, Order, Claims, [Next]_vars PROVE Claims'
  OBVIOUS
<1>1. Claim => Claim'
  BY ClaimStays
<1>2. ASSUME NEW p \in Process, Moves(p) PROVE Claims'
  <2>1. proc'[p].verdict.eligible => Claim
    <3>1. CASE Assess(p)
      <4>1. proc'[p].verdict.eligible => Verdict(proc[p].job, proc[p].gate).eligible
        <5> DEFINE verdict == Verdict(proc[p].job, proc[p].gate)
        <5>1. verdict \in Conclusion /\ Unread(verdict) \in Conclusion
          BY VerdictType DEF TypeOK, Invocation
        <5>2. ~Unread(verdict).eligible
          <6> HIDE DEF verdict
          <6> QED
            BY <5>1 DEF Unread, Conclusion
        <5>3. proc'[p].verdict \in {verdict, Unread(verdict)}
          <6> HIDE DEF verdict
          <6>1. PICK v \in {verdict, Unread(verdict)} :
                  proc' = [proc EXCEPT ![p].pc = "summary", ![p].verdict = v]
            BY <3>1 DEF Assess, verdict
          <6> QED
            BY <6>1 DEF TypeOK, Invocation
        <5> QED
          BY <5>2, <5>3
      <4> QED
        BY <4>1, VerdictClaims
    <3>2. CASE AuditCells(p)
      <4>1. proc'[p].verdict.eligible => Eligible
        BY <3>2 DEF AuditCells, TypeOK, Invocation, Conclusion
      <4> QED
        BY <4>1 DEF Eligible, Claims
    <3>3. CASE ~Assess(p) /\ ~AuditCells(p)
      BY <1>2, <3>3, VerdictStays DEF Claims
    <3> QED
      BY <3>1, <3>2, <3>3
  <2>2. \A q \in Process : proc'[q].verdict.eligible => Claim
    BY <1>2, <2>1, OthersStay DEF Claims
  <2>3. summaries'["confirmatory"] # None /\ summaries'["confirmatory"].eligible => Claim
    <3>1. CASE WriteSummary(p)
      BY <3>1 DEF WriteSummary, Claims, TypeOK
    <3>2. CASE ~WriteSummary(p)
      BY <1>2, <3>2, RecordsStay DEF Claims
    <3> QED
      BY <3>1, <3>2
  <2>4. report' = TRUE => Claim
    <3>1. CASE PublishReport(p)
      BY <3>1 DEF PublishReport, Claims, TypeOK
    <3>2. CASE ~PublishReport(p)
      BY <1>2, <3>2, RecordsStay DEF Claims
    <3> QED
      BY <3>1, <3>2
  <2> QED
    BY <1>1, <2>2, <2>3, <2>4 DEF Claims
<1>3. CASE EditSources \/ UNCHANGED vars
  BY <1>1, <1>3 DEF EditSources, vars, records, Claims
<1> QED
  BY <1>2, <1>3 DEF Next, Moves

(* A record that says the campaign is eligible is true, for good.          *)
THEOREM ClaimsHold == Spec => []EligibleClaimsHold
<1>1. Init => TypeOK /\ Order /\ Claims
  BY TypeInit, OrderInit, ClaimsInit
<1>2. TypeOK /\ Order /\ Claims /\ [Next]_vars => TypeOK' /\ Order' /\ Claims'
  BY TypeStep, OrderStep, ClaimsStep
<1>3. Claims => EligibleClaimsHold
  BY DEF Claims, Claim, EligibleClaimsHold
<1> QED
  BY <1>1, <1>2, <1>3, PTL DEF Spec

-----------------------------------------------------------------------------
(* The accounts of a run.                                                  *)

LEMMA AccountsInit == Init => Accounts
<1> SUFFICES ASSUME Init PROVE Accounts
  OBVIOUS
<1>1. \A p \in Process : proc[p].pc = "idle"
  BY IdleType DEF Init
<1> QED
  BY <1>1 DEF Accounts, Dealt, Looping, Executing

LEMMA FailuresGrow == ASSUME NEW p \in Process, Moves(p) PROVE failures \subseteq failures'
<1> USE DEF records
<1>1. ASSUME NEW c \in Cell, CellStep(p, c) PROVE failures \subseteq failures'
  BY <1>1 DEF CellStep, RecoverPrediction, RecoverCell, ResumeCell, ExecuteCell, CellFails,
              StagePrediction, StageCell, Commit, PlacePrediction, PlaceCell, LeaveFailed
<1> QED
  BY <1>1 DEF Moves, Step, InitializeEvidence, EvaluatePreflight, WritePreflight, EnterPhase,
              DatasetFails, Assess, WriteSummary, WriteBatchRecord, AuditCells, PublishReport,
              Crash, Start

(* It is enough that a step accounts for the cells it deals with itself.   *)
LEMMA AccountsFrame ==
  ASSUME TypeOK, Accounts, Grows, NEW p \in Process, Moves(p),
         \A c \in Dealt(p)' : c \in Dealt(p) \/ cells'[c] # None \/ c \in failures'
  PROVE  Accounts'
<1>1. ASSUME NEW q \in Process, NEW c \in Dealt(q) PROVE cells'[c] # None \/ c \in failures'
  <2>1. proc[q].job.rows \subseteq Cell
    BY CommandCells DEF TypeOK, Invocation
  <2>2. c \in Cell
    BY <2>1 DEF Dealt
  <2> QED
    BY <2>2, FailuresGrow DEF Accounts, Grows
<1>2. ASSUME NEW q \in Process \ {p} PROVE Dealt(q)' = Dealt(q)
  BY OthersStay DEF Dealt
<1> QED
  BY <1>1, <1>2 DEF Accounts

LEMMA AccountsStep == TypeOK /\ Accounts /\ [Next]_vars => Accounts'
<1> SUFFICES ASSUME TypeOK, Accounts, [Next]_vars PROVE Accounts'
  OBVIOUS
<1>0. Grows
  BY GrowsStep
<1>1. ASSUME NEW p \in Process, Moves(p), Exit(p) PROVE Accounts'
  <2>1. Dealt(p)' = {}
    BY <1>1, ExitIdle, IdleType DEF Dealt, Looping, Executing
  <2> QED
    BY <1>0, <1>1, <2>1, AccountsFrame
<1>2. ASSUME NEW p \in Process, Moves(p), proc'[p].pc \notin Looping \cup {"assess", "summary"}
      PROVE  Accounts'
  <2>1. Dealt(p)' = {}
    BY <1>2 DEF Dealt
  <2> QED
    BY <1>0, <1>2, <2>1, AccountsFrame
<1>3. ASSUME NEW p \in Process, Moves(p), NEW label \in Looping,
             Goto(p, label), proc[p].pc \in Looping
      PROVE  Accounts'
  <2>1. Dealt(p)' = Dealt(p)
    BY <1>3, GotoLabel DEF Dealt, Looping, Executing
  <2> QED
    BY <1>0, <1>3, <2>1, AccountsFrame
<1>4. ASSUME NEW p \in Process, NEW c \in Cell, Moves(p), proc[p].pc \in Looping,
             Leave(p, c), cells'[c] # None \/ c \in failures'
      PROVE  Accounts'
  <2>1. Dealt(p)' \subseteq Dealt(p) \cup {c}
    BY <1>4, LeaveNext DEF Dealt, Looping
  <2> QED
    BY <1>0, <1>4, <2>1, AccountsFrame
<1>5. ASSUME NEW p \in Process, NEW c \in Cell, Moves(p), LeaveFailed(p, c), proc[p].pc \in Looping
      PROVE  Accounts'
  BY <1>4, <1>5 DEF LeaveFailed
<1>6. ASSUME NEW p \in Process, NEW c \in Cell, Moves(p), RecoverPrediction(p, c) \/ RecoverCell(p, c)
      PROVE  Accounts'
  <2>1. proc'[p].pc \in {"idle", "recoverCell", "planningCell", "recover", "planning", "evaluate"}
    <3>1. CASE RecoveryRaises(p)
      BY <3>1, ExitIdle, IdleType, GotoLabel DEF RecoveryRaises
    <3>2. CASE ~RecoveryRaises(p) /\ RecoverPrediction(p, c)
      BY <3>2, GotoLabel DEF RecoverPrediction
    <3>3. CASE ~RecoveryRaises(p) /\ RecoverCell(p, c)
      BY <3>3 DEF RecoverCell, TypeOK, Invocation
    <3> QED
      BY <1>6, <3>1, <3>2, <3>3
  <2> QED
    BY <1>2, <1>6, <2>1 DEF Looping, Executing
<1>7. ASSUME NEW p \in Process, Moves(p), InitializeEvidence(p) PROVE Accounts'
  <2>1. CASE Exit(p)
    BY <1>1, <1>7, <2>1
  <2>2. CASE ~Exit(p)
    <3>1. proc'[p].pc \in {"planning", "evaluate"}
      BY <1>7, <2>2 DEF InitializeEvidence, TypeOK, Invocation
    <3> QED
      BY <1>2, <1>7, <3>1 DEF Looping, Executing
  <2> QED
    BY <2>1, <2>2
<1>8. ASSUME NEW p \in Process, Moves(p),
             \/ EvaluatePreflight(p) \/ WritePreflight(p) \/ WriteSummary(p) \/ WriteBatchRecord(p)
             \/ AuditCells(p) \/ PublishReport(p) \/ Crash(p) \/ \E job \in Jobs : Start(p, job)
      PROVE  Accounts'
  <2>1. EvaluatePreflight(p) \/ AuditCells(p) => proc'[p].pc \in {"preflight", "publish"}
    BY DEF EvaluatePreflight, AuditCells, TypeOK, Invocation
  <2>2. WritePreflight(p) \/ WriteSummary(p) => proc'[p].pc \in {"gate", "batch", "idle"}
    BY ExitIdle, IdleType, GotoLabel DEF WritePreflight, WriteSummary
  <2>3. WriteBatchRecord(p) \/ PublishReport(p) \/ Crash(p) => Exit(p)
    BY DEF WriteBatchRecord, PublishReport, Crash
  <2>4. ASSUME NEW job \in Jobs, Start(p, job) PROVE proc'[p].pc = "recover"
    BY <2>4 DEF Start, Begin, TypeOK
  <2> QED
    BY <1>1, <1>2, <1>8, <2>1, <2>2, <2>3, <2>4 DEF Looping, Executing
<1>9. ASSUME NEW p \in Process, Moves(p), EnterPhase(p) PROVE Accounts'
  <2>1. CASE Admitted(proc[p].job, proc[p].gate)
    <3>1. proc'[p].pc = "next" /\ proc'[p].todo = proc'[p].job.rows
      BY <1>9, <2>1 DEF EnterPhase, TypeOK, Invocation
    <3>2. Dealt(p)' = {}
      BY <3>1 DEF Dealt, Looping
    <3> QED
      BY <1>0, <1>9, <3>2, AccountsFrame
  <2>2. CASE ~Admitted(proc[p].job, proc[p].gate)
    <3>1. /\ proc'[p].pc = "assess" /\ proc'[p].job = proc[p].job
          /\ failures' = failures \cup proc[p].job.rows
      BY <1>9, <2>2, GotoLabel DEF EnterPhase
    <3>2. Dealt(p)' = proc[p].job.rows
      BY <3>1 DEF Dealt, Looping, Executing
    <3> QED
      BY <1>0, <1>9, <3>1, <3>2, AccountsFrame
  <2> QED
    BY <2>1, <2>2
<1>10. ASSUME NEW p \in Process, Moves(p), DatasetFails(p) PROVE Accounts'
  <2>1. /\ proc'[p].pc = "assess" /\ proc'[p].job = proc[p].job
        /\ failures' = failures \cup proc[p].job.rows
    BY <1>10 DEF DatasetFails, TypeOK, Invocation
  <2>2. Dealt(p)' = proc[p].job.rows
    BY <2>1 DEF Dealt, Looping, Executing
  <2> QED
    BY <1>0, <1>10, <2>1, <2>2, AccountsFrame
<1>11. ASSUME NEW p \in Process, Moves(p), Assess(p) PROVE Accounts'
  <2>1. proc'[p].pc = "summary" /\ proc'[p].job = proc[p].job
    BY <1>11 DEF Assess, TypeOK, Invocation
  <2>2. Dealt(p)' = proc[p].job.rows
    BY <2>1 DEF Dealt, Looping, Executing
  <2>3. Dealt(p) = proc[p].job.rows
    BY <1>11 DEF Assess, At, Dealt, Looping, Executing
  <2> QED
    BY <1>0, <1>11, <2>2, <2>3, AccountsFrame
<1>12. ASSUME NEW p \in Process, NEW c \in Cell, Moves(p), ResumeCell(p, c) PROVE Accounts'
  <2>1. CASE cells[c] = None
    BY <1>3, <1>12, <2>1 DEF ResumeCell, At, Looping, Executing
  <2>2. CASE cells[c] # None
    <3>1. cells'[c] # None
      BY <1>0, <2>2 DEF Grows
    <3>2. Leave(p, c)
      BY <1>12, <2>2 DEF ResumeCell, LeaveFailed
    <3> QED
      BY <1>4, <1>12, <3>1, <3>2 DEF ResumeCell, At, Looping
  <2> QED
    BY <2>1, <2>2
<1>13. ASSUME NEW p \in Process, NEW c \in Cell, Moves(p), ExecuteCell(p, c) PROVE Accounts'
  <2>1. /\ proc'[p].pc \in Looping /\ proc[p].pc \in Looping
        /\ proc'[p].job = proc[p].job /\ proc'[p].todo = proc[p].todo
    BY <1>13 DEF ExecuteCell, At, TypeOK, Invocation, Looping, Executing
  <2>2. Dealt(p)' = Dealt(p)
    BY <2>1 DEF Dealt, Looping, Executing
  <2> QED
    BY <1>0, <1>13, <2>2, AccountsFrame
<1>14. ASSUME NEW p \in Process, NEW c \in Cell, Moves(p), CellFails(p, c) PROVE Accounts'
  BY <1>5, <1>14 DEF CellFails, Looping
<1>15. ASSUME NEW p \in Process, NEW c \in Cell, Moves(p),
              \/ StagePrediction(p, c) \/ StageCell(p, c)
              \/ Commit(p, c) \/ PlacePrediction(p, c)
       PROVE  Accounts'
  BY <1>3, <1>5, <1>15
     DEF StagePrediction, StageCell, Commit, PlacePrediction, At, Looping, Executing
<1>16. ASSUME NEW p \in Process, NEW c \in Cell, Moves(p), PlaceCell(p, c) PROVE Accounts'
  <2>1. proc[p].pc \in Looping
    BY <1>16 DEF PlaceCell, At, Looping, Executing
  <2>2. CASE Placeable(c, cells[c])
    <3>1. cells'[c] # None
      BY <1>16, <2>2, AuthenticIsThere DEF PlaceCell, Placeable, TypeOK, Found
    <3> QED
      BY <1>4, <1>16, <2>1, <2>2, <3>1 DEF PlaceCell
  <2>3. CASE ~Placeable(c, cells[c])
    BY <1>5, <1>16, <2>1, <2>3 DEF PlaceCell
  <2> QED
    BY <2>2, <2>3
<1>17. CASE EditSources \/ UNCHANGED vars
  BY <1>17 DEF EditSources, vars, records, artifacts, Accounts, Dealt
<1> QED
  BY <1>6, <1>7, <1>8, <1>9, <1>10, <1>11, <1>12, <1>13, <1>14, <1>15, <1>16, <1>17
     DEF Next, Moves, Step, CellStep

(* A run that comes to its summary has accounted for all its cells.        *)
THEOREM RunsAccount == Spec => EndedRunsAccountForCells
<1>1. Init => TypeOK /\ Accounts
  BY TypeInit, AccountsInit
<1>2. TypeOK /\ Accounts /\ [Next]_vars => TypeOK' /\ Accounts'
  BY TypeStep, AccountsStep
<1> DEFINE Ends == \A p \in Process :
                     WriteSummary(p) => \A c \in proc[p].job.rows : cells[c] # None \/ c \in failures
<1>3. Accounts => Ends
  BY DEF Accounts, Dealt, WriteSummary, At, Looping, Executing
<1>4. TypeOK /\ Accounts /\ [Next]_vars => [Ends]_vars
  BY <1>3
<1> HIDE DEF Ends
<1>5. Spec => [][Ends]_vars
  BY <1>1, <1>2, <1>4, PTL DEF Spec
<1> QED
  BY <1>5 DEF EndedRunsAccountForCells, Ends
================================================================================
