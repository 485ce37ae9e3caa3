---------------------------- MODULE PhaseIsolation ----------------------------
(***************************************************************************)
(* academic_protocol.py, _load_lid_ds_2021, with the gates of              *)
(* academic_runner.py that use it: which recordings of a corpus a phase of *)
(* the campaign selects, so that the partitions of a phase, and the pilot  *)
(* and the confirmatory phase, have no content in common.                  *)
(*                                                                         *)
(* The corpus is files in strata (a scenario and a native role).  A load   *)
(* reads each stratum in an order that depends on the file names only and  *)
(* keeps Cap recordings from a rank on.  Files hold copies of each other   *)
(* under other names, and change while the campaign runs; pilot and        *)
(* confirmatory phase load in invocations days apart.  The confirmatory    *)
(* phase therefore repeats the pilot's selection twice, to compare it with *)
(* the pilot's cells and to reserve its content, and compares what it      *)
(* selects with the manifest of the pilot's preflight.                     *)
(*                                                                         *)
(* Method disjoint-content-priority-slices-v2 with validated intervals.    *)
(* One invocation at a time; AcademicRunner has the other gates.           *)
(***************************************************************************)
EXTENDS Naturals, Sequences, FiniteSets

CONSTANTS
  Depth,           \* Depth[s]: the names of files stratum s may have, by rank
  Scenario,        \* Scenario[s]: the class of the attacks in stratum s
  Fit,             \* the strata of training and validation
  Cap,             \* Cap[phase]: recordings to keep of a stratum
  Offset,          \* Offset[phase][s]: rank of the first one kept
  Content,         \* what a file may hold
  Corpora,         \* the corpora a campaign may start with
  None,            \* no file, no record; the sample of an empty recording
  MaxChanges,      \* bound of changes of the corpus
  MaxInvocations   \* bound of invocations

VARIABLES
  corpus,       \* corpus[a]: what file a holds
  manifest,     \* units the pilot's preflight.json names, if it is ready
  pilotCells,   \* the selections the published pilot cells are bound to
  job,          \* the invocation that runs
  load,         \* its _load_lid_ds_2021
  admitted,     \* the confirmatory selection admitted last
  changes,      \* changes of the corpus so far
  invocations   \* invocations so far

vars == <<corpus, manifest, pilotCells, job, load, admitted, changes, invocations>>

Phase == {"pilot", "confirmatory"}
Stratum == 1..Len(Depth)
Archive == UNION {{s} \X (1..Depth[s]) : s \in Stratum}
Kind == {"pilotPreflight", "pilotRun", "confirmatoryRun"}

(* Records: a recording as a selection knows it, a pass of a load over the *)
(* strata, an invocation, steady while the corpus has not changed, and an  *)
(* admission: what was compared, with the pilot planned with.              *)
Units ==
  [archive : Archive,
   stream : {content.stream : content \in Content},
   sample : {content.sample : content \in Content},
   meaning : {Scenario[s] : s \in Stratum} \cup {"Normal"}]

Passes ==
  [phase : Phase, name : {"select", "reserve"}, stratum : Nat,
   queue : (SUBSET Archive) \cup {None},
   inventory : [Stratum -> {Cardinality(files) : files \in SUBSET Archive} \cup {0}],
   before : Nat, retained : Nat,
   taken : SUBSET Units, copies : SUBSET Units, reserved : SUBSET Units,
   parsed : [Archive -> Content \cup {None}]]

Invocations == [kind : Kind, planned : (SUBSET Units) \cup {None}, steady : BOOLEAN]

Admissions ==
  [units : SUBSET Units, pilot : (SUBSET Units) \cup {None}, against : SUBSET Units,
   steady : BOOLEAN]

Interval(phase, s) == Offset[phase][s]..(Offset[phase][s] + Cap[phase] - 1)

(* _validate_phase_allocation_shape, _phase_allocation_audit: counts are   *)
(* positive and equal the caps, and the two phases' intervals of ranks are *)
(* disjoint in every stratum.                                              *)
ASSUME AllocationAssumption ==
  /\ Depth \in Seq(Nat)
  /\ Fit \subseteq Stratum
  /\ Cap \in [Phase -> Nat \ {0}]
  /\ Offset \in [Phase -> [Stratum -> Nat]]
  /\ \A s \in Stratum : Interval("pilot", s) \cap Interval("confirmatory", s) = {}
  /\ None \notin Content \cup Passes \cup Invocations \cup Admissions
  /\ \A files \in SUBSET Archive : files # None
  /\ Corpora \subseteq [Archive -> Content \cup {None}]
  /\ MaxChanges \in Nat
  /\ MaxInvocations \in Nat

(* A pass of a load over the strata, with nothing read of them yet.        *)
Pass(phase, name, reserved, parsed) ==
  [phase |-> phase, name |-> name, stratum |-> 1, queue |-> None,
   inventory |-> [s \in Stratum |-> 0], before |-> 0, retained |-> 0,
   taken |-> {}, copies |-> {}, reserved |-> reserved, parsed |-> parsed]
Unparsed == [a \in Archive |-> None]
PilotPass == Pass("pilot", "select", {}, Unparsed)

Init ==
  /\ corpus \in Corpora
  /\ manifest = None
  /\ pilotCells = {}
  /\ job = None
  /\ load = None
  /\ admitted = None
  /\ changes = 0
  /\ invocations = 0

-----------------------------------------------------------------------------
(* _project_lid_consumed_archive, once per load (project_archive): what a  *)
(* load sees of file a.                                                    *)
Projection(a) == IF load.parsed[a] # None THEN load.parsed[a] ELSE corpus[a]

(* The recording in file a.  Its sample is drawn with its path, so copies  *)
(* of one stream may have other samples, and two streams the same one.     *)
UnitOf(a, content) ==
  [archive |-> a,
   stream |-> content.stream,
   sample |-> content.sample,
   meaning |-> IF content.attack THEN Scenario[a[1]] ELSE "Normal"]

Unit(a) == UnitOf(a, Projection(a))

Alike(u, v) == u.stream = v.stream \/ u.sample = v.sample
CopyOf(u, known) == \E v \in known : Alike(u, v)

(* require_consistent_content_semantics *)
Contradicts(u, known) == \E v \in known : Alike(u, v) /\ u.meaning # v.meaning

Slip_Shared(units, others) ==
  \E u \in units, v \in others : u.archive = v.archive

(* _observed_phase_disjointness: the identities two manifests share.       *)
Shared(units, others) ==
  \E u \in units, v \in others : u.archive = v.archive \/ Alike(u, v)

(* The inventory and the units of a selection, which a cell's descriptor   *)
(* is bound to through the identity of its dataset.  Without the list of   *)
(* empty recordings it also has, the planning gate admits no less.         *)
Selection == [units |-> load.taken, inventory |-> load.inventory]

-----------------------------------------------------------------------------
(* A command starts; each begins with a load of the pilot's selection, the *)
(* confirmatory one in its planning gate.                                  *)
Begin(kind) ==
  /\ job = None
  /\ invocations < MaxInvocations
  /\ invocations' = invocations + 1
  /\ job' = [kind |-> kind, planned |-> None, steady |-> TRUE]
  /\ load' = PilotPass
  /\ UNCHANGED <<corpus, manifest, pilotCells, admitted, changes>>

End == job' = None /\ load' = None

(* The load raises: the preflight is blocked, and the pilot's replaced.    *)
LoadFails ==
  /\ End
  /\ manifest' = IF job.kind = "confirmatoryRun" THEN manifest ELSE None

Continue(pass) == load' = pass /\ UNCHANGED <<manifest, job>>

(* The files of the next stratum, of which there must be some. *)
ListStratum ==
  /\ load # None
  /\ load.queue = None
  /\ load.stratum \in Stratum
  /\ LET present == {a \in Archive : a[1] = load.stratum /\ corpus[a] # None}
     IN IF present = {}
        THEN LoadFails
        ELSE Continue([load EXCEPT !.queue = present,
                                   !.inventory[load.stratum] = Cardinality(present),
                                   !.before = 0, !.retained = 0])
  /\ UNCHANGED <<corpus, pilotCells, admitted, changes, invocations>>

(* The load is at file a, the first by rank of those it has left. *)
Reading(a) ==
  /\ load # None
  /\ load.queue # None
  /\ load.retained < Cap[load.phase]
  /\ a \in load.queue
  /\ \A b \in load.queue : a[2] <= b[2]

Beyond(a) == [load EXCEPT !.queue = @ \ {a}, !.parsed[a] = Projection(a)]

IsEmpty(a) == Projection(a).sample = None
InSlice == load.before >= Offset[load.phase][load.stratum]

(* A file that is gone by now, and was not read before, is malformed. *)
ReadFails(a) ==
  /\ Reading(a)
  /\ Projection(a) = None
  /\ LoadFails
  /\ UNCHANGED <<corpus, pilotCells, admitted, changes, invocations>>

(* Empty recordings do not count; others before the slice only count. *)
SkipArchive(a) ==
  /\ Reading(a)
  /\ Projection(a) # None
  /\ IsEmpty(a) \/ ~InSlice
  /\ Continue([Beyond(a) EXCEPT !.before = IF IsEmpty(a) THEN @ ELSE @ + 1])
  /\ UNCHANGED <<corpus, pilotCells, admitted, changes, invocations>>

Candidate(a) == Reading(a) /\ Projection(a) # None /\ ~IsEmpty(a) /\ InSlice

Unfit(u) == u.archive[1] \in Fit /\ u.meaning # "Normal"
Counted(a) == [Beyond(a) EXCEPT !.before = @ + 1]
Kept(a) == [Counted(a) EXCEPT !.taken = @ \cup {Unit(a)}, !.retained = @ + 1]

Slip_ReserveArchive(a) ==
  /\ load # None /\ load.name = "reserve"
  /\ Candidate(a)
  /\ IF Unfit(Unit(a)) \/ Contradicts(Unit(a), load.taken)
     THEN LoadFails
     ELSE Continue(Kept(a))
  /\ UNCHANGED <<corpus, pilotCells, admitted, changes, invocations>>

(* reserved_pilot_content_semantics: the loop that repeats the pilot's     *)
(* selection to know the content it holds.                                 *)
ReserveArchive(a) ==
  /\ load # None /\ load.name = "reserve"
  /\ Candidate(a)
  /\ LET u == Unit(a)
     IN IF Unfit(u) \/ Contradicts(u, load.taken)
        THEN LoadFails
        ELSE Continue(IF CopyOf(u, load.taken) THEN Counted(a) ELSE Kept(a))
  /\ UNCHANGED <<corpus, pilotCells, admitted, changes, invocations>>

(* Content this selection has, from whatever stratum. *)
Slip_Selected == {u \in load.taken : u.archive[1] = load.stratum}
Selected == load.taken

Slip_Rejected(u) == Unfit(u)

(* What a selection refuses: attacks to be fitted on, and content that is  *)
(* known with another meaning, from the pilot or else from this selection. *)
Rejected(u) ==
  \/ Unfit(u)
  \/ IF CopyOf(u, load.reserved) THEN Contradicts(u, load.reserved) ELSE Contradicts(u, Selected)

Slip_PassedOver(u) == (\E v \in load.reserved : u.stream = v.stream) \/ CopyOf(u, Selected)
PassedOver(u) == CopyOf(u, load.reserved) \/ CopyOf(u, Selected)

(* _load_lid_ds_2021, the loop that selects: copies of reserved or of      *)
(* selected recordings are passed over, and counted.                       *)
SelectArchive(a) ==
  /\ load # None /\ load.name = "select"
  /\ Candidate(a)
  /\ LET u == Unit(a)
     IN CASE Rejected(u) -> LoadFails
          [] ~Rejected(u) /\ PassedOver(u) ->
               Continue([Counted(a) EXCEPT !.copies = @ \cup {u}])
          [] OTHER -> Continue(Kept(a))
  /\ UNCHANGED <<corpus, pilotCells, admitted, changes, invocations>>

(* A stratum is done when it gave the recordings it owes, or fails to. *)
CloseStratum ==
  /\ load # None
  /\ load.queue # None
  /\ load.retained = Cap[load.phase] \/ load.queue = {}
  /\ IF load.retained < Cap[load.phase]
     THEN LoadFails
     ELSE Continue([load EXCEPT !.stratum = @ + 1, !.queue = None])
  /\ UNCHANGED <<corpus, pilotCells, admitted, changes, invocations>>

Done(pass) == load # None /\ load.stratum = Len(Depth) + 1 /\ load.name = pass

FinishReservation ==
  /\ Done("reserve")
  /\ Continue(Pass("confirmatory", "select", load.taken, load.parsed))
  /\ UNCHANGED <<corpus, pilotCells, admitted, changes, invocations>>

-----------------------------------------------------------------------------
(* _deduplicate_content_units must find nothing to drop. *)
Unique == Cardinality({u.stream : u \in load.taken}) = Cardinality(load.taken)

(* run_preflight of the pilot: the manifest names the units; a run goes on *)
(* with the same dataset (_prepare_one_dataset keeps it) to publish cells. *)
FinishPilot ==
  /\ Done("select")
  /\ job.kind # "confirmatoryRun"
  /\ IF Unique
     THEN /\ manifest' = load.taken
          /\ pilotCells' = IF job.kind = "pilotRun" THEN pilotCells \cup {Selection} ELSE pilotCells
          /\ End
     ELSE LoadFails /\ UNCHANGED pilotCells
  /\ UNCHANGED <<corpus, admitted, changes, invocations>>

(* _repetition_planning_gate, _expected_descriptors: the pilot's cells are *)
(* exactly the ones of its selection from the files as they are now.       *)
FinishPlanning ==
  /\ Done("select")
  /\ job.kind = "confirmatoryRun"
  /\ load.phase = "pilot"
  /\ IF Unique /\ pilotCells = {Selection}
     THEN /\ load' = Pass("pilot", "reserve", {}, Unparsed)
          /\ job' = [job EXCEPT !.planned = load.taken]
     ELSE End
  /\ UNCHANGED <<corpus, manifest, pilotCells, admitted, changes, invocations>>

(* run_preflight of the confirmatory phase, _observed_phase_disjointness.  *)
FinishConfirmatory ==
  /\ Done("select")
  /\ load.phase = "confirmatory"
  /\ admitted' = IF Unique /\ manifest # None /\ ~Shared(load.taken, manifest)
                 THEN [units |-> load.taken, pilot |-> job.planned,
                       against |-> manifest, steady |-> job.steady]
                 ELSE admitted
  /\ End
  /\ UNCHANGED <<corpus, manifest, pilotCells, changes, invocations>>

-----------------------------------------------------------------------------
(* A file of the corpus appears, disappears or is replaced. *)
ChangeCorpus(a) ==
  /\ changes < MaxChanges
  /\ changes' = changes + 1
  /\ corpus' \in {[corpus EXCEPT ![a] = content] : content \in (Content \cup {None}) \ {corpus[a]}}
  /\ job' = IF load = None THEN job ELSE [job EXCEPT !.steady = FALSE]
  /\ UNCHANGED <<manifest, pilotCells, load, admitted, invocations>>

Read(a) == ReadFails(a) \/ SkipArchive(a) \/ ReserveArchive(a) \/ SelectArchive(a)

Next ==
  \/ \E kind \in Kind : Begin(kind)
  \/ ListStratum \/ CloseStratum
  \/ \E a \in Archive : Read(a) \/ ChangeCorpus(a)
  \/ FinishReservation \/ FinishPilot \/ FinishPlanning \/ FinishConfirmatory

Spec == Init /\ [][Next]_vars

-----------------------------------------------------------------------------
(* Properties. *)

(* Type correctness: a load runs for an invocation only, and manifests and *)
(* admissions name recordings (_load_lid_ds_2021, run_preflight).          *)
TypeOK ==
  /\ corpus \in [Archive -> Content \cup {None}]
  /\ manifest \in (SUBSET Units) \cup {None}
  /\ admitted \in Admissions \cup {None}
  /\ load \in Passes \cup {None}
  /\ load # None => job \in Invocations

(* No two recordings of a selection, of one partition or of two, share a   *)
(* stream or a sample, although copies lie in different scenarios and      *)
(* roles (_load_lid_ds_2021: selected_group_ids and                        *)
(* selected_detector_input_ids; its last check never finds a copy).        *)
PartitionsShareNothing ==
  load # None => \A u, v \in load.taken : u # v => ~Alike(u, v)

(* A recording that is passed over as a copy is stood for by a recording   *)
(* of the pilot or of the selection that means the same: no contradiction  *)
(* about a label is hidden by skipping one of the two                      *)
(* (require_consistent_content_semantics).                                 *)
CopiesAgree ==
  load # None =>
    \A c \in load.copies : \E u \in load.reserved \cup load.taken : Alike(c, u) /\ c.meaning = u.meaning

(* What the confirmatory phase is admitted with has no file, stream or     *)
(* sample in common with the pilot's cells.  Either safeguard is enough by *)
(* itself: the reservation if the corpus did not change while the command  *)
(* ran, whatever the pilot's preflight says by now, and the comparison if  *)
(* that preflight is the one of the cells, whatever the corpus did         *)
(* (reserved_pilot_content_semantics, _observed_phase_disjointness).       *)
PhasesShareNothing ==
  admitted # None /\ (admitted.steady \/ admitted.against = admitted.pilot) =>
    \A u \in admitted.units, v \in admitted.pilot : u.archive # v.archive /\ ~Alike(u, v)

(* From the same files, the reservation ends with exactly the recordings   *)
(* of the pilot, and it does not fail where the pilot's load did not       *)
(* (reserved_pilot_content_semantics: "Otherwise confirmatory reservation  *)
(* would reproduce a later deduplication loss").                           *)
ReservationRepeatsPilot ==
  [][load # None /\ load.name = "reserve" /\ job.steady =>
       /\ load' # None
       /\ load'.name = "select" => load'.reserved = job.planned]_vars

(* From the same files, the comparison with the manifest of the pilot's    *)
(* own preflight never refuses what the reservation left                   *)
(* (_observed_phase_disjointness).                                         *)
ReservationSatisfiesGate ==
  [][FinishConfirmatory /\ job.steady /\ manifest # None /\ manifest = job.planned =>
       admitted' # None /\ admitted'.units = load.taken]_vars
=============================================================================
