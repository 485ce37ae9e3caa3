------------------------- MODULE PhaseIsolation_proofs -------------------------
(***************************************************************************)
(* Proofs about PhaseIsolation, for every corpus, every allocation and     *)
(* any number of changes and invocations.                                  *)
(***************************************************************************)
EXTENDS PhaseIsolation, FiniteSetTheorems, TLAPS

Running == load \in Passes

LEMMA PassType ==
  ASSUME NEW phase \in Phase, NEW name \in {"select", "reserve"},
         NEW reserved \in SUBSET Units, NEW parsed \in [Archive -> Content \cup {None}]
  PROVE  Pass(phase, name, reserved, parsed) \in Passes
<1> DEFINE Counts == {Cardinality(files) : files \in SUBSET Archive} \cup {0}
<1>1. {} \in SUBSET Units /\ 0 \in Counts /\ 0 \in Nat /\ 1 \in Nat
  OBVIOUS
<1>2. Passes = [phase : Phase, name : {"select", "reserve"}, stratum : Nat,
                queue : (SUBSET Archive) \cup {None}, inventory : [Stratum -> Counts],
                before : Nat, retained : Nat,
                taken : SUBSET Units, copies : SUBSET Units, reserved : SUBSET Units,
                parsed : [Archive -> Content \cup {None}]]
  BY DEF Passes
<1> HIDE DEF Counts
<1>3. [s \in Stratum |-> 0] \in [Stratum -> Counts]
  BY <1>1
<1> QED BY <1>1, <1>2, <1>3 DEF Pass

LEMMA PilotPassType == PilotPass \in Passes
<1>1. Unparsed \in [Archive -> Content \cup {None}]
  BY DEF Unparsed
<1> HIDE DEF Unparsed
<1> QED BY <1>1, PassType DEF PilotPass, Phase

(* What a load sees of a file it is at, and the unit it makes of it. *)
LEMMA ReadingType ==
  ASSUME TypeOK, NEW a \in Archive, Reading(a)
  PROVE  /\ Running
         /\ load.queue \in SUBSET Archive
         /\ Projection(a) \in Content \cup {None}
         /\ Projection(a) # None => Beyond(a) \in Passes /\ Unit(a) \in Units
<1>1. Running /\ load.queue \in SUBSET Archive
  <2>1. load # None BY DEF Reading
  <2>2. Running BY <2>1 DEF TypeOK, Running
  <2>3. load.queue \in (SUBSET Archive) \cup {None} BY <2>2 DEF Running, Passes
  <2> QED BY <2>2, <2>3 DEF Reading
<1>2. Projection(a) \in Content \cup {None}
  <2>1. load.parsed \in [Archive -> Content \cup {None}] BY <1>1 DEF Running, Passes
  <2>2. corpus \in [Archive -> Content \cup {None}] BY DEF TypeOK
  <2> QED BY <2>1, <2>2 DEF Projection
<1>3. ASSUME Projection(a) # None PROVE Beyond(a) \in Passes
  <2> DEFINE queue == load.queue \ {a}
             parsed == [load.parsed EXCEPT ![a] = Projection(a)]
  <2>1. queue \in (SUBSET Archive) \cup {None} BY <1>1
  <2>2. parsed \in [Archive -> Content \cup {None}] BY <1>1, <1>2 DEF Running, Passes
  <2>3. Beyond(a) = [load EXCEPT !.queue = queue, !.parsed = parsed]
    BY <1>1 DEF Beyond, Running, Passes
  <2> HIDE DEF queue, parsed
  <2> QED BY <1>1, <2>1, <2>2, <2>3 DEF Running, Passes
<1>4. ASSUME Projection(a) # None PROVE Unit(a) \in Units
  <2>1. Projection(a) \in Content BY <1>2, <1>4
  <2>2. a[1] \in Stratum BY DEF Archive
  <2> QED BY <2>1, <2>2 DEF Unit, UnitOf, Units
<1> QED BY <1>1, <1>2, <1>3, <1>4

(* A step over file a, in the fields it changes. *)
LEMMA BeyondFields ==
  ASSUME TypeOK, NEW a \in Archive, Reading(a), Projection(a) # None
  PROVE  Beyond(a) = [load EXCEPT !.queue = load.queue \ {a},
                                  !.parsed = [load.parsed EXCEPT ![a] = Projection(a)]]
BY ReadingType DEF Beyond, Running, Passes

LEMMA CountedType ==
  ASSUME TypeOK, NEW a \in Archive, Candidate(a)
  PROVE  /\ Running
         /\ Unit(a) \in Units
         /\ Counted(a) \in Passes
         /\ Counted(a) = [load EXCEPT !.queue = load.queue \ {a},
                                      !.parsed = [load.parsed EXCEPT ![a] = Projection(a)],
                                      !.before = load.before + 1]
         /\ Kept(a) \in Passes
         /\ Kept(a) = [load EXCEPT !.queue = load.queue \ {a},
                                   !.parsed = [load.parsed EXCEPT ![a] = Projection(a)],
                                   !.before = load.before + 1,
                                   !.taken = load.taken \cup {Unit(a)},
                                   !.retained = load.retained + 1]
<1> DEFINE queue == load.queue \ {a}
           parsed == [load.parsed EXCEPT ![a] = Projection(a)]
           taken == load.taken \cup {Unit(a)}
<1>1. Running /\ Beyond(a) \in Passes /\ Unit(a) \in Units
  BY ReadingType DEF Candidate
<1>2. Beyond(a) = [load EXCEPT !.queue = queue, !.parsed = parsed]
  BY BeyondFields DEF Candidate
<1>3. /\ load.before + 1 \in Nat
      /\ load.retained + 1 \in Nat
      /\ taken \in SUBSET Units
  BY <1>1 DEF Running, Passes
<1>4. /\ Beyond(a).before = load.before /\ Beyond(a).retained = load.retained
      /\ Beyond(a).taken = load.taken
  BY <1>1, <1>2 DEF Running, Passes
<1> HIDE DEF queue, parsed
<1>5. /\ Counted(a) \in Passes
      /\ Counted(a) = [load EXCEPT !.queue = queue, !.parsed = parsed, !.before = load.before + 1]
  <2>1. Counted(a) = [Beyond(a) EXCEPT !.before = load.before + 1] BY <1>1, <1>4 DEF Counted, Passes
  <2>2. Counted(a) \in Passes BY <1>1, <1>3, <2>1 DEF Passes
  <2>3. Counted(a) = [load EXCEPT !.queue = queue, !.parsed = parsed, !.before = load.before + 1]
    BY <1>1, <1>2, <2>1 DEF Running, Passes
  <2> QED BY <2>2, <2>3
<1>6. Counted(a).taken = load.taken /\ Counted(a).retained = load.retained
  BY <1>1, <1>5 DEF Running, Passes
<1> HIDE DEF taken
<1>7. Kept(a) = [Counted(a) EXCEPT !.taken = taken, !.retained = load.retained + 1]
  BY <1>5, <1>6 DEF Kept, Passes, taken
<1>8. Kept(a) \in Passes
  BY <1>3, <1>5, <1>7 DEF Passes
<1>9. Kept(a) = [load EXCEPT !.queue = queue, !.parsed = parsed, !.before = load.before + 1,
                            !.taken = taken, !.retained = load.retained + 1]
  BY <1>1, <1>5, <1>7 DEF Running, Passes
<1> QED BY <1>1, <1>5, <1>8, <1>9 DEF queue, parsed, taken

LEMMA CandidateType ==
  ASSUME TypeOK, NEW a \in Archive, Candidate(a)
  PROVE  Running /\ Unit(a) \in Units /\ Counted(a) \in Passes /\ Kept(a) \in Passes
BY CountedType, Zenon

(* The fields a step over a file leaves and sets. *)
LEMMA StepFields ==
  ASSUME Running, NEW queue, NEW parsed, NEW before, NEW taken, NEW retained
  PROVE  LET read == [load EXCEPT !.queue = queue, !.parsed = parsed]
             counted == [load EXCEPT !.queue = queue, !.parsed = parsed, !.before = before]
             kept == [load EXCEPT !.queue = queue, !.parsed = parsed, !.before = before,
                                  !.taken = taken, !.retained = retained]
         IN /\ \A r \in {read, counted, kept} :
                 /\ r.phase = load.phase /\ r.name = load.name /\ r.stratum = load.stratum
                 /\ r.inventory = load.inventory /\ r.copies = load.copies
                 /\ r.reserved = load.reserved /\ r.queue = queue /\ r.parsed = parsed
            /\ \A r \in {read, counted} : r.taken = load.taken /\ r.retained = load.retained
            /\ read.before = load.before /\ counted.before = before /\ kept.before = before
            /\ kept.taken = taken /\ kept.retained = retained
BY DEF Running, Passes

LEMMA ReadFields ==
  ASSUME TypeOK, NEW a \in Archive, Reading(a), Projection(a) # None
  PROVE  LET r == Beyond(a)
         IN /\ r.phase = load.phase /\ r.name = load.name /\ r.stratum = load.stratum
            /\ r.copies = load.copies /\ r.reserved = load.reserved /\ r.taken = load.taken
            /\ r.retained = load.retained /\ r.before = load.before
            /\ r.queue = load.queue \ {a}
            /\ r.parsed = [load.parsed EXCEPT ![a] = Projection(a)]
<1>1. Running BY ReadingType
<1> DEFINE queue == load.queue \ {a}
           parsed == [load.parsed EXCEPT ![a] = Projection(a)]
<1>2. Beyond(a) = [load EXCEPT !.queue = queue, !.parsed = parsed] BY BeyondFields
<1> HIDE DEF queue, parsed
<1>3. LET r == [load EXCEPT !.queue = queue, !.parsed = parsed]
      IN /\ r.phase = load.phase /\ r.name = load.name /\ r.stratum = load.stratum
         /\ r.copies = load.copies /\ r.reserved = load.reserved /\ r.taken = load.taken
         /\ r.retained = load.retained /\ r.before = load.before
         /\ r.queue = queue /\ r.parsed = parsed
  BY <1>1, StepFields
<1> QED BY <1>2, <1>3 DEF queue, parsed

LEMMA CandidateFields ==
  ASSUME TypeOK, NEW a \in Archive, Candidate(a)
  PROVE  /\ \A r \in {Counted(a), Kept(a)} :
              /\ r.phase = load.phase /\ r.name = load.name /\ r.stratum = load.stratum
              /\ r.copies = load.copies /\ r.reserved = load.reserved
              /\ r.before = load.before + 1
              /\ r.queue = load.queue \ {a}
              /\ r.parsed = [load.parsed EXCEPT ![a] = Projection(a)]
         /\ Counted(a).taken = load.taken /\ Counted(a).retained = load.retained
         /\ Kept(a).taken = load.taken \cup {Unit(a)}
         /\ Kept(a).retained = load.retained + 1
<1>1. Running BY CountedType
<1> DEFINE queue == load.queue \ {a}
           parsed == [load.parsed EXCEPT ![a] = Projection(a)]
           taken == load.taken \cup {Unit(a)}
           before == load.before + 1
           retained == load.retained + 1
           counted == [load EXCEPT !.queue = queue, !.parsed = parsed, !.before = before]
           kept == [load EXCEPT !.queue = queue, !.parsed = parsed, !.before = before,
                                !.taken = taken, !.retained = retained]
<1>2. Counted(a) = counted /\ Kept(a) = kept BY CountedType
<1> HIDE DEF queue, parsed, taken, before, retained
<1>3. /\ \A r \in {counted, kept} :
           /\ r.phase = load.phase /\ r.name = load.name /\ r.stratum = load.stratum
           /\ r.copies = load.copies /\ r.reserved = load.reserved
           /\ r.before = before /\ r.queue = queue /\ r.parsed = parsed
      /\ counted.taken = load.taken /\ counted.retained = load.retained
      /\ kept.taken = taken /\ kept.retained = retained
  BY <1>1, StepFields
<1> HIDE DEF counted, kept
<1> QED BY <1>2, <1>3 DEF queue, parsed, taken, before, retained

-----------------------------------------------------------------------------
(* Type correctness: a load runs only for an invocation. *)

(* The manifest is the only other thing a load changes. *)
LEMMA ContinueType ==
  ASSUME TypeOK, Running, NEW pass \in Passes, Continue(pass), UNCHANGED <<corpus, admitted>>
  PROVE  TypeOK'
<1>1. load # None BY AllocationAssumption DEF Running
<1> QED BY <1>1 DEF TypeOK, Continue

LEMMA EndType ==
  ASSUME TypeOK, End, UNCHANGED <<corpus, admitted>>, manifest' \in (SUBSET Units) \cup {None}
  PROVE  TypeOK'
BY DEF TypeOK, End

LEMMA FailType == ASSUME TypeOK, LoadFails, UNCHANGED <<corpus, admitted>> PROVE TypeOK'
<1>1. manifest' \in (SUBSET Units) \cup {None} BY DEF LoadFails, TypeOK
<1> QED BY <1>1, EndType DEF LoadFails

LEMMA InitTyped == Init => TypeOK
BY AllocationAssumption DEF Init, TypeOK

LEMMA DoneType ==
  ASSUME TypeOK, NEW name \in {"select", "reserve"}, Done(name)
  PROVE  Running /\ load.taken \in SUBSET Units /\ load.reserved \in SUBSET Units
         /\ load.parsed \in [Archive -> Content \cup {None}]
<1>1. Running BY DEF Done, TypeOK, Running
<1> QED BY <1>1 DEF Running, Passes

LEMMA NextTyped == TypeOK /\ [Next]_vars => TypeOK'
<1> SUFFICES ASSUME TypeOK, [Next]_vars PROVE TypeOK'
  OBVIOUS
<1>0. None \notin Passes BY AllocationAssumption
<1>1. ASSUME NEW kind \in Kind, Begin(kind) PROVE TypeOK'
  <2>1. job' \in Invocations BY <1>1 DEF Begin, Invocations
  <2> QED BY <1>1, <2>1, PilotPassType DEF Begin, TypeOK
<1>2. ASSUME ListStratum PROVE TypeOK'
  <2> DEFINE present == {a \in Archive : a[1] = load.stratum /\ corpus[a] # None}
  <2>1. Running BY <1>2 DEF ListStratum, TypeOK, Running
  <2>2. CASE present = {}
    <3>1. LoadFails /\ UNCHANGED <<corpus, admitted>> BY <1>2, <2>2 DEF ListStratum
    <3> QED BY <3>1, FailType
  <2>3. CASE present # {}
    <3> DEFINE counts == {Cardinality(files) : files \in SUBSET Archive} \cup {0}
               inventory == [load.inventory EXCEPT ![load.stratum] = Cardinality(present)]
               pass == [load EXCEPT !.queue = present, !.inventory = inventory,
                                    !.before = 0, !.retained = 0]
    <3>1. present \in SUBSET Archive OBVIOUS
    <3>2. load.inventory \in [Stratum -> counts] BY <2>1 DEF Running, Passes
    <3>3. Cardinality(present) \in counts BY <3>1
    <3> HIDE DEF counts, present
    <3>4. inventory \in [Stratum -> counts] BY <3>2, <3>3
    <3> HIDE DEF inventory
    <3>5. pass \in Passes BY <2>1, <3>1, <3>4 DEF Running, Passes, counts
    <3>6. Continue(pass) /\ UNCHANGED <<corpus, admitted>>
      BY <1>2, <2>1, <2>3 DEF ListStratum, inventory, present, Running, Passes
    <3> QED BY <2>1, <3>5, <3>6, ContinueType
  <2> QED BY <2>2, <2>3
<1>3. ASSUME CloseStratum PROVE TypeOK'
  <2>1. Running BY <1>3 DEF CloseStratum, TypeOK, Running
  <2>2. CASE load.retained < Cap[load.phase]
    <3>1. LoadFails /\ UNCHANGED <<corpus, admitted>> BY <1>3, <2>2 DEF CloseStratum
    <3> QED BY <3>1, FailType
  <2>3. CASE ~(load.retained < Cap[load.phase])
    <3> DEFINE pass == [load EXCEPT !.stratum = load.stratum + 1, !.queue = None]
    <3>0. load.stratum + 1 \in Nat /\ None \in (SUBSET Archive) \cup {None}
      BY <2>1 DEF Running, Passes
    <3>1. pass \in Passes BY <2>1, <3>0 DEF Running, Passes
    <3>2. Continue(pass) /\ UNCHANGED <<corpus, admitted>>
      BY <1>3, <2>1, <2>3 DEF CloseStratum, Running, Passes
    <3> QED BY <2>1, <3>1, <3>2, ContinueType
  <2> QED BY <2>2, <2>3
<1>4. ASSUME NEW a \in Archive, ReadFails(a) PROVE TypeOK'
  BY <1>4, FailType DEF ReadFails
<1>5. ASSUME NEW a \in Archive, SkipArchive(a) PROVE TypeOK'
  <2> DEFINE before == IF IsEmpty(a) THEN Beyond(a).before ELSE Beyond(a).before + 1
             pass == [Beyond(a) EXCEPT !.before = before]
  <2>1. Running /\ Beyond(a) \in Passes BY <1>5, ReadingType DEF SkipArchive
  <2>2. before \in Nat BY <2>1 DEF Passes
  <2> HIDE DEF before
  <2>3. pass \in Passes BY <2>1, <2>2 DEF Passes
  <2>4. Continue(pass) /\ UNCHANGED <<corpus, admitted>> BY <1>5, <2>1 DEF SkipArchive, Passes, before
  <2> QED BY <2>1, <2>3, <2>4, ContinueType
<1>6. ASSUME NEW a \in Archive, ReserveArchive(a) PROVE TypeOK'
  <2>1. Candidate(a) /\ UNCHANGED <<corpus, admitted>> BY <1>6 DEF ReserveArchive
  <2>2. Running /\ Counted(a) \in Passes /\ Kept(a) \in Passes BY <2>1, CountedType
  <2>3. LoadFails \/ Continue(Counted(a)) \/ Continue(Kept(a)) BY <1>6 DEF ReserveArchive
  <2> QED BY <2>1, <2>2, <2>3, FailType, ContinueType
<1>7. ASSUME NEW a \in Archive, SelectArchive(a) PROVE TypeOK'
  <2> DEFINE copied == [Counted(a) EXCEPT !.copies = Counted(a).copies \cup {Unit(a)}]
  <2>1. Candidate(a) /\ UNCHANGED <<corpus, admitted>> BY <1>7 DEF SelectArchive
  <2>2. Running /\ Counted(a) \in Passes /\ Kept(a) \in Passes /\ Unit(a) \in Units
    BY <2>1, CountedType
  <2>3. copied \in Passes
    <3>1. Counted(a).copies \cup {Unit(a)} \in SUBSET Units BY <2>2 DEF Passes
    <3> QED BY <2>2, <3>1 DEF Passes
  <2>4. LoadFails \/ Continue(copied) \/ Continue(Kept(a))
    <3>1. [Counted(a) EXCEPT !.copies = @ \cup {Unit(a)}] = copied BY <2>2 DEF Passes
    <3> HIDE DEF copied
    <3> QED BY <1>7, <3>1 DEF SelectArchive
  <2> QED BY <2>1, <2>2, <2>3, <2>4, FailType, ContinueType
<1>8. ASSUME FinishReservation PROVE TypeOK'
  <2>1. /\ Running /\ load.taken \in SUBSET Units
        /\ load.parsed \in [Archive -> Content \cup {None}]
    BY <1>8, DoneType DEF FinishReservation
  <2>2. Pass("confirmatory", "select", load.taken, load.parsed) \in Passes
    BY <2>1, PassType DEF Phase
  <2> QED BY <1>8, <2>1, <2>2, ContinueType DEF FinishReservation
<1>9. ASSUME FinishPilot PROVE TypeOK'
  <2>1. load.taken \in SUBSET Units BY <1>9, DoneType DEF FinishPilot
  <2> QED BY <1>9, <2>1, FailType, EndType DEF FinishPilot
<1>10. ASSUME FinishPlanning PROVE TypeOK'
  <2>1. Running /\ load.taken \in SUBSET Units BY <1>10, DoneType DEF FinishPlanning
  <2>2. job \in Invocations BY <1>0, <2>1 DEF TypeOK, Running
  <2>3. CASE End BY <1>10, <2>3, EndType DEF FinishPlanning, TypeOK
  <2>4. CASE ~End
    <3>1. load' \in Passes
      BY <1>10, <2>4, PassType DEF FinishPlanning, Phase, Unparsed
    <3>2. job' \in Invocations
      BY <1>10, <2>1, <2>2, <2>4 DEF FinishPlanning, Invocations
    <3> QED BY <1>10, <3>1, <3>2 DEF FinishPlanning, TypeOK
  <2> QED BY <2>3, <2>4
<1>11. ASSUME FinishConfirmatory PROVE TypeOK'
  <2>1. Running /\ load.taken \in SUBSET Units BY <1>11, DoneType DEF FinishConfirmatory
  <2>2. job \in Invocations BY <1>0, <2>1 DEF TypeOK, Running
  <2>3. job.planned \in (SUBSET Units) \cup {None} /\ job.steady \in BOOLEAN
    BY <2>2 DEF Invocations
  <2>4. manifest # None => manifest \in SUBSET Units BY DEF TypeOK
  <2>5. admitted' \in Admissions \cup {None}
    BY <1>11, <2>1, <2>3, <2>4 DEF FinishConfirmatory, TypeOK, Admissions
  <2> QED BY <1>11, <2>5 DEF FinishConfirmatory, End, TypeOK
<1>12. ASSUME NEW a \in Archive, ChangeCorpus(a) PROVE TypeOK'
  <2>1. corpus' \in [Archive -> Content \cup {None}] BY <1>12 DEF ChangeCorpus, TypeOK
  <2>2. load' # None => job' \in Invocations BY <1>12 DEF ChangeCorpus, TypeOK, Invocations
  <2> QED BY <1>12, <2>1, <2>2 DEF ChangeCorpus, TypeOK
<1>13. CASE UNCHANGED vars BY <1>13 DEF vars, TypeOK
<1> QED
  BY <1>1, <1>2, <1>3, <1>4, <1>5, <1>6, <1>7, <1>8, <1>9, <1>10, <1>11, <1>12, <1>13
  DEF Next, Read

THEOREM TypeInvariant == Spec => []TypeOK
BY InitTyped, NextTyped, PTL DEF Spec

-----------------------------------------------------------------------------
(* Separation needs no knowledge of the files: a load keeps a recording    *)
(* only when nothing it kept, and in a selection nothing reserved, is like *)
(* it, and it passes one over only for one that means the same.            *)

ApartFromReserved ==
  load # None /\ load.name = "select" =>
    \A u \in load.taken, v \in load.reserved : ~Alike(u, v)

Separated == PartitionsShareNothing /\ CopiesAgree /\ ApartFromReserved

(* What a step of a running load does to the recordings it knows. *)
SameUnits ==
  /\ load'.name = load.name
  /\ load'.reserved = load.reserved
  /\ load'.taken = load.taken
  /\ load'.copies = load.copies

KeepsUnit(u) ==
  /\ load'.name = load.name
  /\ load'.reserved = load.reserved
  /\ load'.taken = load.taken \cup {u}
  /\ load'.copies = load.copies
  /\ ~CopyOf(u, load.taken)
  /\ load.name = "select" => ~CopyOf(u, load.reserved)

CopiesUnit(u) ==
  /\ load'.name = load.name
  /\ load'.reserved = load.reserved
  /\ load'.taken = load.taken
  /\ load'.copies = load.copies \cup {u}
  /\ \E v \in load.reserved \cup load.taken : Alike(u, v) /\ u.meaning = v.meaning

Fresh == load'.taken = {} /\ load'.copies = {}

LEMMA StepUnits ==
  ASSUME TypeOK, [Next]_vars, load' # None
  PROVE  \/ Fresh
         \/ load # None /\ SameUnits
         \/ load # None /\ \E u \in Units : KeepsUnit(u) \/ CopiesUnit(u)
<1>0. None \notin Passes BY AllocationAssumption
<1>1. ASSUME NEW kind \in Kind, Begin(kind) PROVE Fresh
  BY <1>1 DEF Begin, PilotPass, Pass, Fresh
<1>2. ASSUME ListStratum PROVE load # None /\ SameUnits
  <2>1. Running BY <1>2 DEF ListStratum, TypeOK, Running
  <2> QED BY <1>2, <2>1 DEF ListStratum, LoadFails, End, Continue, SameUnits, Running, Passes
<1>3. ASSUME CloseStratum PROVE load # None /\ SameUnits
  <2>1. Running BY <1>3 DEF CloseStratum, TypeOK, Running
  <2> QED BY <1>3, <2>1 DEF CloseStratum, LoadFails, End, Continue, SameUnits, Running, Passes
<1>4. ASSUME NEW a \in Archive, ReadFails(a) PROVE FALSE
  BY <1>4 DEF ReadFails, LoadFails, End
<1>5. ASSUME NEW a \in Archive, SkipArchive(a) PROVE load # None /\ SameUnits
  <2>1. Running /\ Beyond(a) \in Passes BY <1>5, ReadingType DEF SkipArchive
  <2>2. /\ Beyond(a).name = load.name /\ Beyond(a).reserved = load.reserved
        /\ Beyond(a).taken = load.taken /\ Beyond(a).copies = load.copies
    BY <1>5, ReadFields DEF SkipArchive
  <2>3. load' = [Beyond(a) EXCEPT !.before = IF IsEmpty(a) THEN @ ELSE @ + 1]
    BY <1>5 DEF SkipArchive, Continue
  <2> QED BY <1>0, <2>1, <2>2, <2>3 DEF SameUnits, Running, Passes
<1>6. ASSUME NEW a \in Archive, ReserveArchive(a)
      PROVE  load # None /\ (SameUnits \/ \E u \in Units : KeepsUnit(u))
  <2>1. /\ Candidate(a) /\ load # None /\ load.name = "reserve" /\ ~LoadFails
    BY <1>6 DEF ReserveArchive, LoadFails, End
  <2>2. Running /\ Unit(a) \in Units BY <2>1, CountedType
  <2>3. CASE CopyOf(Unit(a), load.taken)
    <3>1. load' = Counted(a) BY <1>6, <2>1, <2>3 DEF ReserveArchive, Continue
    <3>2. SameUnits BY <2>1, <3>1, CandidateFields DEF SameUnits
    <3> QED BY <2>1, <3>2
  <2>4. CASE ~CopyOf(Unit(a), load.taken)
    <3>1. load' = Kept(a) BY <1>6, <2>1, <2>4 DEF ReserveArchive, Continue
    <3>2. KeepsUnit(Unit(a))
      BY <2>1, <2>4, <3>1, CandidateFields DEF KeepsUnit
    <3> QED BY <2>1, <2>2, <3>2
  <2> QED BY <2>3, <2>4
<1>7. ASSUME NEW a \in Archive, SelectArchive(a)
      PROVE  load # None /\ \E u \in Units : KeepsUnit(u) \/ CopiesUnit(u)
  <2> DEFINE u == Unit(a)
  <2>1. Candidate(a) /\ load # None /\ load.name = "select" /\ ~LoadFails
    BY <1>7 DEF SelectArchive, LoadFails, End
  <2>2. Running /\ u \in Units /\ Counted(a) \in Passes BY <2>1, CountedType
  <2>3. ~Rejected(u) BY <1>7, <2>1 DEF SelectArchive
  <2>4. CASE PassedOver(u)
    <3>1. load' = [Counted(a) EXCEPT !.copies = @ \cup {u}]
      BY <1>7, <2>1, <2>3, <2>4 DEF SelectArchive, Continue
    <3>2. /\ Counted(a).name = load.name /\ Counted(a).reserved = load.reserved
          /\ Counted(a).taken = load.taken /\ Counted(a).copies = load.copies
      BY <2>1, CandidateFields
    <3>3. \E v \in load.reserved \cup load.taken : Alike(u, v) /\ u.meaning = v.meaning
      BY <2>3, <2>4 DEF Rejected, PassedOver, Selected, CopyOf, Contradicts
    <3> HIDE DEF u
    <3>4. CopiesUnit(u) BY <2>2, <3>1, <3>2, <3>3 DEF CopiesUnit, Passes
    <3> QED BY <2>1, <2>2, <3>4
  <2>5. CASE ~PassedOver(u)
    <3>1. load' = Kept(a) BY <1>7, <2>1, <2>3, <2>5 DEF SelectArchive, Continue
    <3>2. KeepsUnit(u)
      BY <2>1, <2>5, <3>1, CandidateFields DEF KeepsUnit, PassedOver, Selected
    <3> QED BY <2>1, <2>2, <3>2
  <2> QED BY <2>4, <2>5
<1>8. ASSUME FinishReservation PROVE Fresh
  BY <1>8 DEF FinishReservation, Continue, Pass, Fresh
<1>9. ASSUME FinishPilot \/ FinishConfirmatory PROVE FALSE
  BY <1>9 DEF FinishPilot, FinishConfirmatory, LoadFails, End
<1>10. ASSUME FinishPlanning PROVE Fresh
  BY <1>10 DEF FinishPlanning, End, Pass, Fresh
<1>11. ASSUME NEW a \in Archive, ChangeCorpus(a) PROVE load # None /\ SameUnits
  BY <1>11 DEF ChangeCorpus, SameUnits
<1>12. CASE UNCHANGED vars BY <1>12 DEF vars, SameUnits
<1> QED
  BY <1>1, <1>2, <1>3, <1>4, <1>5, <1>6, <1>7, <1>8, <1>9, <1>10, <1>11, <1>12
  DEF Next, Read

LEMMA NextSeparated == TypeOK /\ Separated /\ [Next]_vars => Separated'
<1> SUFFICES ASSUME TypeOK, Separated, [Next]_vars, load' # None PROVE Separated'
  BY DEF Separated, PartitionsShareNothing, CopiesAgree, ApartFromReserved
<1>1. CASE Fresh
  BY <1>1 DEF Fresh, Separated, PartitionsShareNothing, CopiesAgree, ApartFromReserved
<1>2. CASE load # None /\ SameUnits
  BY <1>2 DEF SameUnits, Separated, PartitionsShareNothing, CopiesAgree, ApartFromReserved
<1>3. ASSUME NEW u \in Units, load # None, KeepsUnit(u) PROVE Separated'
  <2>1. PartitionsShareNothing'
    BY <1>3 DEF KeepsUnit, CopyOf, Alike, Separated, PartitionsShareNothing
  <2>2. CopiesAgree' BY <1>3 DEF KeepsUnit, Separated, CopiesAgree
  <2>3. ApartFromReserved'
    BY <1>3 DEF KeepsUnit, CopyOf, Separated, ApartFromReserved
  <2> QED BY <2>1, <2>2, <2>3 DEF Separated
<1>4. ASSUME NEW u \in Units, load # None, CopiesUnit(u) PROVE Separated'
  BY <1>4 DEF CopiesUnit, Separated, PartitionsShareNothing, CopiesAgree, ApartFromReserved
<1> QED BY <1>1, <1>2, <1>3, <1>4, StepUnits

LEMMA SeparationInvariant == Spec => []Separated
<1>1. Init => Separated
  BY DEF Init, Separated, PartitionsShareNothing, CopiesAgree, ApartFromReserved
<1> QED BY <1>1, NextSeparated, TypeInvariant, PTL DEF Spec

THEOREM PartitionsAreSeparate == Spec => []PartitionsShareNothing
<1>1. Separated => PartitionsShareNothing BY DEF Separated
<1> QED BY <1>1, SeparationInvariant, PTL

THEOREM NoContradictionHidden == Spec => []CopiesAgree
<1>1. Separated => CopiesAgree BY DEF Separated
<1> QED BY <1>1, SeparationInvariant, PTL

-----------------------------------------------------------------------------
(* From the same files, the reservation repeats the pilot's selection.     *)
(* The argument: whether a selection T keeps file a is decided by what T   *)
(* keeps of the files before a (Rule); a load that passed a file obeyed    *)
(* its rule, so a reservation that kept the pilot's recordings so far      *)
(* decides as the pilot did.  All of it is stated for a corpus c that does *)
(* not change, a pass l and an invocation j.                               *)

Recorded(c, a) == UnitOf(a, c[a])
FilesOf(s) == {a \in Archive : a[1] = s}
Valid(c, s) == {a \in FilesOf(s) : c[a] # None /\ c[a].sample # None}
Before(c, a) == {b \in Valid(c, a[1]) : b[2] < a[2]}
UnitsOf(T, s) == {u \in T : u.archive[1] = s}
Here(T, a) == {u \in T : u.archive[1] = a[1] /\ u.archive[2] < a[2]}
Earlier(T, a) == {u \in T : u.archive[1] < a[1]} \cup Here(T, a)

Eligible(c, T, a) ==
  /\ a \in Valid(c, a[1])
  /\ Cardinality(Before(c, a)) >= Offset["pilot"][a[1]]
  /\ Cardinality(Here(T, a)) < Cap["pilot"]

Rule(c, T, a) ==
  /\ Eligible(c, T, a) =>
       ~Unfit(Recorded(c, a)) /\ ~Contradicts(Recorded(c, a), Earlier(T, a))
  /\ Recorded(c, a) \in T <=> Eligible(c, T, a) /\ ~CopyOf(Recorded(c, a), Earlier(T, a))

(* The units of T are what the files hold. *)
Grounded(c, T) ==
  \A u \in T : u.archive \in Archive /\ c[u.archive] # None /\ u = Recorded(c, u.archive)

PilotSelection(c, T) ==
  /\ T \in SUBSET Units
  /\ Grounded(c, T)
  /\ \A a \in Archive : c[a] # None => Rule(c, T, a)
  /\ \A s \in Stratum : Cardinality(UnitsOf(T, s)) = Cap["pilot"]

(* The pass has left file a behind. *)
Passed(l, a) ==
  \/ a[1] < l.stratum
  \/ a[1] = l.stratum /\ l.queue # None /\ a \notin l.queue

Progress(c, l) ==
  /\ l.stratum <= Len(Depth) + 1
  /\ \A a \in Archive : l.parsed[a] \in {None, c[a]}
  /\ Grounded(c, l.taken)
  /\ \A u \in l.taken : Passed(l, u.archive)
  /\ l.queue # None =>
       /\ l.stratum \in Stratum
       /\ \A b \in l.queue : b \in Archive /\ b[1] = l.stratum /\ c[b] # None
       /\ \A a \in FilesOf(l.stratum), b \in l.queue :
            c[a] # None /\ a \notin l.queue => a[2] < b[2]
       /\ l.before = Cardinality(Valid(c, l.stratum) \ l.queue)
       /\ l.retained = Cardinality(UnitsOf(l.taken, l.stratum))
       /\ l.retained <= Cap[l.phase]

Selecting(c, l) ==
  l.phase = "pilot" /\ l.name = "select" =>
    /\ l.reserved = {}
    /\ \A a \in Archive : c[a] # None /\ Passed(l, a) => Rule(c, l.taken, a)
    /\ \A s \in Stratum : s < l.stratum => Cardinality(UnitsOf(l.taken, s)) = Cap["pilot"]

Reserving(c, l, j) ==
  l.name = "reserve" =>
    /\ l.phase = "pilot"
    /\ PilotSelection(c, j.planned)
    /\ l.taken = {u \in j.planned : Passed(l, u.archive)}

Confirming(c, l, j) ==
  l.phase = "confirmatory" =>
    l.name = "select" /\ PilotSelection(c, j.planned) /\ l.reserved = j.planned

Good(c, l, j) == Progress(c, l) /\ Selecting(c, l) /\ Reserving(c, l, j) /\ Confirming(c, l, j)

Steady == load # None /\ job.steady => Good(corpus, load, job)

LEMMA NoneFacts ==
  /\ None \notin Content /\ None \notin Passes /\ None \notin Invocations
  /\ None \notin Admissions /\ None \notin SUBSET Archive
BY AllocationAssumption

LEMMA DepthFacts == Len(Depth) \in Nat /\ \A s \in Stratum : s \in Nat /\ Depth[s] \in Nat
BY AllocationAssumption DEF Stratum

LEMMA ArchiveFacts ==
  ASSUME NEW a \in Archive
  PROVE  /\ a[1] \in Stratum /\ a[1] \in Nat /\ a[2] \in 1..Depth[a[1]] /\ a[2] \in Nat
         /\ \A b \in Archive : b[1] = a[1] /\ b[2] = a[2] => a = b
BY DepthFacts DEF Archive

LEMMA FilesFinite == \A s \in Stratum : IsFiniteSet(FilesOf(s))
<1> SUFFICES ASSUME NEW s \in Stratum PROVE IsFiniteSet(FilesOf(s))
  OBVIOUS
<1> DEFINE f == [a \in FilesOf(s) |-> a[2]]
<1>1. IsFiniteSet(1..Depth[s])
  <2>1. 1 \in Int /\ Depth[s] \in Int BY DepthFacts
  <2> QED BY <2>1, FS_Interval
<1>2. f \in [FilesOf(s) -> 1..Depth[s]] BY ArchiveFacts DEF FilesOf
<1>3. f \in Injection(FilesOf(s), 1..Depth[s])
  <2>1. \A a, b \in FilesOf(s) : f[a] = f[b] => a = b BY ArchiveFacts DEF FilesOf
  <2> QED BY <1>2, <2>1 DEF Injection, IsInjective
<1> QED BY <1>1, <1>3, FS_Injection

LEMMA UnitsFinite ==
  ASSUME NEW c, NEW T, Grounded(c, T), NEW s \in Stratum
  PROVE  IsFiniteSet(UnitsOf(T, s))
<1> DEFINE f == [u \in UnitsOf(T, s) |-> u.archive]
<1>1. IsFiniteSet(FilesOf(s)) BY FilesFinite
<1>2. f \in [UnitsOf(T, s) -> FilesOf(s)] BY DEF UnitsOf, FilesOf, Grounded
<1>3. f \in Injection(UnitsOf(T, s), FilesOf(s))
  <2>1. \A u, v \in UnitsOf(T, s) : f[u] = f[v] => u = v BY DEF UnitsOf, Grounded
  <2> QED BY <1>2, <2>1 DEF Injection, IsInjective
<1> QED BY <1>1, <1>3, FS_Injection

LEMMA ValidFinite ==
  ASSUME NEW c, NEW s \in Stratum, NEW S \in SUBSET Valid(c, s) PROVE IsFiniteSet(S)
BY FilesFinite, FS_Subset DEF Valid

-----------------------------------------------------------------------------
(* The load is at file a: what it passed is what lies before a.            *)

AtFile(l, a) ==
  /\ l.queue # None
  /\ l.retained < Cap[l.phase]
  /\ a \in l.queue
  /\ \A b \in l.queue : a[2] <= b[2]

LEMMA AtFileFacts ==
  ASSUME NEW c, NEW l \in Passes, NEW a, Progress(c, l), AtFile(l, a)
  PROVE  /\ a \in Archive /\ a[1] = l.stratum /\ c[a] # None /\ l.stratum \in Stratum
         /\ l.before = Cardinality(Before(c, a))
         /\ Before(c, a) = Valid(c, l.stratum) \ l.queue
         /\ \A b \in Archive : c[b] # None =>
              (Passed(l, b) <=> b[1] < a[1] \/ (b[1] = a[1] /\ b[2] < a[2]))
         /\ ~Passed(l, a)
         /\ Here(l.taken, a) = UnitsOf(l.taken, l.stratum)
         /\ Earlier(l.taken, a) = l.taken
         /\ Recorded(c, a) \notin l.taken
<1>1. a \in Archive /\ a[1] = l.stratum /\ c[a] # None /\ l.stratum \in Stratum
  BY DEF Progress, AtFile
<1>2. \A b \in l.queue : b \in Archive /\ b[1] = l.stratum /\ c[b] # None
  BY DEF Progress, AtFile
<1>3. \A b \in Archive : b[1] = l.stratum /\ c[b] # None => (b \notin l.queue <=> b[2] < a[2])
  <2> SUFFICES ASSUME NEW b \in Archive, b[1] = l.stratum, c[b] # None
               PROVE  b \notin l.queue <=> b[2] < a[2]
    OBVIOUS
  <2>1. a[2] \in Nat /\ b[2] \in Nat BY <1>1, ArchiveFacts
  <2>2. b \notin l.queue => b[2] < a[2] BY DEF Progress, AtFile, FilesOf
  <2>3. b \in l.queue => a[2] <= b[2] BY DEF AtFile
  <2> QED BY <2>1, <2>2, <2>3
<1>4. Before(c, a) = Valid(c, l.stratum) \ l.queue
  BY <1>1, <1>3 DEF Before, Valid, FilesOf
<1>5. l.before = Cardinality(Before(c, a))
  BY <1>4 DEF Progress, AtFile
<1>6. l.stratum \in Nat BY <1>1, DepthFacts
<1>7. \A b \in Archive : c[b] # None =>
        (Passed(l, b) <=> b[1] < a[1] \/ (b[1] = a[1] /\ b[2] < a[2]))
  <2> SUFFICES ASSUME NEW b \in Archive, c[b] # None
               PROVE  Passed(l, b) <=> b[1] < a[1] \/ (b[1] = a[1] /\ b[2] < a[2])
    OBVIOUS
  <2>1. CASE b[1] = l.stratum
    <3>1. ~(b[1] < l.stratum) BY <1>6, <2>1
    <3>2. l.queue # None BY DEF AtFile
    <3> QED BY <1>1, <1>3, <2>1, <3>1, <3>2 DEF Passed
  <2>2. CASE b[1] # l.stratum
    <3>1. Passed(l, b) <=> b[1] < l.stratum BY <2>2 DEF Passed
    <3>2. a[1] = l.stratum BY <1>1
    <3> QED BY <2>2, <3>1, <3>2
  <2> QED BY <2>1, <2>2
<1>8. ~Passed(l, a)
  <2>1. a[2] \in Nat /\ a[1] \in Nat BY <1>1, ArchiveFacts
  <2> QED BY <1>1, <1>7, <2>1
<1>9. \A u \in l.taken : u.archive \in Archive /\ c[u.archive] # None /\ Passed(l, u.archive)
  BY DEF Progress, Grounded
<1>10. Here(l.taken, a) = UnitsOf(l.taken, l.stratum)
  <2>1. \A u \in l.taken : u.archive[1] = a[1] => u.archive[2] < a[2]
    <3> SUFFICES ASSUME NEW u \in l.taken, u.archive[1] = a[1] PROVE u.archive[2] < a[2]
      OBVIOUS
    <3>1. a[1] \in Nat BY <1>1, ArchiveFacts
    <3> QED BY <1>7, <1>9, <3>1
  <2> QED BY <1>1, <2>1 DEF Here, UnitsOf
<1>11. Earlier(l.taken, a) = l.taken
  BY <1>7, <1>9 DEF Earlier, Here
<1>12. Recorded(c, a) \notin l.taken
  BY <1>8, <1>9 DEF Recorded, UnitOf
<1> QED BY <1>1, <1>4, <1>5, <1>7, <1>8, <1>10, <1>11, <1>12

(* A rule is about the files before: what is kept from a on matters not.   *)
LEMMA RuleFrame ==
  ASSUME NEW c, NEW T, NEW V, NEW a,
         Earlier(T, a) = Earlier(V, a), Here(T, a) = Here(V, a),
         Recorded(c, a) \in T <=> Recorded(c, a) \in V
  PROVE  Rule(c, T, a) <=> Rule(c, V, a)
BY DEF Rule, Eligible

(* The pass after file a, which it kept or left. *)
Advanced(c, l, m, a) ==
  /\ m.phase = l.phase /\ m.name = l.name /\ m.stratum = l.stratum /\ m.reserved = l.reserved
  /\ m.queue = l.queue \ {a}
  /\ m.parsed = [l.parsed EXCEPT ![a] = c[a]]
  /\ m.before = IF a \in Valid(c, l.stratum) THEN l.before + 1 ELSE l.before
  /\ \/ m.taken = l.taken /\ m.retained = l.retained
     \/ m.taken = l.taken \cup {Recorded(c, a)} /\ m.retained = l.retained + 1

LEMMA AdvancedPassed ==
  ASSUME NEW c, NEW l \in Passes, NEW a, Progress(c, l), AtFile(l, a),
         NEW m \in Passes, Advanced(c, l, m, a)
  PROVE  m.queue # None /\ \A b \in Archive : Passed(m, b) <=> Passed(l, b) \/ b = a
<1>1. a \in Archive /\ a[1] = l.stratum BY AtFileFacts
<1>2. l.queue \in SUBSET Archive BY DEF Progress, AtFile
<1>3. l.queue \ {a} # None BY <1>2, NoneFacts
<1> QED BY <1>1, <1>3 DEF Passed, Advanced, AtFile

LEMMA AdvancedProgress ==
  ASSUME NEW c \in [Archive -> Content \cup {None}], NEW l \in Passes, NEW a,
         Progress(c, l), AtFile(l, a), NEW m \in Passes, Advanced(c, l, m, a)
  PROVE  Progress(c, m)
<1>1. /\ a \in Archive /\ a[1] = l.stratum /\ c[a] # None /\ l.stratum \in Stratum
      /\ Before(c, a) = Valid(c, l.stratum) \ l.queue
      /\ Recorded(c, a) \notin l.taken
  BY AtFileFacts
<1>2. m.queue # None /\ \A b \in Archive : Passed(m, b) <=> Passed(l, b) \/ b = a
  BY AdvancedPassed
<1>3. m.stratum = l.stratum /\ m.queue = l.queue \ {a} /\ m.phase = l.phase
  BY DEF Advanced
<1>4. \A b \in Archive : m.parsed[b] \in {None, c[b]}
  <2>1. l.parsed \in [Archive -> Content \cup {None}] BY DEF Passes
  <2> QED BY <1>1, <2>1 DEF Progress, Advanced
<1>5. Grounded(c, m.taken) /\ \A u \in m.taken : Passed(m, u.archive)
  <2>1. Recorded(c, a).archive = a BY DEF Recorded, UnitOf
  <2>2. \A u \in m.taken : u \in l.taken \/ u = Recorded(c, a) BY DEF Advanced
  <2> QED BY <1>1, <1>2, <2>1, <2>2 DEF Progress, Grounded
<1>6. \A b \in m.queue : b \in Archive /\ b[1] = m.stratum /\ c[b] # None
  BY <1>3 DEF Progress, AtFile
<1>7. ASSUME NEW x \in FilesOf(m.stratum), NEW b \in m.queue, c[x] # None, x \notin m.queue
      PROVE  x[2] < b[2]
  <2>1. b \in l.queue /\ b # a BY <1>3
  <2>2. CASE x = a
    <3>1. a[2] <= b[2] BY <2>1 DEF AtFile
    <3>2. b \in Archive /\ b[1] = a[1] BY <1>1, <1>3, <1>6
    <3>3. a[2] # b[2] BY <1>1, <2>1, <3>2, ArchiveFacts
    <3>4. a[2] \in Nat /\ b[2] \in Nat BY <1>1, <3>2, ArchiveFacts
    <3> QED BY <2>2, <3>1, <3>3, <3>4
  <2>3. CASE x # a
    BY <1>3, <1>7, <2>1, <2>3 DEF Progress, AtFile
  <2> QED BY <2>2, <2>3
<1>8. m.before = Cardinality(Valid(c, m.stratum) \ m.queue)
  <2> DEFINE passed == Valid(c, l.stratum) \ l.queue
  <2>1. IsFiniteSet(passed) BY <1>1, ValidFinite
  <2>2. l.before = Cardinality(passed) BY DEF Progress, AtFile
  <2>3. CASE a \in Valid(c, l.stratum)
    <3>1. Valid(c, l.stratum) \ (l.queue \ {a}) = passed \cup {a} BY <2>3
    <3>2. a \notin passed BY DEF AtFile
    <3>3. Cardinality(passed \cup {a}) = Cardinality(passed) + 1 BY <2>1, <3>2, FS_AddElement
    <3> QED BY <1>3, <2>2, <2>3, <3>1, <3>3 DEF Advanced
  <2>4. CASE a \notin Valid(c, l.stratum)
    <3>1. Valid(c, l.stratum) \ (l.queue \ {a}) = passed BY <2>4
    <3> QED BY <1>3, <2>2, <2>4, <3>1 DEF Advanced
  <2> QED BY <2>3, <2>4
<1>9. /\ m.retained = Cardinality(UnitsOf(m.taken, m.stratum))
      /\ m.retained <= Cap[m.phase]
  <2>0. Cap[l.phase] \in Nat /\ l.retained \in Nat BY AllocationAssumption DEF Passes
  <2>1. l.retained = Cardinality(UnitsOf(l.taken, l.stratum)) /\ l.retained < Cap[l.phase]
    BY DEF Progress, AtFile
  <2>2. CASE m.taken = l.taken /\ m.retained = l.retained
    BY <1>3, <2>0, <2>1, <2>2
  <2>3. CASE m.taken = l.taken \cup {Recorded(c, a)} /\ m.retained = l.retained + 1
    <3> DEFINE kept == UnitsOf(l.taken, l.stratum)
    <3>1. IsFiniteSet(kept) BY <1>1, UnitsFinite DEF Progress
    <3>2. UnitsOf(m.taken, m.stratum) = kept \cup {Recorded(c, a)}
      BY <1>1, <1>3, <2>3 DEF UnitsOf, Recorded, UnitOf
    <3>3. Recorded(c, a) \notin kept BY <1>1 DEF UnitsOf
    <3>4. Cardinality(kept \cup {Recorded(c, a)}) = Cardinality(kept) + 1
      BY <3>1, <3>3, FS_AddElement
    <3> HIDE DEF kept
    <3>5. m.retained = Cardinality(UnitsOf(m.taken, m.stratum))
      BY <2>1, <2>3, <3>2, <3>4 DEF kept
    <3>6. m.retained <= Cap[m.phase] BY <1>3, <2>0, <2>1, <2>3
    <3> QED BY <3>5, <3>6
  <2> QED BY <2>2, <2>3 DEF Advanced
<1> QED BY <1>1, <1>2, <1>3, <1>4, <1>5, <1>6, <1>7, <1>8, <1>9 DEF Progress

(* What the loops of the pilot's phase decide at file a. *)
Considered(c, l, a) == a \in Valid(c, l.stratum) /\ l.before >= Offset[l.phase][l.stratum]

Accepts(c, l, a) ==
  Considered(c, l, a) => ~Unfit(Recorded(c, a)) /\ ~Contradicts(Recorded(c, a), l.taken)

Decides(c, l, m, a) ==
  m.taken = IF Considered(c, l, a) /\ ~CopyOf(Recorded(c, a), l.taken)
            THEN l.taken \cup {Recorded(c, a)} ELSE l.taken

LEMMA ConsideredIsEligible ==
  ASSUME NEW c, NEW l \in Passes, NEW a, Progress(c, l), AtFile(l, a), l.phase = "pilot",
         NEW T, Here(T, a) = UnitsOf(l.taken, l.stratum)
  PROVE  Eligible(c, T, a) <=> Considered(c, l, a)
<1>1. /\ a[1] = l.stratum /\ l.before = Cardinality(Before(c, a))
  BY AtFileFacts
<1>2. Cardinality(Here(T, a)) < Cap["pilot"] BY DEF Progress, AtFile
<1> QED BY <1>1, <1>2 DEF Eligible, Considered

LEMMA SelectAdvances ==
  ASSUME NEW c, NEW l \in Passes, NEW a, Progress(c, l), Selecting(c, l), AtFile(l, a),
         l.phase = "pilot", l.name = "select",
         NEW m \in Passes, Advanced(c, l, m, a), Accepts(c, l, a), Decides(c, l, m, a)
  PROVE  Selecting(c, m)
<1>1. /\ a \in Archive /\ a[1] = l.stratum /\ c[a] # None /\ l.stratum \in Stratum
      /\ \A b \in Archive : c[b] # None =>
           (Passed(l, b) <=> b[1] < a[1] \/ (b[1] = a[1] /\ b[2] < a[2]))
      /\ Here(l.taken, a) = UnitsOf(l.taken, l.stratum)
      /\ Earlier(l.taken, a) = l.taken
      /\ Recorded(c, a) \notin l.taken
  BY AtFileFacts
<1>2. \A b \in Archive : Passed(m, b) <=> Passed(l, b) \/ b = a
  BY AdvancedPassed
<1>3. m.stratum = l.stratum /\ m.phase = "pilot" /\ m.reserved = l.reserved BY DEF Advanced
<1>4. Recorded(c, a).archive = a BY DEF Recorded, UnitOf
<1>5. a[1] \in Nat /\ a[2] \in Nat BY <1>1, ArchiveFacts
<1>6. \A u \in m.taken : u \in l.taken \/ u = Recorded(c, a) BY DEF Decides
<1>7. \A u \in l.taken : u \in m.taken BY DEF Decides
<1>8. ASSUME NEW b \in Archive, c[b] # None, Passed(m, b) PROVE Rule(c, m.taken, b)
  <2>0. b[1] \in Nat /\ b[2] \in Nat BY ArchiveFacts
  <2>1. CASE b = a
    <3>1. Here(m.taken, a) = Here(l.taken, a) BY <1>4, <1>5, <1>6, <1>7 DEF Here
    <3>2. Earlier(m.taken, a) = Earlier(l.taken, a)
      BY <1>4, <1>5, <1>6, <1>7, <3>1 DEF Earlier
    <3>3. Eligible(c, m.taken, a) <=> Considered(c, l, a)
      BY <1>1, <3>1, ConsideredIsEligible
    <3>4. Earlier(m.taken, a) = l.taken BY <1>1, <3>2
    <3>5. Recorded(c, a) \in m.taken <=>
            Considered(c, l, a) /\ ~CopyOf(Recorded(c, a), l.taken)
      BY <1>1 DEF Decides
    <3> QED BY <2>1, <3>3, <3>4, <3>5 DEF Rule, Accepts
  <2>2. CASE b # a
    <3>1. Passed(l, b) BY <1>2, <1>8, <2>2
    <3>2. b[1] < a[1] \/ (b[1] = a[1] /\ b[2] < a[2]) BY <1>1, <1>8, <3>1
    <3>3. Here(m.taken, b) = Here(l.taken, b)
      BY <1>4, <1>5, <1>6, <1>7, <2>0, <3>2 DEF Here
    <3>4. Earlier(m.taken, b) = Earlier(l.taken, b)
      BY <1>4, <1>5, <1>6, <1>7, <2>0, <3>2, <3>3 DEF Earlier
    <3>5. Recorded(c, b).archive = b BY DEF Recorded, UnitOf
    <3>6. Recorded(c, b) \in m.taken <=> Recorded(c, b) \in l.taken
      BY <1>4, <1>6, <1>7, <2>2, <3>5
    <3>7. Rule(c, l.taken, b) BY <1>8, <3>1 DEF Selecting
    <3> QED BY <3>3, <3>4, <3>6, <3>7, RuleFrame
  <2> QED BY <2>1, <2>2
<1>9. ASSUME NEW s \in Stratum, s < m.stratum
      PROVE  Cardinality(UnitsOf(m.taken, s)) = Cap["pilot"]
  <2>1. s \in Nat /\ l.stratum \in Nat BY <1>1, DepthFacts
  <2>2. UnitsOf(m.taken, s) = UnitsOf(l.taken, s)
    BY <1>1, <1>3, <1>4, <1>6, <1>7, <1>9, <2>1 DEF UnitsOf
  <2> QED BY <1>3, <1>9, <2>2 DEF Selecting
<1> QED BY <1>3, <1>8, <1>9 DEF Selecting

(* The reservation has, at file a, the pilot's recordings from before a.   *)
LEMMA ReserveAgrees ==
  ASSUME NEW c, NEW l \in Passes, NEW j, NEW a, Progress(c, l), Reserving(c, l, j), AtFile(l, a),
         l.name = "reserve"
  PROVE  /\ l.phase = "pilot" /\ c[a] # None
         /\ Accepts(c, l, a)
         /\ Recorded(c, a) \in j.planned <=>
              Considered(c, l, a) /\ ~CopyOf(Recorded(c, a), l.taken)
<1>1. /\ a \in Archive /\ a[1] = l.stratum /\ c[a] # None /\ l.stratum \in Stratum
      /\ \A b \in Archive : c[b] # None =>
           (Passed(l, b) <=> b[1] < a[1] \/ (b[1] = a[1] /\ b[2] < a[2]))
      /\ Here(l.taken, a) = UnitsOf(l.taken, l.stratum)
  BY AtFileFacts
<1>2. /\ l.phase = "pilot" /\ PilotSelection(c, j.planned)
      /\ l.taken = {u \in j.planned : Passed(l, u.archive)}
  BY DEF Reserving
<1>3. \A u \in j.planned : u.archive \in Archive /\ c[u.archive] # None
  BY <1>2 DEF PilotSelection, Grounded
<1>4. Earlier(j.planned, a) = l.taken
  BY <1>1, <1>2, <1>3 DEF Earlier, Here
<1>5. Here(j.planned, a) = UnitsOf(l.taken, l.stratum)
  <2>1. a[1] \in Nat BY <1>1, ArchiveFacts
  <2>2. \A u \in j.planned :
          u.archive[1] = a[1] => (Passed(l, u.archive) <=> u.archive[2] < a[2])
    <3> SUFFICES ASSUME NEW u \in j.planned, u.archive[1] = a[1]
                 PROVE  Passed(l, u.archive) <=> u.archive[2] < a[2]
      OBVIOUS
    <3>1. Passed(l, u.archive) <=>
            u.archive[1] < a[1] \/ (u.archive[1] = a[1] /\ u.archive[2] < a[2])
      BY <1>1, <1>3
    <3> QED BY <2>1, <3>1
  <2> QED BY <1>1, <1>2, <2>2 DEF Here, UnitsOf
<1>6. Rule(c, j.planned, a) BY <1>1, <1>2 DEF PilotSelection
<1>7. Eligible(c, j.planned, a) <=> Considered(c, l, a)
  BY <1>2, <1>5, ConsideredIsEligible
<1> QED BY <1>1, <1>2, <1>4, <1>6, <1>7 DEF Rule, Accepts

LEMMA ReserveAdvances ==
  ASSUME NEW c, NEW l \in Passes, NEW j, NEW a, Progress(c, l), Reserving(c, l, j), AtFile(l, a),
         l.name = "reserve",
         NEW m \in Passes, Advanced(c, l, m, a), Decides(c, l, m, a)
  PROVE  Reserving(c, m, j)
<1>1. /\ l.phase = "pilot" /\ PilotSelection(c, j.planned)
      /\ l.taken = {u \in j.planned : Passed(l, u.archive)}
  BY DEF Reserving
<1>2. \A b \in Archive : Passed(m, b) <=> Passed(l, b) \/ b = a
  BY AdvancedPassed
<1>3. Recorded(c, a) \in j.planned <=>
        Considered(c, l, a) /\ ~CopyOf(Recorded(c, a), l.taken)
  BY ReserveAgrees
<1>4. \A u \in j.planned : u.archive \in Archive /\ u = Recorded(c, u.archive)
  BY <1>1 DEF PilotSelection, Grounded
<1>5. Recorded(c, a).archive = a BY DEF Recorded, UnitOf
<1>6. m.taken = {u \in j.planned : Passed(m, u.archive)}
  <2>1. CASE Recorded(c, a) \in j.planned
    <3>1. m.taken = l.taken \cup {Recorded(c, a)} BY <1>3, <2>1 DEF Decides
    <3>2. \A u \in j.planned : Passed(m, u.archive) <=> u \in l.taken \/ u = Recorded(c, a)
      BY <1>1, <1>2, <1>4, <1>5
    <3> QED BY <1>1, <2>1, <3>1, <3>2
  <2>2. CASE Recorded(c, a) \notin j.planned
    <3>1. m.taken = l.taken BY <1>3, <2>2 DEF Decides
    <3>2. \A u \in j.planned : Passed(m, u.archive) <=> Passed(l, u.archive)
      BY <1>2, <1>4, <2>2
    <3> QED BY <1>1, <3>1, <3>2
  <2> QED BY <2>1, <2>2
<1> QED BY <1>1, <1>6 DEF Reserving, Advanced

(* A stratum ends. *)
LEMMA CloseAdvances ==
  ASSUME NEW c, NEW l \in Passes, NEW j, Good(c, l, j), l.queue # None,
         ~(l.retained < Cap[l.phase]),
         NEW m \in Passes,
         m.stratum = l.stratum + 1, m.queue = None, m.phase = l.phase, m.name = l.name,
         m.taken = l.taken, m.reserved = l.reserved, m.parsed = l.parsed
  PROVE  Good(c, m, j)
<1>1. /\ l.stratum \in Stratum /\ l.stratum \in Nat
      /\ l.retained = Cardinality(UnitsOf(l.taken, l.stratum))
      /\ l.retained = Cap[l.phase]
      /\ \A u \in l.taken : u.archive \in Archive /\ c[u.archive] # None /\ Passed(l, u.archive)
  <2>1. l.retained \in Nat /\ Cap[l.phase] \in Nat BY AllocationAssumption DEF Passes
  <2>2. l.retained <= Cap[l.phase] /\ l.stratum \in Stratum BY DEF Good, Progress
  <2>3. l.retained = Cap[l.phase] BY <2>1, <2>2
  <2> QED BY <2>2, <2>3, DepthFacts DEF Good, Progress, Grounded
<1>2. /\ m.stratum = l.stratum + 1 /\ m.queue = None /\ m.phase = l.phase /\ m.name = l.name
      /\ m.taken = l.taken /\ m.reserved = l.reserved /\ m.parsed = l.parsed
  OBVIOUS
<1>3. \A b \in Archive : Passed(m, b) <=> b[1] <= l.stratum
  BY <1>1, <1>2, ArchiveFacts DEF Passed
<1>4. \A b \in Archive : Passed(l, b) => Passed(m, b)
  BY <1>1, <1>3, ArchiveFacts DEF Passed
<1>5. Progress(c, m)
  <2>1. m.stratum <= Len(Depth) + 1 BY <1>1, <1>2, DepthFacts DEF Stratum
  <2> QED BY <1>1, <1>2, <1>4, <2>1 DEF Good, Progress
<1>6. Selecting(c, m)
  <2> SUFFICES ASSUME l.phase = "pilot", l.name = "select" PROVE Selecting(c, m)
    BY <1>2 DEF Selecting
  <2>1. ASSUME NEW b \in Archive, c[b] # None, Passed(m, b) PROVE Rule(c, l.taken, b)
    <3>1. CASE Passed(l, b) BY <2>1, <3>1 DEF Good, Selecting
    <3>2. CASE ~Passed(l, b)
      <4>1. b[1] = l.stratum /\ b \in l.queue BY <1>1, <1>3, <2>1, <3>2, ArchiveFacts DEF Passed
      <4>2. Here(l.taken, b) = UnitsOf(l.taken, l.stratum)
        <5>1. ASSUME NEW u \in l.taken, u.archive[1] = l.stratum PROVE u.archive[2] < b[2]
          <6>1. u.archive \in Archive /\ c[u.archive] # None /\ Passed(l, u.archive) BY <1>1
          <6>2. u.archive \notin l.queue BY <1>1, <5>1, <6>1 DEF Passed
          <6> QED BY <4>1, <5>1, <6>1, <6>2 DEF Good, Progress, FilesOf
        <5> QED BY <4>1, <5>1 DEF Here, UnitsOf
      <4>3. ~Eligible(c, l.taken, b)
        <5>1. Cap["pilot"] \in Nat BY AllocationAssumption DEF Phase
        <5>2. Cardinality(Here(l.taken, b)) = Cap["pilot"] BY <1>1, <4>2
        <5> QED BY <5>1, <5>2 DEF Eligible
      <4>4. Recorded(c, b).archive = b BY DEF Recorded, UnitOf
      <4>5. Recorded(c, b) \notin l.taken BY <1>1, <3>2, <4>4
      <4> QED BY <4>3, <4>5 DEF Rule
    <3> QED BY <3>1, <3>2
  <2>2. ASSUME NEW s \in Stratum, s < m.stratum
        PROVE  Cardinality(UnitsOf(l.taken, s)) = Cap["pilot"]
    <3>1. s < l.stratum \/ s = l.stratum BY <1>1, <1>2, <2>2, DepthFacts
    <3> QED BY <1>1, <3>1 DEF Good, Selecting
  <2> QED BY <1>2, <2>1, <2>2 DEF Good, Selecting
<1>7. Reserving(c, m, j)
  <2> SUFFICES ASSUME l.name = "reserve" PROVE Reserving(c, m, j)
    BY <1>2 DEF Reserving
  <2>1. /\ l.phase = "pilot" /\ PilotSelection(c, j.planned)
        /\ l.taken = {u \in j.planned : Passed(l, u.archive)}
    BY DEF Good, Reserving
  <2>2. UnitsOf(l.taken, l.stratum) = UnitsOf(j.planned, l.stratum)
    <3> DEFINE S == UnitsOf(j.planned, l.stratum)
               T == UnitsOf(l.taken, l.stratum)
    <3>1. IsFiniteSet(S) BY <1>1, <2>1, UnitsFinite DEF PilotSelection
    <3>2. T \in SUBSET S BY <2>1 DEF UnitsOf
    <3>3. Cardinality(S) = Cardinality(T) BY <1>1, <2>1 DEF PilotSelection
    <3> HIDE DEF S, T
    <3>4. S = T BY <3>1, <3>2, <3>3, FS_Subset
    <3> QED BY <3>4 DEF S, T
  <2>3. ASSUME NEW u \in j.planned PROVE u \in l.taken <=> Passed(m, u.archive)
    <3>1. u.archive \in Archive BY <2>1 DEF PilotSelection, Grounded
    <3>2. u.archive[1] \in Nat BY <3>1, ArchiveFacts
    <3>3. CASE u.archive[1] = l.stratum
      <4>1. Passed(m, u.archive) BY <1>1, <1>3, <3>1, <3>3
      <4>2. u \in l.taken BY <2>2, <3>3 DEF UnitsOf
      <4> QED BY <4>1, <4>2
    <3>4. CASE u.archive[1] # l.stratum
      <4>1. Passed(m, u.archive) <=> u.archive[1] < l.stratum BY <1>1, <1>3, <3>1, <3>2, <3>4
      <4>2. Passed(l, u.archive) <=> u.archive[1] < l.stratum BY <3>4 DEF Passed
      <4> QED BY <2>1, <4>1, <4>2
    <3> QED BY <3>3, <3>4
  <2>4. l.taken = {u \in j.planned : Passed(m, u.archive)} BY <2>1, <2>3
  <2> QED BY <1>2, <2>1, <2>4 DEF Reserving
<1>8. Confirming(c, m, j) BY <1>2 DEF Good, Confirming
<1> QED BY <1>5, <1>6, <1>7, <1>8 DEF Good

(* The reservation finds what it owes in each stratum. *)
LEMMA ReservationFull ==
  ASSUME NEW c, NEW l \in Passes, NEW j, Good(c, l, j), l.name = "reserve",
         l.queue # None, l.retained = Cap[l.phase] \/ l.queue = {}
  PROVE  ~(l.retained < Cap[l.phase])
<1>1. /\ l.phase = "pilot" /\ PilotSelection(c, j.planned)
      /\ l.taken = {u \in j.planned : Passed(l, u.archive)}
  BY DEF Good, Reserving
<1>2. l.stratum \in Stratum /\ l.retained = Cardinality(UnitsOf(l.taken, l.stratum))
  BY DEF Good, Progress
<1>3. Cap[l.phase] \in Nat BY AllocationAssumption DEF Passes
<1>4. CASE l.queue = {}
  <2>1. UnitsOf(l.taken, l.stratum) = UnitsOf(j.planned, l.stratum)
    BY <1>1, <1>4 DEF UnitsOf, Passed
  <2>2. l.retained = Cap["pilot"] BY <1>1, <1>2, <2>1 DEF PilotSelection
  <2> QED BY <1>1, <1>3, <2>2
<1>5. CASE l.retained = Cap[l.phase] BY <1>3, <1>5
<1> QED BY <1>4, <1>5

(* A stratum begins. *)
LEMMA ListAdvances ==
  ASSUME NEW c, NEW l \in Passes, NEW j, Good(c, l, j), l.queue = None, l.stratum \in Stratum,
         NEW m \in Passes,
         m.stratum = l.stratum, m.phase = l.phase, m.name = l.name, m.taken = l.taken,
         m.reserved = l.reserved, m.parsed = l.parsed, m.before = 0, m.retained = 0,
         m.queue = {a \in Archive : a[1] = l.stratum /\ c[a] # None}
  PROVE  Good(c, m, j)
<1>1. m.queue # None
  <2>1. m.queue \in SUBSET Archive OBVIOUS
  <2> QED BY <2>1, NoneFacts
<1>2. \A b \in Archive : c[b] # None => (Passed(m, b) <=> Passed(l, b))
  BY <1>1 DEF Passed
<1>3. \A u \in l.taken : u.archive \in Archive /\ c[u.archive] # None /\ Passed(l, u.archive)
  BY DEF Good, Progress, Grounded
<1>4. l.stratum \in Nat BY DepthFacts
<1>5. Progress(c, m)
  <2>1. m.before = Cardinality(Valid(c, m.stratum) \ m.queue)
    <3>1. Valid(c, m.stratum) \ m.queue = {} BY DEF Valid, FilesOf
    <3> QED BY <3>1, FS_EmptySet
  <2>2. m.retained = Cardinality(UnitsOf(m.taken, m.stratum))
    <3>1. UnitsOf(m.taken, m.stratum) = {} BY <1>3, <1>4 DEF UnitsOf, Passed
    <3> QED BY <3>1, FS_EmptySet
  <2>3. m.retained <= Cap[m.phase] BY AllocationAssumption DEF Passes
  <2>4. \A a \in FilesOf(m.stratum), b \in m.queue : c[a] # None /\ a \notin m.queue => a[2] < b[2]
    BY DEF FilesOf
  <2>5. \A u \in m.taken : Passed(m, u.archive) BY <1>2, <1>3
  <2> QED BY <2>1, <2>2, <2>3, <2>4, <2>5 DEF Good, Progress
<1>6. Selecting(c, m) BY <1>2 DEF Good, Selecting
<1>7. Reserving(c, m, j)
  <2> SUFFICES ASSUME l.name = "reserve" PROVE Reserving(c, m, j)
    BY DEF Reserving
  <2>1. \A u \in j.planned : Passed(m, u.archive) <=> Passed(l, u.archive)
    BY <1>2 DEF Good, Reserving, PilotSelection, Grounded
  <2> QED BY <2>1 DEF Good, Reserving
<1>8. Confirming(c, m, j) BY DEF Good, Confirming
<1> QED BY <1>5, <1>6, <1>7, <1>8 DEF Good

LEMMA ReservationFindsFiles ==
  ASSUME NEW c, NEW l \in Passes, NEW j, Good(c, l, j), l.name = "reserve", l.stratum \in Stratum
  PROVE  {a \in Archive : a[1] = l.stratum /\ c[a] # None} # {}
<1>1. PilotSelection(c, j.planned) BY DEF Good, Reserving
<1>2. Cardinality(UnitsOf(j.planned, l.stratum)) # 0
  BY <1>1, AllocationAssumption DEF PilotSelection, Phase
<1>3. UnitsOf(j.planned, l.stratum) # {} BY <1>2, FS_EmptySet
<1>4. PICK u \in j.planned : u.archive[1] = l.stratum BY <1>3 DEF UnitsOf
<1> QED BY <1>1, <1>4 DEF PilotSelection, Grounded

(* Passes begin; a pilot's selection that ends is the one the rules say.   *)
LEMMA PassBegins ==
  ASSUME NEW c, NEW phase \in Phase, NEW name \in {"select", "reserve"}, NEW reserved, NEW parsed
  PROVE  LET l == Pass(phase, name, reserved, parsed)
         IN /\ l.phase = phase /\ l.name = name /\ l.reserved = reserved /\ l.parsed = parsed
            /\ l.taken = {} /\ l.queue = None /\ l.stratum = 1
            /\ \A b \in Archive : ~Passed(l, b)
<1> DEFINE l == Pass(phase, name, reserved, parsed)
<1>1. l.queue = None /\ l.stratum = 1 BY DEF Pass
<1>2. \A b \in Archive : ~(b[1] < 1) BY ArchiveFacts DEF Stratum
<1>3. \A b \in Archive : ~Passed(l, b) BY <1>1, <1>2 DEF Passed
<1> QED BY <1>3 DEF Pass

LEMMA BeginsGood ==
  ASSUME NEW c, NEW l, NEW j,
         l.taken = {}, l.queue = None, l.stratum = 1, \A b \in Archive : ~Passed(l, b),
         \A a \in Archive : l.parsed[a] \in {None, c[a]},
         l.phase = "pilot" /\ l.name = "select" => l.reserved = {},
         l.name = "reserve" => l.phase = "pilot" /\ PilotSelection(c, j.planned),
         l.phase = "confirmatory" =>
           l.name = "select" /\ PilotSelection(c, j.planned) /\ l.reserved = j.planned
  PROVE  Good(c, l, j)
<1>1. Progress(c, l) BY DepthFacts DEF Progress, Grounded
<1>2. Selecting(c, l)
  <2>1. \A s \in Stratum : ~(s < l.stratum) BY DEF Stratum
  <2> QED BY <2>1 DEF Selecting
<1>3. Reserving(c, l, j)
  <2>1. l.name = "reserve" => {u \in j.planned : Passed(l, u.archive)} = {}
    BY DEF PilotSelection, Grounded
  <2> QED BY <2>1 DEF Reserving
<1> QED BY <1>1, <1>2, <1>3 DEF Good, Confirming

LEMMA AllPassed ==
  ASSUME NEW l, l.stratum = Len(Depth) + 1 PROVE \A a \in Archive : Passed(l, a)
BY DepthFacts, ArchiveFacts DEF Passed, Stratum

LEMMA SelectionComplete ==
  ASSUME NEW c, NEW l \in Passes, NEW j, Good(c, l, j), l.phase = "pilot", l.name = "select",
         l.stratum = Len(Depth) + 1
  PROVE  PilotSelection(c, l.taken)
<1>1. \A s \in Stratum : s < l.stratum BY DepthFacts DEF Stratum
<1>2. l.taken \in SUBSET Units BY DEF Passes
<1> QED BY <1>1, <1>2, AllPassed DEF Good, Selecting, Progress, PilotSelection

LEMMA ReservationComplete ==
  ASSUME NEW c, NEW l \in Passes, NEW j, Good(c, l, j), l.name = "reserve",
         l.stratum = Len(Depth) + 1
  PROVE  l.taken = j.planned /\ PilotSelection(c, j.planned)
<1>1. \A u \in j.planned : Passed(l, u.archive)
  BY AllPassed DEF Good, Reserving, PilotSelection, Grounded
<1> QED BY <1>1 DEF Good, Reserving
-----------------------------------------------------------------------------
(* The steps of a load whose files have not changed since it began.        *)

Undisturbed == TypeOK /\ Steady /\ load # None /\ job.steady

LEMMA FileAdvances ==
  ASSUME NEW c \in [Archive -> Content \cup {None}], NEW l \in Passes, NEW j, NEW a,
         Good(c, l, j), AtFile(l, a), NEW m \in Passes, Advanced(c, l, m, a),
         l.phase = "pilot" => Decides(c, l, m, a),
         l.phase = "pilot" /\ l.name = "select" => Accepts(c, l, a)
  PROVE  Good(c, m, j)
<1>1. m.phase = l.phase /\ m.name = l.name /\ m.reserved = l.reserved BY DEF Advanced
<1>2. Progress(c, m) BY AdvancedProgress DEF Good
<1>3. Selecting(c, m) BY <1>1, SelectAdvances DEF Good, Selecting
<1>4. Reserving(c, m, j)
  <2>1. CASE l.name = "reserve"
    <3>1. l.phase = "pilot" BY <2>1 DEF Good, Reserving
    <3> QED BY <2>1, <3>1, ReserveAdvances DEF Good
  <2>2. CASE l.name # "reserve" BY <1>1, <2>2 DEF Reserving
  <2> QED BY <2>1, <2>2
<1>5. Confirming(c, m, j) BY <1>1 DEF Good, Confirming
<1> QED BY <1>2, <1>3, <1>4, <1>5 DEF Good

LEMMA UndisturbedFile ==
  ASSUME Undisturbed, NEW a \in Archive, Reading(a)
  PROVE  /\ Running /\ Good(corpus, load, job) /\ AtFile(load, a)
         /\ Projection(a) = corpus[a] /\ Projection(a) # None
         /\ Unit(a) = Recorded(corpus, a)
         /\ IsEmpty(a) <=> a \notin Valid(corpus, load.stratum)
         /\ Candidate(a) <=> Considered(corpus, load, a)
<1>1. Running /\ Good(corpus, load, job)
  BY DEF Undisturbed, Steady, TypeOK, Running
<1>2. AtFile(load, a) BY DEF Reading, AtFile
<1>3. load.parsed[a] \in {None, corpus[a]} BY <1>1 DEF Good, Progress
<1>4. corpus[a] # None /\ a[1] = load.stratum
  BY <1>1, <1>2, AtFileFacts DEF Good, Running
<1>5. Projection(a) = corpus[a] BY <1>3 DEF Projection
<1>6. Unit(a) = Recorded(corpus, a) BY <1>5 DEF Unit, Recorded
<1>7. IsEmpty(a) <=> a \notin Valid(corpus, load.stratum)
  BY <1>4, <1>5 DEF IsEmpty, Valid, FilesOf
<1>8. Candidate(a) <=> Considered(corpus, load, a)
  BY <1>4, <1>5, <1>7 DEF Candidate, Considered, InSlice
<1> QED BY <1>1, <1>2, <1>4, <1>5, <1>6, <1>7, <1>8

LEMMA SkipIsGood ==
  ASSUME Undisturbed, NEW a \in Archive, SkipArchive(a)
  PROVE  Good(corpus, load', job)
<1>1. Reading(a) /\ (IsEmpty(a) \/ ~InSlice) BY DEF SkipArchive
<1>2. /\ Running /\ Good(corpus, load, job) /\ AtFile(load, a)
      /\ Projection(a) = corpus[a] /\ Projection(a) # None
      /\ IsEmpty(a) <=> a \notin Valid(corpus, load.stratum)
  BY <1>1, UndisturbedFile
<1>3. ~Considered(corpus, load, a) BY <1>1, <1>2 DEF Considered, InSlice
<1>4. Beyond(a) \in Passes BY <1>1, <1>2, ReadingType DEF Undisturbed
<1> DEFINE before == IF IsEmpty(a) THEN load.before ELSE load.before + 1
           m == [Beyond(a) EXCEPT !.before = before]
<1>5. /\ Beyond(a).phase = load.phase /\ Beyond(a).name = load.name
      /\ Beyond(a).stratum = load.stratum /\ Beyond(a).reserved = load.reserved
      /\ Beyond(a).taken = load.taken /\ Beyond(a).retained = load.retained
      /\ Beyond(a).before = load.before /\ Beyond(a).queue = load.queue \ {a}
      /\ Beyond(a).parsed = [load.parsed EXCEPT ![a] = Projection(a)]
  BY <1>1, <1>2, ReadFields DEF Undisturbed
<1>6. load' = m
  <2>1. load' = [Beyond(a) EXCEPT !.before = IF IsEmpty(a) THEN @ ELSE @ + 1]
    BY DEF SkipArchive, Continue
  <2> QED BY <1>4, <1>5, <2>1 DEF Passes
<1>7. before \in Nat BY <1>2 DEF Running, Passes
<1>8. before = IF a \in Valid(corpus, load.stratum) THEN load.before + 1 ELSE load.before
  BY <1>2
<1> HIDE DEF before
<1>9. /\ m \in Passes /\ m.before = before
      /\ m.phase = Beyond(a).phase /\ m.name = Beyond(a).name /\ m.stratum = Beyond(a).stratum
      /\ m.reserved = Beyond(a).reserved /\ m.taken = Beyond(a).taken
      /\ m.retained = Beyond(a).retained /\ m.queue = Beyond(a).queue
      /\ m.parsed = Beyond(a).parsed
  BY <1>4, <1>7 DEF Passes
<1> HIDE DEF m
<1>10. Advanced(corpus, load, m, a) BY <1>2, <1>5, <1>8, <1>9 DEF Advanced
<1>11. Decides(corpus, load, m, a) BY <1>3, <1>5, <1>9 DEF Decides
<1>12. Accepts(corpus, load, a) BY <1>3 DEF Accepts
<1> QED
  BY <1>2, <1>6, <1>9, <1>10, <1>11, <1>12, FileAdvances DEF Undisturbed, TypeOK, Running

(* A file that is counted, and kept or not. *)
LEMMA CandidateAdvances ==
  ASSUME Undisturbed, NEW a \in Archive, Candidate(a)
  PROVE  /\ Counted(a) \in Passes /\ Kept(a) \in Passes
         /\ Advanced(corpus, load, Counted(a), a)
         /\ Advanced(corpus, load, Kept(a), a)
         /\ Counted(a).taken = load.taken
         /\ Kept(a).taken = load.taken \cup {Recorded(corpus, a)}
         /\ Considered(corpus, load, a)
<1>1. Reading(a) BY DEF Candidate
<1>2. /\ Projection(a) = corpus[a] /\ Unit(a) = Recorded(corpus, a)
      /\ Considered(corpus, load, a)
  BY <1>1, UndisturbedFile
<1>3. a \in Valid(corpus, load.stratum) BY <1>2 DEF Considered
<1>4. Counted(a) \in Passes /\ Kept(a) \in Passes BY CandidateType DEF Undisturbed
<1> QED BY <1>2, <1>3, <1>4, CandidateFields DEF Undisturbed, Advanced

(* The reservation does not fail, and keeps what the pilot kept. *)
LEMMA ReserveIsGood ==
  ASSUME Undisturbed, NEW a \in Archive, ReserveArchive(a)
  PROVE  load' # None /\ load'.name = "reserve" /\ job' = job /\ Good(corpus, load', job)
<1>1. Candidate(a) /\ Reading(a) /\ load.name = "reserve" BY DEF ReserveArchive, Candidate
<1>2. /\ Running /\ Good(corpus, load, job) /\ AtFile(load, a)
      /\ Unit(a) = Recorded(corpus, a)
  BY <1>1, UndisturbedFile
<1>3. Accepts(corpus, load, a)
  BY <1>1, <1>2, ReserveAgrees DEF Good, Running
<1>4. /\ Counted(a) \in Passes /\ Kept(a) \in Passes
      /\ Advanced(corpus, load, Counted(a), a) /\ Advanced(corpus, load, Kept(a), a)
      /\ Counted(a).taken = load.taken
      /\ Kept(a).taken = load.taken \cup {Recorded(corpus, a)}
      /\ Considered(corpus, load, a)
  BY <1>1, CandidateAdvances
<1> DEFINE m == IF CopyOf(Unit(a), load.taken) THEN Counted(a) ELSE Kept(a)
<1>5. load' = m /\ job' = job
  BY <1>2, <1>3, <1>4 DEF ReserveArchive, Accepts, Continue
<1>6. m \in Passes /\ Advanced(corpus, load, m, a) BY <1>4
<1>7. Decides(corpus, load, m, a) BY <1>2, <1>4 DEF Decides
<1>8. m.name = load.name BY <1>4 DEF Advanced
<1> HIDE DEF m
<1>9. Good(corpus, m, job)
  BY <1>2, <1>3, <1>6, <1>7, FileAdvances DEF Undisturbed, TypeOK, Running
<1> QED BY <1>1, <1>5, <1>6, <1>8, <1>9, NoneFacts

LEMMA SelectIsGood ==
  ASSUME Undisturbed, NEW a \in Archive, SelectArchive(a), load' # None
  PROVE  Good(corpus, load', job)
<1> DEFINE u == Unit(a)
           copied == [Counted(a) EXCEPT !.copies = @ \cup {u}]
<1>1. Candidate(a) /\ Reading(a) /\ load.name = "select" /\ ~LoadFails
  BY DEF SelectArchive, Candidate, LoadFails, End
<1>2. /\ Running /\ Good(corpus, load, job) /\ AtFile(load, a)
      /\ u = Recorded(corpus, a)
  BY <1>1, UndisturbedFile
<1>3. /\ Counted(a) \in Passes /\ Kept(a) \in Passes
      /\ Advanced(corpus, load, Counted(a), a) /\ Advanced(corpus, load, Kept(a), a)
      /\ Counted(a).taken = load.taken
      /\ Kept(a).taken = load.taken \cup {Recorded(corpus, a)}
      /\ Considered(corpus, load, a)
  BY <1>1, CandidateAdvances
<1>4. ~Rejected(u) BY <1>1 DEF SelectArchive
<1>5. load' = IF PassedOver(u) THEN copied ELSE Kept(a)
  BY <1>1, <1>4 DEF SelectArchive, Continue
<1>6. u \in Units BY <1>1, CandidateType DEF Undisturbed
<1>7. copied \in Passes /\ Advanced(corpus, load, copied, a) /\ copied.taken = load.taken
  <2> HIDE DEF u
  <2>1. Counted(a).copies \cup {u} \in SUBSET Units BY <1>3, <1>6 DEF Passes
  <2>2. copied = [Counted(a) EXCEPT !.copies = Counted(a).copies \cup {u}]
    BY <1>3 DEF Passes
  <2>3. copied \in Passes BY <1>3, <2>1, <2>2 DEF Passes
  <2>4. /\ copied.phase = Counted(a).phase /\ copied.name = Counted(a).name
        /\ copied.stratum = Counted(a).stratum /\ copied.reserved = Counted(a).reserved
        /\ copied.queue = Counted(a).queue /\ copied.parsed = Counted(a).parsed
        /\ copied.before = Counted(a).before /\ copied.taken = Counted(a).taken
        /\ copied.retained = Counted(a).retained
    BY <1>3, <2>2 DEF Passes
  <2> HIDE DEF copied
  <2>5. Advanced(corpus, load, copied, a) BY <1>3, <2>4 DEF Advanced
  <2> QED BY <1>3, <2>3, <2>4, <2>5
<1> DEFINE m == IF PassedOver(u) THEN copied ELSE Kept(a)
<1> HIDE DEF copied
<1>8. m \in Passes /\ Advanced(corpus, load, m, a) BY <1>3, <1>7
<1>9. ASSUME load.phase = "pilot" PROVE Decides(corpus, load, m, a) /\ Accepts(corpus, load, a)
  <2>1. load.reserved = {} BY <1>1, <1>2, <1>9 DEF Good, Selecting
  <2>2. PassedOver(u) <=> CopyOf(u, load.taken) BY <2>1 DEF PassedOver, CopyOf, Selected
  <2>3. ~Unfit(u) /\ ~Contradicts(u, load.taken)
    BY <1>4, <2>1 DEF Rejected, CopyOf, Selected
  <2> QED BY <1>2, <1>3, <1>7, <2>2, <2>3 DEF Decides, Accepts
<1> HIDE DEF m
<1>10. Good(corpus, m, job)
  BY <1>2, <1>8, <1>9, FileAdvances DEF Undisturbed, TypeOK, Running
<1> QED BY <1>5, <1>10 DEF m
(* What a load that ends had read, in both phases. *)
LEMMA PassEnds ==
  ASSUME Undisturbed, NEW name \in {"select", "reserve"}, Done(name)
  PROVE  /\ name = "reserve" => load.taken = job.planned /\ PilotSelection(corpus, job.planned)
         /\ name = "select" /\ load.phase = "pilot" => PilotSelection(corpus, load.taken)
<1>1. Running /\ Good(corpus, load, job)
  BY DEF Undisturbed, Steady, TypeOK, Running
<1>2. load.stratum = Len(Depth) + 1 /\ load.name = name BY DEF Done
<1> QED BY <1>1, <1>2, SelectionComplete, ReservationComplete DEF Running

(* A stratum that is listed, and one that is closed. *)
LEMMA ListIsGood ==
  ASSUME Undisturbed, ListStratum
  PROVE  /\ load' # None => load'.name = load.name /\ job' = job /\ Good(corpus, load', job)
         /\ load.name = "reserve" => load' # None
<1> DEFINE present == {a \in Archive : a[1] = load.stratum /\ corpus[a] # None}
           count == Cardinality(present)
           inventory == [load.inventory EXCEPT ![load.stratum] = count]
           m == [load EXCEPT !.queue = present, !.inventory = inventory,
                             !.before = 0, !.retained = 0]
<1>1. Running /\ Good(corpus, load, job) /\ load.queue = None /\ load.stratum \in Stratum
  BY DEF Undisturbed, Steady, TypeOK, Running, ListStratum
<1>2. CASE present = {}
  <2>1. load' = None BY <1>2 DEF ListStratum, LoadFails, End
  <2>2. load.name # "reserve" BY <1>1, <1>2, ReservationFindsFiles DEF Running
  <2> QED BY <2>1, <2>2
<1>3. CASE present # {}
  <2>1. load' = m /\ job' = job
    BY <1>1, <1>3 DEF ListStratum, Continue, Running, Passes
  <2>2. m \in Passes
    <3> DEFINE counts == {Cardinality(files) : files \in SUBSET Archive} \cup {0}
    <3>1. present \in SUBSET Archive OBVIOUS
    <3>2. count \in counts BY <3>1
    <3>3. load.inventory \in [Stratum -> counts] BY <1>1 DEF Running, Passes
    <3> HIDE DEF count, counts, present
    <3>4. inventory \in [Stratum -> counts] BY <3>2, <3>3
    <3> HIDE DEF inventory
    <3> QED BY <1>1, <3>1, <3>4 DEF Running, Passes, counts
  <2> HIDE DEF inventory, present
  <2>3. /\ m.stratum = load.stratum /\ m.phase = load.phase /\ m.name = load.name
        /\ m.taken = load.taken /\ m.reserved = load.reserved /\ m.parsed = load.parsed
        /\ m.before = 0 /\ m.retained = 0 /\ m.queue = present
    BY <1>1 DEF Running, Passes
  <2> HIDE DEF m
  <2>4. m.queue = {a \in Archive : a[1] = load.stratum /\ corpus[a] # None}
    BY <2>3 DEF present
  <2>5. Good(corpus, m, job) BY <1>1, <2>2, <2>3, <2>4, ListAdvances DEF Running
  <2> QED BY <2>1, <2>2, <2>3, <2>5, NoneFacts
<1> QED BY <1>2, <1>3

LEMMA CloseIsGood ==
  ASSUME Undisturbed, CloseStratum
  PROVE  /\ load' # None => load'.name = load.name /\ job' = job /\ Good(corpus, load', job)
         /\ load.name = "reserve" => load' # None
<1> DEFINE m == [load EXCEPT !.stratum = load.stratum + 1, !.queue = None]
<1>1. /\ Running /\ Good(corpus, load, job) /\ load.queue # None
      /\ load.retained = Cap[load.phase] \/ load.queue = {}
  BY DEF Undisturbed, Steady, TypeOK, Running, CloseStratum
<1>2. CASE load.retained < Cap[load.phase]
  <2>1. load' = None BY <1>2 DEF CloseStratum, LoadFails, End
  <2>2. load.name # "reserve" BY <1>1, <1>2, ReservationFull DEF Running
  <2> QED BY <2>1, <2>2
<1>3. CASE ~(load.retained < Cap[load.phase])
  <2>1. load' = m /\ job' = job
    BY <1>1, <1>3 DEF CloseStratum, Continue, Running, Passes
  <2>2. m \in Passes
    <3>1. load.stratum + 1 \in Nat BY <1>1 DEF Running, Passes
    <3> QED BY <1>1, <3>1 DEF Running, Passes
  <2>3. /\ m.stratum = load.stratum + 1 /\ m.queue = None /\ m.phase = load.phase
        /\ m.name = load.name /\ m.taken = load.taken /\ m.reserved = load.reserved
        /\ m.parsed = load.parsed
    BY <1>1 DEF Running, Passes
  <2> HIDE DEF m
  <2>4. Good(corpus, m, job) BY <1>1, <1>3, <2>2, <2>3, CloseAdvances DEF Running
  <2> QED BY <2>1, <2>2, <2>3, <2>4, NoneFacts
<1> QED BY <1>2, <1>3

LEMMA ReadsAreGood ==
  ASSUME Undisturbed, NEW a \in Archive, Read(a)
  PROVE  /\ load' # None => load'.name = load.name /\ job' = job /\ Good(corpus, load', job)
         /\ load.name = "reserve" => load' # None
<1>1. ASSUME ReadFails(a) PROVE FALSE BY <1>1, UndisturbedFile DEF ReadFails
<1>2. CASE SkipArchive(a)
  <2>1. Good(corpus, load', job) BY <1>2, SkipIsGood
  <2>2. Reading(a) /\ Projection(a) # None BY <1>2 DEF SkipArchive
  <2>3. Beyond(a) \in Passes /\ Beyond(a).name = load.name
    <3>1. Beyond(a) \in Passes BY <2>2, ReadingType DEF Undisturbed
    <3>2. Beyond(a).name = load.name BY <2>2, ReadFields DEF Undisturbed
    <3> QED BY <3>1, <3>2
  <2>4. load' = [Beyond(a) EXCEPT !.before = IF IsEmpty(a) THEN @ ELSE @ + 1] /\ job' = job
    BY <1>2 DEF SkipArchive, Continue
  <2>5. load'.name = load.name BY <2>3, <2>4 DEF Passes
  <2>6. load' # None
    <3>1. Beyond(a).before \in Nat BY <2>3 DEF Passes
    <3>2. load' \in Passes BY <2>3, <2>4, <3>1 DEF Passes
    <3> QED BY <3>2, NoneFacts
  <2> QED BY <2>1, <2>4, <2>5, <2>6
<1>3. CASE ReserveArchive(a)
  <2>1. load.name = "reserve" BY <1>3 DEF ReserveArchive
  <2> QED BY <1>3, <2>1, ReserveIsGood
<1>4. CASE SelectArchive(a)
  <2>1. load.name = "select" /\ Candidate(a) BY <1>4 DEF SelectArchive
  <2>2. load' # None => Good(corpus, load', job) BY <1>4, SelectIsGood
  <2>3. ASSUME load' # None PROVE load'.name = load.name /\ job' = job
    <3>1. /\ Counted(a) \in Passes /\ Counted(a).name = load.name /\ Kept(a).name = load.name
      BY <2>1, CandidateType, CandidateFields DEF Undisturbed
    <3>2. ~LoadFails BY <2>3 DEF LoadFails, End
    <3>3. \/ load' = [Counted(a) EXCEPT !.copies = @ \cup {Unit(a)}]
          \/ load' = Kept(a)
      BY <1>4, <3>2 DEF SelectArchive, Continue
    <3>4. job' = job BY <1>4, <3>2 DEF SelectArchive, Continue
    <3> QED BY <3>1, <3>3, <3>4 DEF Passes
  <2> QED BY <2>1, <2>2, <2>3
<1> QED BY <1>1, <1>2, <1>3, <1>4 DEF Read

(* A pass that begins when another one ends. *)
LEMMA FinishReservationIsGood ==
  ASSUME Undisturbed, FinishReservation
  PROVE  load' # None /\ load'.reserved = job.planned /\ job' = job /\ Good(corpus, load', job)
<1> DEFINE m == Pass("confirmatory", "select", load.taken, load.parsed)
<1>1. load' = m /\ job' = job /\ Done("reserve") BY DEF FinishReservation, Continue
<1>2. Running /\ Good(corpus, load, job) BY DEF Undisturbed, Steady, TypeOK, Running
<1>3. load.taken = job.planned /\ PilotSelection(corpus, job.planned) BY <1>1, PassEnds
<1>4. /\ load.taken \in SUBSET Units /\ load.parsed \in [Archive -> Content \cup {None}]
  BY <1>2 DEF Running, Passes
<1>5. m \in Passes BY <1>4, PassType DEF Phase
<1>6. /\ m.phase = "confirmatory" /\ m.name = "select" /\ m.reserved = load.taken
      /\ m.parsed = load.parsed /\ m.taken = {} /\ m.queue = None /\ m.stratum = 1
      /\ \A b \in Archive : ~Passed(m, b)
  BY PassBegins DEF Phase
<1>7. \A a \in Archive : m.parsed[a] \in {None, corpus[a]}
  BY <1>2, <1>6 DEF Good, Progress
<1> HIDE DEF m
<1>8. Good(corpus, m, job) BY <1>3, <1>6, <1>7, BeginsGood
<1> QED BY <1>1, <1>3, <1>5, <1>6, <1>8, NoneFacts

LEMMA UnparsedFacts ==
  ASSUME NEW phase \in Phase, NEW name \in {"select", "reserve"}, NEW reserved \in SUBSET Units
  PROVE  /\ Pass(phase, name, reserved, Unparsed) \in Passes
         /\ \A a \in Archive : Pass(phase, name, reserved, Unparsed).parsed[a] = None
<1>1. Unparsed \in [Archive -> Content \cup {None}] /\ \A a \in Archive : Unparsed[a] = None
  BY DEF Unparsed
<1>2. Pass(phase, name, reserved, Unparsed).parsed = Unparsed BY PassBegins
<1> HIDE DEF Unparsed
<1> QED BY <1>1, <1>2, PassType

LEMMA PlanningIsGood ==
  ASSUME Undisturbed, FinishPlanning, load' # None
  PROVE  Good(corpus, load', job')
<1> DEFINE m == Pass("pilot", "reserve", {}, Unparsed)
<1>1. load' = m /\ job' = [job EXCEPT !.planned = load.taken] /\ Done("select")
      /\ load.phase = "pilot"
  BY DEF FinishPlanning, End
<1>2. job'.planned = load.taken
  <2>1. job \in Invocations BY DEF Undisturbed, TypeOK
  <2> QED BY <1>1, <2>1 DEF Invocations
<1>3. PilotSelection(corpus, job'.planned) BY <1>1, <1>2, PassEnds
<1>4. /\ m.phase = "pilot" /\ m.name = "reserve" /\ m.taken = {} /\ m.queue = None
      /\ m.stratum = 1 /\ \A b \in Archive : ~Passed(m, b)
  BY PassBegins DEF Phase
<1>5. \A a \in Archive : m.parsed[a] \in {None, corpus[a]} BY UnparsedFacts DEF Phase
<1> HIDE DEF m
<1>6. Good(corpus, m, job') BY <1>3, <1>4, <1>5, BeginsGood
<1> QED BY <1>1, <1>6

LEMMA BeginIsGood ==
  ASSUME NEW kind \in Kind, Begin(kind) PROVE Good(corpus, load', job')
<1> DEFINE m == Pass("pilot", "select", {}, Unparsed)
<1>1. load' = m BY DEF Begin, PilotPass
<1>2. /\ m.phase = "pilot" /\ m.name = "select" /\ m.reserved = {} /\ m.taken = {}
      /\ m.queue = None /\ m.stratum = 1 /\ \A b \in Archive : ~Passed(m, b)
  BY PassBegins DEF Phase
<1>3. \A a \in Archive : m.parsed[a] \in {None, corpus[a]} BY UnparsedFacts DEF Phase
<1> HIDE DEF m
<1>4. Good(corpus, m, job') BY <1>2, <1>3, BeginsGood
<1> QED BY <1>1, <1>4
LEMMA NextSteady == TypeOK /\ Steady /\ [Next]_vars => Steady'
<1> SUFFICES ASSUME TypeOK, Steady, [Next]_vars, load' # None, job'.steady
             PROVE  Good(corpus', load', job')
  BY DEF Steady
<1>1. ASSUME NEW kind \in Kind, Begin(kind) PROVE Good(corpus', load', job')
  <2>1. corpus' = corpus BY <1>1 DEF Begin
  <2> QED BY <1>1, <2>1, BeginIsGood
<1>2. ASSUME load # None, job' = job PROVE Undisturbed
  BY <1>2 DEF Undisturbed
<1>3. CASE ListStratum
  <2>1. load # None /\ corpus' = corpus /\ job' = job
    BY <1>3 DEF ListStratum, LoadFails, End, Continue
  <2> QED BY <1>2, <1>3, <2>1, ListIsGood
<1>4. CASE CloseStratum
  <2>1. load # None /\ corpus' = corpus /\ job' = job
    BY <1>4 DEF CloseStratum, LoadFails, End, Continue
  <2> QED BY <1>2, <1>4, <2>1, CloseIsGood
<1>5. ASSUME NEW a \in Archive, Read(a) PROVE Good(corpus', load', job')
  <2>1. load # None BY <1>5 DEF Read, ReadFails, SkipArchive, ReserveArchive, SelectArchive, Reading
  <2>2. corpus' = corpus
    BY <1>5 DEF Read, ReadFails, SkipArchive, ReserveArchive, SelectArchive
  <2>3. job' = job
    BY <1>5 DEF Read, ReadFails, SkipArchive, ReserveArchive, SelectArchive, Continue, LoadFails, End
  <2> QED BY <1>2, <1>5, <2>1, <2>2, <2>3, ReadsAreGood
<1>6. ASSUME NEW a \in Archive, ChangeCorpus(a) PROVE Good(corpus', load', job')
  <2>1. load # None BY <1>6 DEF ChangeCorpus
  <2>2. job \in Invocations BY <2>1 DEF TypeOK
  <2>3. job'.steady = FALSE BY <1>6, <2>1, <2>2 DEF ChangeCorpus, Invocations
  <2> QED BY <2>3
<1>7. CASE FinishReservation
  <2>1. load # None /\ corpus' = corpus /\ job' = job BY <1>7 DEF FinishReservation, Done, Continue
  <2> QED BY <1>2, <1>7, <2>1, FinishReservationIsGood
<1>8. CASE FinishPlanning
  <2>1. load # None /\ corpus' = corpus BY <1>8 DEF FinishPlanning, Done
  <2>2. job \in Invocations BY <2>1 DEF TypeOK
  <2>3. job' = [job EXCEPT !.planned = load.taken] BY <1>8 DEF FinishPlanning, End
  <2>4. job.steady BY <2>2, <2>3 DEF Invocations
  <2>5. Undisturbed BY <2>1, <2>4 DEF Undisturbed
  <2> QED BY <1>8, <2>1, <2>5, PlanningIsGood
<1>9. CASE FinishPilot \/ FinishConfirmatory
  BY <1>9 DEF FinishPilot, FinishConfirmatory, LoadFails, End
<1>10. CASE UNCHANGED vars
  BY <1>10 DEF vars, Steady
<1> QED BY <1>1, <1>3, <1>4, <1>5, <1>6, <1>7, <1>8, <1>9, <1>10 DEF Next

LEMMA SteadyInvariant == Spec => []Steady
<1>1. Init => Steady BY DEF Init, Steady
<1> QED BY <1>1, NextSteady, TypeInvariant, PTL DEF Spec

(* A step of a reservation leads to the next one, and ends with the units  *)
(* of the pilot.                                                           *)
LEMMA ReservationStep ==
  ASSUME TypeOK, Steady, [Next]_vars, load # None, load.name = "reserve", job.steady
  PROVE  load' # None /\ (load'.name = "select" => load'.reserved = job.planned)
<1>0. Undisturbed BY DEF Undisturbed
<1>1. job # None BY NoneFacts DEF TypeOK
<1>2. ASSUME NEW kind \in Kind, Begin(kind) PROVE FALSE BY <1>1, <1>2 DEF Begin
<1>3. CASE ListStratum BY <1>0, <1>3, ListIsGood
<1>4. CASE CloseStratum BY <1>0, <1>4, CloseIsGood
<1>5. ASSUME NEW a \in Archive, Read(a)
      PROVE  load' # None /\ (load'.name = "select" => load'.reserved = job.planned)
  BY <1>0, <1>5, ReadsAreGood
<1>6. ASSUME NEW a \in Archive, ChangeCorpus(a)
      PROVE  load' # None /\ (load'.name = "select" => load'.reserved = job.planned)
  BY <1>6 DEF ChangeCorpus
<1>7. CASE FinishReservation BY <1>0, <1>7, FinishReservationIsGood
<1>8. ASSUME FinishPilot \/ FinishPlanning \/ FinishConfirmatory PROVE FALSE
  BY <1>8 DEF FinishPilot, FinishPlanning, FinishConfirmatory, Done
<1>9. CASE UNCHANGED vars BY <1>9 DEF vars
<1> QED BY <1>2, <1>3, <1>4, <1>5, <1>6, <1>7, <1>8, <1>9 DEF Next

THEOREM ReservationIsExact == Spec => ReservationRepeatsPilot
<1>1. TypeOK /\ Steady /\ [Next]_vars =>
        [load # None /\ load.name = "reserve" /\ job.steady =>
           /\ load' # None
           /\ load'.name = "select" => load'.reserved = job.planned]_vars
  BY ReservationStep
<1> QED BY <1>1, TypeInvariant, SteadyInvariant, PTL DEF Spec, ReservationRepeatsPilot

-----------------------------------------------------------------------------
(* What an undisturbed confirmatory selection shares with the pilot's:     *)
(* nothing.  It is apart from the content reserved, which is the pilot's,  *)
(* and the same file would give the same content.                          *)
LEMMA ConfirmatoryIsApart ==
  ASSUME Undisturbed, Separated, load.name = "select", load.phase = "confirmatory"
  PROVE  \A u \in load.taken, v \in job.planned : u.archive # v.archive /\ ~Alike(u, v)
<1> SUFFICES ASSUME NEW u \in load.taken, NEW v \in job.planned
             PROVE  u.archive # v.archive /\ ~Alike(u, v)
  OBVIOUS
<1>1. Good(corpus, load, job) BY DEF Undisturbed, Steady
<1>2. PilotSelection(corpus, job.planned) /\ load.reserved = job.planned
  BY <1>1 DEF Good, Confirming
<1>3. ~Alike(u, v) BY <1>2 DEF Undisturbed, Separated, ApartFromReserved
<1>4. u = Recorded(corpus, u.archive) BY <1>1 DEF Good, Progress, Grounded
<1>5. v = Recorded(corpus, v.archive) BY <1>2 DEF PilotSelection, Grounded
<1>6. u.archive = v.archive => u = v BY <1>4, <1>5
<1>7. u.archive # v.archive BY <1>3, <1>6 DEF Alike
<1> QED BY <1>3, <1>7

LEMMA NextShared ==
  TypeOK /\ Steady /\ Separated /\ PhasesShareNothing /\ [Next]_vars => PhasesShareNothing'
<1> SUFFICES ASSUME TypeOK, Steady, Separated, PhasesShareNothing, [Next]_vars
             PROVE  PhasesShareNothing'
  OBVIOUS
<1>1. CASE admitted' = admitted BY <1>1 DEF PhasesShareNothing
<1>2. CASE admitted' # admitted
  <2>1. FinishConfirmatory
    BY <1>2 DEF Next, Begin, ListStratum, CloseStratum, Read, ReadFails, SkipArchive,
                ReserveArchive, SelectArchive, ChangeCorpus, FinishReservation, FinishPilot,
                FinishPlanning, vars
  <2>2. /\ load # None /\ load.name = "select" /\ load.phase = "confirmatory"
        /\ ~Shared(load.taken, manifest)
        /\ admitted' = [units |-> load.taken, pilot |-> job.planned,
                        against |-> manifest, steady |-> job.steady]
    BY <1>2, <2>1 DEF FinishConfirmatory, Done
  <2>3. ASSUME job.steady \/ manifest = job.planned,
               NEW u \in load.taken, NEW v \in job.planned
        PROVE  u.archive # v.archive /\ ~Alike(u, v)
    <3>1. CASE job.steady
      <4>1. Undisturbed BY <2>2, <3>1 DEF Undisturbed
      <4> QED BY <2>2, <2>3, <4>1, ConfirmatoryIsApart
    <3>2. CASE manifest = job.planned BY <2>2, <2>3, <3>2 DEF Shared
    <3> QED BY <2>3, <3>1, <3>2
  <2>4. /\ admitted'.units = load.taken /\ admitted'.pilot = job.planned
        /\ admitted'.against = manifest /\ admitted'.steady = job.steady
    BY <2>2
  <2> QED BY <2>3, <2>4 DEF PhasesShareNothing
<1> QED BY <1>1, <1>2

THEOREM PhasesAreIsolated == Spec => []PhasesShareNothing
<1>1. Init => PhasesShareNothing BY DEF Init, PhasesShareNothing
<1> QED BY <1>1, NextShared, TypeInvariant, SteadyInvariant, SeparationInvariant, PTL DEF Spec

(* The streams of a selection are as many as its recordings. *)
LEMMA SelectionIsUnique ==
  ASSUME Undisturbed, Separated PROVE Unique
<1> DEFINE T == load.taken
           streams == {u.stream : u \in T}
           f == [u \in T |-> u.stream]
           file == [u \in T |-> u.archive]
           strata == {{s} \X (1..Depth[s]) : s \in Stratum}
           g == [s \in Stratum |-> {s} \X (1..Depth[s])]
<1>1. IsFiniteSet(Archive)
  <2>1. IsFiniteSet(Stratum)
    <3>1. 1 \in Int /\ Len(Depth) \in Int BY DepthFacts
    <3> QED BY <3>1, FS_Interval DEF Stratum
  <2>2. g \in Surjection(Stratum, strata) BY DEF Surjection
  <2>3. IsFiniteSet(strata) BY <2>1, <2>2, FS_Surjection
  <2>4. ASSUME NEW s \in Stratum PROVE IsFiniteSet({s} \X (1..Depth[s]))
    <3>1. 1 \in Int /\ Depth[s] \in Int BY DepthFacts
    <3>2. IsFiniteSet(1..Depth[s]) BY <3>1, FS_Interval
    <3>3. IsFiniteSet({s}) BY FS_Singleton
    <3> QED BY <3>2, <3>3, FS_Product
  <2>5. \A files \in strata : IsFiniteSet(files) BY <2>4
  <2> QED BY <2>3, <2>5, FS_UNION DEF Archive
<1>2. \A u \in T : u.archive \in Archive /\ u = Recorded(corpus, u.archive)
  BY DEF Undisturbed, Steady, Good, Progress, Grounded
<1>3. IsFiniteSet(T)
  <2>1. file \in [T -> Archive] BY <1>2
  <2>2. \A u, v \in T : file[u] = file[v] => u = v BY <1>2
  <2> HIDE DEF T, file
  <2>3. file \in Injection(T, Archive) BY <2>1, <2>2 DEF Injection, IsInjective
  <2> QED BY <1>1, <2>3, FS_Injection
<1>4. \A u, v \in T : f[u] = f[v] => u = v
  BY DEF Undisturbed, Separated, PartitionsShareNothing, Alike
<1>5. f \in [T -> streams] /\ \A x \in streams : \E u \in T : f[u] = x OBVIOUS
<1> HIDE DEF T, streams, f
<1>6. f \in Surjection(T, streams) BY <1>5 DEF Surjection
<1>7. f \in Injection(T, streams) BY <1>4, <1>5 DEF Injection, IsInjective
<1>8. Cardinality(streams) = Cardinality(T) BY <1>3, <1>6, <1>7, FS_Surjection
<1> QED BY <1>8 DEF Unique, T, streams

THEOREM GateIsSatisfied == Spec => ReservationSatisfiesGate
<1>1. ASSUME TypeOK, TypeOK', Steady, Separated, [Next]_vars,
             FinishConfirmatory, job.steady, manifest # None, manifest = job.planned
      PROVE  admitted' # None /\ admitted'.units = load.taken
  <2>1. load # None /\ load.name = "select" /\ load.phase = "confirmatory"
    BY <1>1 DEF FinishConfirmatory, Done
  <2>2. Undisturbed BY <1>1, <2>1 DEF Undisturbed
  <2>3. Unique BY <1>1, <2>2, SelectionIsUnique
  <2>4. ~Shared(load.taken, manifest)
    BY <1>1, <2>1, <2>2, ConfirmatoryIsApart DEF Shared
  <2>5. admitted' = [units |-> load.taken, pilot |-> job.planned,
                     against |-> manifest, steady |-> job.steady]
    BY <1>1, <2>3, <2>4 DEF FinishConfirmatory
  <2>6. admitted' \in Admissions
    <3>1. Running BY <1>1, <2>1 DEF TypeOK, Running
    <3>2. load.taken \in SUBSET Units BY <3>1 DEF Running, Passes
    <3>3. job \in Invocations BY <1>1, <2>1 DEF TypeOK
    <3>4. manifest \in SUBSET Units BY <1>1 DEF TypeOK
    <3> QED BY <1>1, <2>5, <3>2, <3>3, <3>4 DEF Admissions, Invocations
  <2> QED BY <2>5, <2>6, NoneFacts
<1>2. TypeOK /\ TypeOK' /\ Steady /\ Separated /\ [Next]_vars =>
        [FinishConfirmatory /\ job.steady /\ manifest # None /\ manifest = job.planned =>
           admitted' # None /\ admitted'.units = load.taken]_vars
  BY <1>1
<1> QED
  BY <1>2, TypeInvariant, SteadyInvariant, SeparationInvariant, PTL
  DEF Spec, ReservationSatisfiesGate
=============================================================================
