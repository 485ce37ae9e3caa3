---------------------------- MODULE BaselineFreeze ----------------------------
(***************************************************************************)
(* evidence/v1_baseline.py, driven by scripts/freeze_v1_baseline.py:       *)
(* invocations that freeze the project's files into a manifest while other *)
(* tools edit them.  An invocation reads every item of the inventory file  *)
(* by file, then Git's view of the worktree; before it publishes it reads  *)
(* everything again, Git first.  A manifest is published in a directory    *)
(* named by its own content: the directory is created exclusively, then    *)
(* the complete manifest is linked into it.                                *)
(*                                                                         *)
(* The invocations are given the same observed_at; others have identities  *)
(* of their own and share nothing.  Left out are the items that are never  *)
(* verified (mutable pointers, known absences, storage, images), the       *)
(* entries of a directory's files, which are verified after the directory  *)
(* itself and can only refuse more, and the staging files, which have      *)
(* fresh names and are read by nobody.  A file is what its identity        *)
(* covers: its bytes, or the admitted values of a configuration.           *)
(***************************************************************************)
EXTENDS Naturals, FiniteSets, Sequences

CONSTANTS Process,      \* invocations that may run at a time
          File,         \* what can be read in one go, numbered as sorted by name
          Item,         \* entries of the inventory, and Repository
          Repository,   \* Git's view: HEAD, branch, status, dirty overlays
          Inventory,    \* the other items, in the order they are read
          Directories,  \* the items that are directories
          Members,      \* the files of an item
          Content,      \* what a file can hold
          Absent,       \* ... or that there is no such file
          Unreadable,   \* an observation that failed
          Initial,      \* what the files hold before the first edit
          MaxEdits,     \* bound of edits
          MaxFaults     \* bound of crashes and failures

Held == Content \cup {Absent}

ASSUME FreezeAssumption ==
  /\ File \subseteq Nat
  /\ Repository \in Item
  /\ Inventory \in Seq(Item)
  /\ \A i \in Item \ {Repository} : \E k \in DOMAIN Inventory : Inventory[k] = i
  /\ \A k \in DOMAIN Inventory : Inventory[k] # Repository
  /\ Directories \subseteq Item
  /\ Members \in [Item -> SUBSET File]
  /\ Unreadable \notin Held
  /\ Initial \in [File -> Held]
  /\ MaxEdits \in Nat
  /\ MaxFaults \in Nat

VARIABLES
  content,      \* content[f]: what the file holds now
  past,         \* history: every content of the project so far
  directories,  \* manifests whose final directory exists
  published,    \* manifests linked into theirs
  proc,         \* proc[p]: the invocation p runs
  interrupted,  \* history: p died between the directory and the link
  faults        \* crashes and failures so far

project == <<content, past>>
results == <<directories, published>>
vars == <<project, results, proc, interrupted, faults>>

Blank == [f \in File |-> Absent]
NoEntry == [status |-> "missing", seen |-> Blank]

(* An invocation: where it is, whether it reads to verify, the items left, *)
(* the manifest, the listed files left to read and what it has seen.       *)
Idle == [pc |-> "idle", verifying |-> FALSE, todo |-> << >>,
         manifest |-> [i \in Item |-> NoEntry], left |-> {}, seen |-> Blank]

Init ==
  /\ content = Initial
  /\ past = {Initial}
  /\ directories = {}
  /\ published = {}
  /\ proc = [p \in Process |-> Idle]
  /\ interrupted = FALSE
  /\ faults = 0

At(p, pc) == proc[p].pc = pc
Become(p, next) == proc' = [proc EXCEPT ![p] = next]
Exit(p) == Become(p, Idle)

-----------------------------------------------------------------------------
(* build_manifest starts: every item of the inventory, Git's view last.    *)
Begin(p) ==
  /\ At(p, "idle")
  /\ Become(p, [Idle EXCEPT !.pc = "list", !.todo = Append(Inventory, Repository)])
  /\ UNCHANGED <<project, results, interrupted, faults>>

(* _entry_for_expected: one unreadable file makes the whole item           *)
(* unverifiable, with nothing retained; a single file may be missing.      *)
(* Git's view keeps what could be read.                                    *)
Entry(i, seen) ==
  IF i # Repository /\ \E f \in Members[i] : seen[f] = Unreadable
  THEN [status |-> "unverifiable", seen |-> Blank]
  ELSE IF i \notin Directories \cup {Repository} /\ seen = Blank THEN NoEntry
  ELSE [status |-> "verified", seen |-> seen]

(* On to the next item, or to what follows the last one. *)
Advance(invocation) ==
  LET rest == Tail(invocation.todo)
  IN  [invocation EXCEPT !.todo = rest, !.left = {}, !.seen = Blank,
                         !.pc = IF rest # << >> THEN "list"
                                ELSE IF invocation.verifying THEN "directory"
                                ELSE "publish"]

(* The end of an item: its entry is collected or, in the second reading,   *)
(* compared; a difference ends the invocation without a manifest.          *)
Conclude(invocation, seen) ==
  LET i == Head(invocation.todo)
      entry == Entry(i, seen)
  IN  IF ~invocation.verifying
      THEN [Advance(invocation) EXCEPT !.manifest = [invocation.manifest EXCEPT ![i] = entry]]
      ELSE IF entry = invocation.manifest[i] THEN Advance(invocation) ELSE Idle

(* _reverify_entry returns at once for an entry that claims nothing; Git's *)
(* view is compared whatever it says.                                      *)
Claims(i, entry) == i = Repository \/ entry.status = "verified"

(* _directory_inventory, the existence of a file, git status: which files  *)
(* there are, at one instant, before any of them is read.                  *)
List(p) ==
  /\ At(p, "list")
  /\ LET i == Head(proc[p].todo)
         listed == {f \in Members[i] : content[f] # Absent}
     IN  Become(p, IF proc[p].verifying /\ ~Claims(i, proc[p].manifest[i])
                   THEN Advance(proc[p])
                   ELSE IF listed = {} THEN Conclude(proc[p], Blank)
                   ELSE [proc[p] EXCEPT !.pc = "read", !.left = listed])
  /\ UNCHANGED <<project, results, interrupted, faults>>

(* One listed file has been read, with this outcome. *)
Observe(p, f, outcome) ==
  LET seen == [proc[p].seen EXCEPT ![f] = outcome]
      left == IF outcome = Unreadable /\ Head(proc[p].todo) # Repository
              THEN {} ELSE proc[p].left \ {f}
  IN  Become(p, IF left = {} THEN Conclude(proc[p], seen)
                ELSE [proc[p] EXCEPT !.left = left, !.seen = seen])

(* The file a reading is at. *)
Current(p, f) ==
  /\ At(p, "read")
  /\ f \in proc[p].left
  /\ \A g \in proc[p].left : f <= g

(* sha256_file_stable: the signature before and after makes the reading    *)
(* one instant; a file deleted since it was listed cannot be read.         *)
Read(p, f) ==
  /\ Current(p, f)
  /\ Observe(p, f, IF content[f] = Absent THEN Unreadable ELSE content[f])
  /\ UNCHANGED <<project, results, interrupted, faults>>

(* The file changed while it was read, or could not be read.               *)
ReadFails(p, f) ==
  /\ Current(p, f)
  /\ faults < MaxFaults
  /\ faults' = faults + 1
  /\ Observe(p, f, Unreadable)
  /\ UNCHANGED <<project, results, interrupted>>

-----------------------------------------------------------------------------
(* publish_manifest. *)

(* Slip: nothing is read again. *)
Slip_Publish(p) ==
  /\ At(p, "publish")
  /\ IF proc[p].manifest \in published
     THEN Exit(p)
     ELSE Become(p, [proc[p] EXCEPT !.verifying = TRUE, !.pc = "directory"])
  /\ UNCHANGED <<project, results, interrupted, faults>>

(* A manifest that is published already is a success; otherwise everything *)
(* is read again, Git's view first.                                        *)
Publish(p) ==
  /\ At(p, "publish")
  /\ IF proc[p].manifest \in published
     THEN Exit(p)
     ELSE Become(p, [proc[p] EXCEPT !.verifying = TRUE, !.pc = "list",
                                    !.todo = <<Repository>> \o Inventory])
  /\ UNCHANGED <<project, results, interrupted, faults>>

(* mkdir(exist_ok=False): with the directory there already, the invocation *)
(* succeeds or fails by whether the manifest is in it.                     *)
MakeDirectory(p) ==
  /\ At(p, "directory")
  /\ IF proc[p].manifest \in directories
     THEN Exit(p)
     ELSE Become(p, [proc[p] EXCEPT !.pc = "link"])
  /\ directories' = directories \cup {proc[p].manifest}
  /\ UNCHANGED <<project, published, interrupted, faults>>

Link(p) ==
  /\ At(p, "link")
  /\ published' = published \cup {proc[p].manifest}
  /\ Exit(p)
  /\ UNCHANGED <<project, directories, interrupted, faults>>

(* Slip: the directory stays. *)
Slip_LinkFails(p) ==
  /\ At(p, "link")
  /\ faults < MaxFaults
  /\ faults' = faults + 1
  /\ Exit(p)
  /\ UNCHANGED <<project, results, interrupted>>

(* os.link raises: the empty directory is removed. *)
LinkFails(p) ==
  /\ At(p, "link")
  /\ faults < MaxFaults
  /\ faults' = faults + 1
  /\ directories' = directories \ {proc[p].manifest}
  /\ Exit(p)
  /\ UNCHANGED <<project, published, interrupted>>

-----------------------------------------------------------------------------
(* The invocation ends anywhere; between the directory and the link it     *)
(* leaves an empty directory behind.                                       *)
Crash(p) ==
  /\ ~At(p, "idle")
  /\ faults < MaxFaults
  /\ faults' = faults + 1
  /\ interrupted' = (interrupted \/ At(p, "link"))
  /\ Exit(p)
  /\ UNCHANGED <<project, results>>

(* Someone writes, creates or deletes a file, or commits.  No file comes   *)
(* back to what it held before: what is put back while nobody looks cannot *)
(* be told from what never changed.                                        *)
Edit(f, held) ==
  /\ Cardinality(past) <= MaxEdits
  /\ \A earlier \in past : earlier[f] # held
  /\ content' = [content EXCEPT ![f] = held]
  /\ past' = past \cup {content'}
  /\ UNCHANGED <<results, proc, interrupted, faults>>

Step(p) ==
  \/ Begin(p) \/ List(p) \/ Publish(p) \/ MakeDirectory(p) \/ Link(p)
  \/ \E f \in File : Read(p, f)

Failure(p) ==
  \/ LinkFails(p) \/ Crash(p)
  \/ \E f \in File : ReadFails(p, f)

Next ==
  \/ \E p \in Process : Step(p) \/ Failure(p)
  \/ \E f \in File, held \in Held : Edit(f, held)

Spec == Init /\ [][Next]_vars

(* The command is repeated, and an invocation goes on unless it dies.      *)
FairSpec == Spec /\ \A p \in Process : WF_vars(Step(p))

-----------------------------------------------------------------------------
(* Properties. *)

(* The content agrees with everything the manifest verified. *)
Describes(manifest, held) ==
  \A i \in Item : manifest[i].status = "verified" =>
    \A f \in Members[i] : manifest[i].seen[f] \in {held[f], Unreadable}

(* A published baseline describes the project as it was at one moment: the *)
(* files it verified, and Git's view of them, were read one by one and     *)
(* while others wrote them, but all of them held what it says at the same  *)
(* time (publish_manifest: everything is read again before publication).   *)
BaselineIsSnapshot ==
  \A manifest \in published : \E held \in past : Describes(manifest, held)

(* Unless an invocation dies between the directory and the link, whose     *)
(* remains every later one refuses, no failure keeps repeated invocations  *)
(* from publishing the project as it is once the edits end.                *)
Observed(i) == [f \in File |-> IF f \in Members[i] THEN content[f] ELSE Absent]
Accurate(manifest) == manifest = [i \in Item |-> Entry(i, Observed(i))]

FreezeCompletes ==
  [](~interrupted) => <>(\E manifest \in published : Accurate(manifest))
=============================================================================
