------------------------- MODULE ConsensusApp_proofs -------------------------
(***************************************************************************)
(* Agreement, durability and the implementation of RoundRegistry, for any  *)
(* number of validators, any transactions and any bound on the chain.      *)
(*                                                                         *)
(* The argument: the registry after each height is a function of the       *)
(* decided blocks (LedgerFollowsChain), and a validator's memory, its file *)
(* and what it is about to commit are never anything but the registry of   *)
(* some height (LedgerState).  The properties follow, because a height     *)
(* determines the registry and its hash.  What a registry answers for a    *)
(* round id is the last accepted transaction of that id up to its height   *)
(* (LedgerAnswers, by induction over the height).                          *)
(***************************************************************************)
EXTENDS ConsensusApp, SequenceTheorems, WellFoundedInduction, TLAPS

IsSeq(s) == s \in Seq({s[i] : i \in DOMAIN s})

(* The PersistedState an application that executed h blocks has. *)
LedgerState(h) ==
  [height |-> h,
   rounds |-> ledger[h + 1],
   hash   |-> IF h = 0 THEN {} ELSE {AppHash(h, ledger[h + 1])}]

LedgerStates == {LedgerState(h) : h \in 0..Len(chain)}

LedgerFollowsChain ==
  /\ IsSeq(chain) /\ IsSeq(ledger)
  /\ Len(chain) \in Nat /\ Len(chain) <= MaxHeight
  /\ Len(ledger) = Len(chain) + 1
  /\ ledger[1] = EmptyRegistry
  /\ \A h \in 1..Len(chain) :
       ledger[h + 1] = Overlay(ledger[h], BlockRounds(chain[h], h))

(* Only a Commit that failed leaves another app hash in memory. *)
MemoryFollowsLedger ==
  /\ state = [n \in Node |-> state[n]]
  /\ \A n \in Node :
       /\ state[n].height \in 0..Len(chain)
       /\ state[n].rounds = ledger[state[n].height + 1]
       /\ proc[n] # "halted" => state[n] = LedgerState(state[n].height)

(* What FinalizeBlock left for Commit is the next height of the ledger. *)
PendingFollowsLedger ==
  /\ pending = [n \in Node |-> pending[n]]
  /\ \A n \in Node :
       /\ pending[n].height \in 0..Len(chain)
       /\ ReadyToCommit(n) =>
            /\ pending[n].rounds = BlockRounds(chain[NextHeight(n)], NextHeight(n))
            /\ pending[n].hash = {AppHash(NextHeight(n), ledger[NextHeight(n) + 1])}

Files == {MissingFile, TornFile} \cup {SavedFile(s) : s \in LedgerStates}

FileFollowsLedger == disk \in [Node -> Files]

(* The block stores, and the processes whose file and memory coincide. *)
StoreAndProcess ==
  /\ mempool \subseteq Tx
  /\ store \in [Node -> SUBSET (0..Len(chain))]
  /\ retain \in [Node -> 0..Len(chain)]
  /\ proc \in [Node -> {"up", "down", "halted"}]

Inductive ==
  /\ LedgerFollowsChain
  /\ MemoryFollowsLedger
  /\ PendingFollowsLedger
  /\ FileFollowsLedger
  /\ StoreAndProcess
  /\ MemoryIsDurable
  /\ RetainedHeightIsDurable

-----------------------------------------------------------------------------
(* Sequences. *)

LEMMA AppendToSeq ==
  ASSUME NEW s, IsSeq(s), NEW x
  PROVE  /\ IsSeq(Append(s, x))
         /\ Len(s) \in Nat
         /\ Len(Append(s, x)) = Len(s) + 1
         /\ \A i \in 1..Len(s) : Append(s, x)[i] = s[i]
         /\ Append(s, x)[Len(s) + 1] = x
<1> DEFINE S == {s[i] : i \in DOMAIN s} \cup {x}
           t == Append(s, x)
<1>1. s \in Seq(S)
  BY SeqMonotonic DEF IsSeq
<1>2. /\ t \in Seq(S) /\ Len(t) = Len(s) + 1 /\ Len(s) \in Nat
      /\ \A i \in 1..Len(s) : t[i] = s[i]
      /\ t[Len(s) + 1] = x
  BY <1>1, AppendProperties, LenProperties
<1>3. Len(t) \in Nat /\ t \in [1..Len(t) -> S]
  BY <1>2, LenProperties
<1> HIDE DEF t
<1>4. t \in Seq({t[i] : i \in DOMAIN t})
  <2> DEFINE T == {t[i] : i \in DOMAIN t}
  <2>1. t \in [1..Len(t) -> T]
    BY <1>3
  <2> HIDE DEF T
  <2>2. t \in Seq(T)
    BY <2>1, <1>3, SeqDef
  <2>3. QED BY <2>2 DEF T
<1> USE DEF t
<1>5. QED BY <1>2, <1>4 DEF IsSeq

LEMMA LedgerStateFields ==
  /\ \A h : LedgerState(h).height = h
  /\ \A h : LedgerState(h).rounds = ledger[h + 1]
  /\ \A h : LedgerState(h).hash = IF h = 0 THEN {} ELSE {AppHash(h, ledger[h + 1])}
  BY DEF LedgerState

(* The state before the first block. *)
LEMMA EmptyStateIsLedgerState ==
  ASSUME LedgerFollowsChain
  PROVE  EmptyState = LedgerState(0) /\ EmptyState \in LedgerStates
<1>1. ledger[0 + 1] = EmptyRegistry /\ 0 \in 0..Len(chain)
  BY DEF LedgerFollowsChain
<1>2. EmptyState = LedgerState(0)
  BY <1>1 DEF EmptyState, LedgerState
<1>3. QED BY <1>1, <1>2 DEF LedgerStates

-----------------------------------------------------------------------------
LEMMA InitInductive == Init => Inductive
<1> SUFFICES ASSUME Init PROVE Inductive
  OBVIOUS
<1>1. LedgerFollowsChain
  <2>1. IsSeq(<< >>) /\ IsSeq(<<EmptyRegistry>>)
    BY DEF IsSeq
  <2>2. QED BY <2>1, ConstantsAssumption DEF Init, LedgerFollowsChain
<1>2. /\ EmptyState = LedgerState(0) /\ EmptyState.height = 0
      /\ EmptyState.rounds = ledger[0 + 1] /\ 0 \in 0..Len(chain)
  BY <1>1, EmptyStateIsLedgerState, LedgerStateFields DEF LedgerFollowsChain
<1>3. MemoryFollowsLedger
  <2>1. \A n \in Node : state[n] = EmptyState
    BY DEF Init
  <2>2. state = [n \in Node |-> state[n]]
    BY DEF Init
  <2>3. QED BY <1>2, <2>1, <2>2 DEF MemoryFollowsLedger
<1>4. PendingFollowsLedger
  BY DEF Init, PendingFollowsLedger, ReadyToCommit, NextHeight, NothingPending, EmptyState
<1>5. FileFollowsLedger /\ StoreAndProcess
  BY DEF Init, FileFollowsLedger, Files, StoreAndProcess
<1>6. MemoryIsDurable /\ RetainedHeightIsDurable
  <2>1. \A n \in Node : /\ disk[n] = MissingFile /\ state[n] = EmptyState
                        /\ retain[n] = 0
    BY DEF Init
  <2>2. MissingFile.state = EmptyState /\ EmptyState.height = 0
    BY DEF MissingFile, EmptyState
  <2>3. QED BY <2>1, <2>2 DEF MemoryIsDurable, RetainedHeightIsDurable
<1>7. QED BY <1>1, <1>3, <1>4, <1>5, <1>6 DEF Inductive

-----------------------------------------------------------------------------
(* Reading the invariant. *)

LEMMA StateOf ==
  ASSUME LedgerFollowsChain, MemoryFollowsLedger, NEW n \in Node
  PROVE  /\ state[n].height \in 0..Len(chain)
         /\ state[n].rounds = ledger[state[n].height + 1]
         /\ proc[n] # "halted" => /\ state[n] = LedgerState(state[n].height)
                                 /\ state[n] \in LedgerStates
  BY DEF MemoryFollowsLedger, LedgerStates

LEMMA LedgerStatesHold ==
  ASSUME NEW s \in LedgerStates
  PROVE  /\ s.height \in 0..Len(chain)
         /\ s.rounds = ledger[s.height + 1]
         /\ s = LedgerState(s.height)
<1>1. PICK h \in 0..Len(chain) : s = LedgerState(h)
  BY DEF LedgerStates
<1>2. QED BY <1>1, LedgerStateFields

(* The registry of the next height, as a validator computes it. *)
LEMMA NextRegistry ==
  ASSUME LedgerFollowsChain, MemoryFollowsLedger, NEW n \in Node,
         NextHeight(n) <= Len(chain)
  PROVE  /\ NextHeight(n) \in 1..Len(chain)
         /\ Overlay(state[n].rounds, BlockRounds(chain[NextHeight(n)], NextHeight(n)))
              = ledger[NextHeight(n) + 1]
<1>1. /\ state[n].height \in 0..Len(chain)
      /\ state[n].rounds = ledger[state[n].height + 1]
  BY StateOf
<1>2. NextHeight(n) \in 1..Len(chain)
  BY <1>1 DEF NextHeight, LedgerFollowsChain
<1>3. ledger[NextHeight(n) + 1] =
        Overlay(ledger[NextHeight(n)], BlockRounds(chain[NextHeight(n)], NextHeight(n)))
  BY <1>2 DEF LedgerFollowsChain
<1>4. QED BY <1>1, <1>2, <1>3 DEF NextHeight

(* The PersistedState Commit leaves is that of the next height. *)
LEMMA CommittedState ==
  ASSUME Inductive, NEW n \in Node, ReadyToCommit(n)
  PROVE  /\ NextHeight(n) \in 1..Len(chain)
         /\ pending[n].height = NextHeight(n)
         /\ Overlay(state[n].rounds, pending[n].rounds) = ledger[NextHeight(n) + 1]
         /\ pending[n].hash = {AppHash(NextHeight(n), ledger[NextHeight(n) + 1])}
<1>1. pending[n].height = NextHeight(n) /\ pending[n].height \in 0..Len(chain)
  BY DEF Inductive, PendingFollowsLedger, ReadyToCommit
<1>2. NextHeight(n) <= Len(chain)
  BY <1>1 DEF Inductive, LedgerFollowsChain
<1>3. /\ pending[n].rounds = BlockRounds(chain[NextHeight(n)], NextHeight(n))
      /\ pending[n].hash = {AppHash(NextHeight(n), ledger[NextHeight(n) + 1])}
  BY DEF Inductive, PendingFollowsLedger
<1>4. QED BY <1>1, <1>2, <1>3, NextRegistry DEF Inductive

LEMMA SameLedger ==
  ASSUME LedgerFollowsChain, UNCHANGED <<chain, ledger>>
  PROVE  /\ LedgerFollowsChain'
         /\ \A h : LedgerState(h)' = LedgerState(h)
         /\ LedgerStates' = LedgerStates
<1>1. LedgerFollowsChain'
  BY DEF LedgerFollowsChain
<1>2. \A h : LedgerState(h)' = LedgerState(h)
  BY DEF LedgerState
<1>3. QED BY <1>1, <1>2 DEF LedgerStates

-----------------------------------------------------------------------------
(* A step of one validator keeps the invariant if what it leaves in n's    *)
(* process, memory, file, pending block and retain height belongs to the   *)
(* ledger.                                                                 *)
FollowsLedger(status, s, f, p, r) ==
  /\ status \in {"up", "down", "halted"}
  /\ s.height \in 0..Len(chain) /\ s.rounds = ledger[s.height + 1]
  /\ status # "halted" => s \in LedgerStates
  /\ f \in Files /\ r \in 0..Len(chain)
  /\ p.height \in 0..Len(chain)
  /\ status = "up" /\ p.height = s.height + 1 =>
       /\ p.rounds = BlockRounds(chain[p.height], p.height)
       /\ p.hash = {AppHash(p.height, ledger[p.height + 1])}
  /\ status = "up" => f.state = s
  /\ f.status # "torn" => f.state.height >= r

Leaves(n, status, s, f, p, r) ==
  /\ UNCHANGED <<chain, ledger, mempool>>
  /\ proc' = [proc EXCEPT ![n] = status]
  /\ state' = [state EXCEPT ![n] = s]
  /\ disk' = [disk EXCEPT ![n] = f]
  /\ pending' = [pending EXCEPT ![n] = p]
  /\ retain' = [retain EXCEPT ![n] = r]
  /\ store' \in [Node -> SUBSET (0..Len(chain))]

LEMMA NodeStep ==
  ASSUME Inductive, NEW n \in Node, NEW status, NEW s, NEW f, NEW p, NEW r,
         FollowsLedger(status, s, f, p, r), Leaves(n, status, s, f, p, r)
  PROVE  Inductive'
<1> USE DEF FollowsLedger, Leaves
<1>1. LedgerFollowsChain' /\ LedgerStates' = LedgerStates /\ Files' = Files
  BY SameLedger DEF Inductive, Files
<1>3. FileFollowsLedger'
  BY <1>1 DEF Inductive, FileFollowsLedger
<1>4. StoreAndProcess'
  BY DEF Inductive, StoreAndProcess
<1>5. \A m \in Node : /\ proc'[m] = IF m = n THEN status ELSE proc[m]
                      /\ state'[m] = IF m = n THEN s ELSE state[m]
                      /\ disk'[m] = IF m = n THEN f ELSE disk[m]
                      /\ pending'[m] = IF m = n THEN p ELSE pending[m]
                      /\ retain'[m] = IF m = n THEN r ELSE retain[m]
  BY DEF Inductive, StoreAndProcess, MemoryFollowsLedger, FileFollowsLedger,
         PendingFollowsLedger
<1>2. MemoryFollowsLedger'
  <2>1. state' = [m \in Node |-> state'[m]]
    BY DEF Inductive, MemoryFollowsLedger
  <2>2. ASSUME NEW m \in Node
        PROVE  /\ state'[m].height \in 0..Len(chain)
               /\ state'[m].rounds = ledger[state'[m].height + 1]
               /\ proc'[m] # "halted" => state'[m] = LedgerState(state'[m].height)
    <3>1. CASE m = n
      BY <1>5, <3>1, LedgerStatesHold
    <3>2. CASE m # n
      BY <1>5, <3>2 DEF Inductive, MemoryFollowsLedger
    <3>3. QED BY <3>1, <3>2
  <2>3. \A h : LedgerState(h)' = LedgerState(h)
    BY SameLedger DEF Inductive
  <2>4. QED BY <2>1, <2>2, <2>3 DEF MemoryFollowsLedger
<1>6. MemoryIsDurable' /\ RetainedHeightIsDurable'
  BY <1>5 DEF Inductive, MemoryIsDurable, RetainedHeightIsDurable
<1>7. PendingFollowsLedger'
  <2>1. pending' = [m \in Node |-> pending'[m]]
    BY DEF Inductive, PendingFollowsLedger
  <2>2. ASSUME NEW m \in Node
        PROVE  /\ pending'[m].height \in 0..Len(chain)
               /\ ReadyToCommit(m)' =>
                    /\ pending'[m].rounds =
                         BlockRounds(chain[NextHeight(m)'], NextHeight(m)')
                    /\ pending'[m].hash =
                         {AppHash(NextHeight(m)', ledger[NextHeight(m)' + 1])}
    <3>1. CASE m = n
      <4>1. /\ proc'[m] = status /\ pending'[m] = p /\ state'[m] = s
        BY <1>5, <3>1
      <4>2. QED BY <4>1 DEF ReadyToCommit, NextHeight
    <3>2. CASE m # n
      <4>1. /\ proc'[m] = proc[m] /\ pending'[m] = pending[m] /\ state'[m] = state[m]
        BY <1>5, <3>2
      <4>2. QED BY <4>1 DEF ReadyToCommit, NextHeight, Inductive, PendingFollowsLedger
    <3>3. QED BY <3>1, <3>2
  <2>3. QED BY <2>1, <2>2 DEF PendingFollowsLedger
<1>8. QED BY <1>1, <1>2, <1>3, <1>4, <1>6, <1>7 DEF Inductive

-----------------------------------------------------------------------------
(* What a node's variables are when a step leaves them alone. *)
LEMMA NodeVariables ==
  ASSUME Inductive, NEW n \in Node
  PROVE  /\ proc[n] \in {"up", "down", "halted"}
         /\ proc[n] # "halted" => state[n] \in LedgerStates
         /\ disk[n] \in Files
         /\ pending[n].height \in 0..Len(chain)
         /\ retain[n] \in 0..Len(chain)
         /\ store[n] \subseteq 0..Len(chain)
         /\ proc = [proc EXCEPT ![n] = proc[n]]
         /\ state = [state EXCEPT ![n] = state[n]]
         /\ disk = [disk EXCEPT ![n] = disk[n]]
         /\ pending = [pending EXCEPT ![n] = pending[n]]
         /\ retain = [retain EXCEPT ![n] = retain[n]]
         /\ proc[n] = "up" => disk[n].state = state[n]
         /\ disk[n].status # "torn" => disk[n].state.height >= retain[n]
<1>1. /\ proc \in [Node -> {"up", "down", "halted"}]
      /\ disk \in [Node -> Files]
      /\ retain \in [Node -> 0..Len(chain)]
      /\ store \in [Node -> SUBSET (0..Len(chain))]
  BY DEF Inductive, StoreAndProcess, FileFollowsLedger
<1>2. /\ pending = [m \in Node |-> pending[m]]
      /\ pending[n].height \in 0..Len(chain)
  BY DEF Inductive, PendingFollowsLedger
<1>3. /\ pending = [pending EXCEPT ![n] = pending[n]]
      /\ state = [state EXCEPT ![n] = state[n]]
  BY <1>2 DEF Inductive, MemoryFollowsLedger
<1>4. proc[n] # "halted" => state[n] \in LedgerStates
  BY StateOf DEF Inductive
<1>5. QED BY <1>1, <1>2, <1>3, <1>4 DEF Inductive, MemoryIsDurable, RetainedHeightIsDurable

LEMMA EmptyMemory ==
  ASSUME Inductive
  PROVE  /\ EmptyState \in LedgerStates /\ EmptyState.height = 0
         /\ EmptyState.rounds = ledger[EmptyState.height + 1]
         /\ NothingPending.height = 0 /\ 0 \in 0..Len(chain)
         /\ MissingFile \in Files /\ MissingFile.state = EmptyState
         /\ TornFile \in Files /\ TornFile.status = "torn" /\ TornFile.state = EmptyState
<1>1. 0 \in 0..Len(chain)
  BY DEF Inductive, LedgerFollowsChain
<1>2. /\ EmptyState \in LedgerStates
      /\ EmptyState.rounds = ledger[EmptyState.height + 1]
  BY EmptyStateIsLedgerState, LedgerStatesHold DEF Inductive
<1>3. QED BY <1>1, <1>2 DEF EmptyState, NothingPending, MissingFile, TornFile, Files

(* A step that changes no more than the mempool and the block stores. *)
LEMMA NetworkStep ==
  ASSUME Inductive, UNCHANGED <<chain, ledger, retain, proc, state, pending, disk>>,
         mempool' \subseteq Tx, store' \in [Node -> SUBSET (0..Len(chain))]
  PROVE  Inductive'
<1>1. /\ LedgerFollowsChain' /\ Files' = Files
      /\ \A h : LedgerState(h)' = LedgerState(h)
  BY SameLedger DEF Inductive, Files
<1>2. MemoryFollowsLedger' /\ FileFollowsLedger'
  BY <1>1 DEF Inductive, MemoryFollowsLedger, FileFollowsLedger
<1>3. PendingFollowsLedger'
  BY DEF Inductive, PendingFollowsLedger, ReadyToCommit, NextHeight
<1>4. StoreAndProcess' /\ MemoryIsDurable' /\ RetainedHeightIsDurable'
  BY DEF Inductive, StoreAndProcess, MemoryIsDurable, RetainedHeightIsDurable
<1>5. QED BY <1>1, <1>2, <1>3, <1>4 DEF Inductive

LEMMA CheckTxInductive ==
  ASSUME Inductive, NEW n \in Node, NEW tx \in Tx, CheckTx(n, tx)
  PROVE  Inductive'
  BY NetworkStep DEF CheckTx, Inductive, StoreAndProcess

(* FinalizeBlock and its error differ in the hash and in the process.      *)
LEMMA ExecutedInductive ==
  ASSUME Inductive, NEW n \in Node, Deliverable(n), NEW hash, Executed(n, hash),
         NEW status \in {"up", "halted"}, proc' = [proc EXCEPT ![n] = status],
         status = "up" => hash = {AppHash(NextHeight(n), ledger[NextHeight(n) + 1])}
  PROVE  Inductive'
<1> DEFINE p == [height |-> NextHeight(n),
                 rounds |-> BlockRounds(chain[NextHeight(n)], NextHeight(n)),
                 hash   |-> hash]
<1>1. proc[n] = "up" /\ NextHeight(n) \in 1..Len(chain)
  BY NextRegistry DEF Deliverable, Inductive
<1>2. store' \in [Node -> SUBSET (0..Len(chain))]
  BY <1>1 DEF Executed, Inductive, StoreAndProcess, LedgerFollowsChain
<1>3. pending' = [pending EXCEPT ![n] = p]
  BY DEF Executed
<1>4. p.height \in 0..Len(chain)
  BY <1>1
<1>5. /\ UNCHANGED <<chain, ledger, mempool>>
      /\ state' = [state EXCEPT ![n] = state[n]]
      /\ disk' = [disk EXCEPT ![n] = disk[n]]
      /\ retain' = [retain EXCEPT ![n] = retain[n]]
  BY NodeVariables DEF Executed
<1>6. status = "up" /\ p.height = state[n].height + 1 =>
           /\ p.rounds = BlockRounds(chain[p.height], p.height)
           /\ p.hash = {AppHash(p.height, ledger[p.height + 1])}
  OBVIOUS
<1> HIDE DEF p
<1>7. FollowsLedger(status, state[n], disk[n], p, retain[n])
  BY <1>1, <1>4, <1>6, NodeVariables, LedgerStatesHold DEF FollowsLedger
<1>8. Leaves(n, status, state[n], disk[n], p, retain[n])
  BY <1>2, <1>3, <1>5 DEF Leaves
<1>9. QED BY <1>7, <1>8, NodeStep

LEMMA FinalizeBlockInductive ==
  ASSUME Inductive, NEW n \in Node, FinalizeBlock(n)
  PROVE  Inductive'
<1>1. NextHeight(n) <= Len(chain) /\ proc[n] = "up"
  BY DEF FinalizeBlock, Deliverable
<1>2. Precommit(n) = AppHash(NextHeight(n), ledger[NextHeight(n) + 1])
  BY <1>1, NextRegistry DEF Precommit, Inductive
<1>3. proc' = [proc EXCEPT ![n] = "up"]
  BY <1>1, NodeVariables DEF FinalizeBlock
<1>4. QED BY <1>2, <1>3, ExecutedInductive DEF FinalizeBlock

LEMMA FinalizeBlockErrorInductive ==
  ASSUME Inductive, NEW n \in Node, FinalizeBlockError(n)
  PROVE  Inductive'
  BY ExecutedInductive DEF FinalizeBlockError

LEMMA CommitInductive ==
  ASSUME Inductive, NEW n \in Node, Commit(n)
  PROVE  Inductive'
<1> DEFINE h == NextHeight(n)
           s == LedgerState(h)
<1>1. /\ h \in 1..Len(chain) /\ pending[n].height = h
      /\ Overlay(state[n].rounds, pending[n].rounds) = ledger[h + 1]
      /\ pending[n].hash = {AppHash(h, ledger[h + 1])}
  BY CommittedState DEF Commit
<1>2. s = [height |-> h, rounds |-> ledger[h + 1], hash |-> {AppHash(h, ledger[h + 1])}]
  <2>1. h # 0
    BY <1>1
  <2>2. QED BY <2>1 DEF LedgerState
<1>3. /\ proc' = [proc EXCEPT ![n] = "up"]
      /\ state' = [state EXCEPT ![n] = s]
      /\ disk' = [disk EXCEPT ![n] = SavedFile(s)]
      /\ retain' = [retain EXCEPT ![n] = h]
      /\ UNCHANGED <<chain, ledger, mempool, store, pending>>
  BY <1>1, <1>2 DEF Commit
<1>4. s \in LedgerStates /\ s.height = h
  BY <1>1, LedgerStateFields DEF LedgerStates
<1> HIDE DEF s
<1>5. SavedFile(s) \in Files /\ SavedFile(s).state = s
  BY <1>4 DEF Files, SavedFile
<1>6. store' \in [Node -> SUBSET (0..Len(chain))]
  BY <1>3 DEF Inductive, StoreAndProcess
<1>7. pending' = [pending EXCEPT ![n] = pending[n]]
  BY <1>3, NodeVariables
<1>8. h \in 0..Len(chain) /\ pending[n].height # s.height + 1
  BY <1>1, <1>4
<1>9. FollowsLedger("up", s, SavedFile(s), pending[n], h)
  BY <1>1, <1>4, <1>5, <1>8, LedgerStatesHold DEF FollowsLedger
<1>10. Leaves(n, "up", s, SavedFile(s), pending[n], h)
  BY <1>3, <1>6, <1>7 DEF Leaves
<1>11. QED BY <1>9, <1>10, NodeStep

LEMMA CommitErrorInductive ==
  ASSUME Inductive, NEW n \in Node, CommitError(n)
  PROVE  Inductive'
<1> DEFINE h == NextHeight(n)
           s == [state[n] EXCEPT !.height = pending[n].height,
                                 !.rounds = Overlay(state[n].rounds, pending[n].rounds)]
<1>1. /\ h \in 1..Len(chain) /\ pending[n].height = h
      /\ Overlay(state[n].rounds, pending[n].rounds) = ledger[h + 1]
  BY CommittedState DEF CommitError
<1>2. proc[n] = "up" /\ state[n] = LedgerState(state[n].height)
  BY StateOf DEF CommitError, ReadyToCommit, Inductive
<1>3. s.height = h /\ s.rounds = ledger[h + 1]
  BY <1>1, <1>2 DEF LedgerState
<1>4. state' = [state EXCEPT ![n] = s]
  BY DEF CommitError
<1>5. PICK f \in Files : /\ disk' = [disk EXCEPT ![n] = f]
                         /\ f.status # "torn" => f.state.height >= retain[n]
  BY NodeVariables, EmptyMemory DEF CommitError
<1> HIDE DEF s
<1>6. /\ retain[n] \in 0..Len(chain) /\ retain' = [retain EXCEPT ![n] = retain[n]]
      /\ pending' = [pending EXCEPT ![n] = pending[n]]
      /\ pending[n].height \in 0..Len(chain)
  BY NodeVariables DEF CommitError
<1>7. /\ UNCHANGED <<chain, ledger, mempool>> /\ proc' = [proc EXCEPT ![n] = "halted"]
      /\ store' \in [Node -> SUBSET (0..Len(chain))]
  BY DEF CommitError, Inductive, StoreAndProcess
<1>8. h \in 0..Len(chain)
  BY <1>1
<1>9. FollowsLedger("halted", s, f, pending[n], retain[n])
  BY <1>3, <1>5, <1>6, <1>8 DEF FollowsLedger
<1>10. Leaves(n, "halted", s, f, pending[n], retain[n])
  BY <1>4, <1>5, <1>6, <1>7 DEF Leaves
<1>11. QED BY <1>9, <1>10, NodeStep

LEMMA PruneInductive ==
  ASSUME Inductive, NEW n \in Node, Prune(n)
  PROVE  Inductive'
<1>1. store' \in [Node -> SUBSET (0..Len(chain))]
  BY DEF Prune, Inductive, StoreAndProcess
<1>2. QED BY <1>1, NetworkStep DEF Prune, Inductive, StoreAndProcess

LEMMA CrashInductive ==
  ASSUME Inductive, NEW n \in Node, Crash(n) \/ CrashInCommit(n)
  PROVE  Inductive'
<1>1. PICK f \in Files : /\ disk' = [disk EXCEPT ![n] = f]
                         /\ f.status # "torn" => f.state.height >= retain[n]
  BY NodeVariables, EmptyMemory DEF Crash, CrashInCommit
<1>2. /\ proc' = [proc EXCEPT ![n] = "down"]
      /\ state' = [state EXCEPT ![n] = EmptyState]
      /\ pending' = [pending EXCEPT ![n] = NothingPending]
      /\ UNCHANGED <<chain, ledger, mempool, store, retain>>
  BY DEF Crash, CrashInCommit, Forget
<1>3. store' \in [Node -> SUBSET (0..Len(chain))]
  BY <1>2 DEF Inductive, StoreAndProcess
<1>4. retain[n] \in 0..Len(chain) /\ retain' = [retain EXCEPT ![n] = retain[n]]
  BY <1>2, NodeVariables
<1>5. FollowsLedger("down", EmptyState, f, NothingPending, retain[n])
  BY <1>1, <1>4, EmptyMemory DEF FollowsLedger
<1>6. Leaves(n, "down", EmptyState, f, NothingPending, retain[n])
  BY <1>1, <1>2, <1>3, <1>4 DEF Leaves
<1>7. QED BY <1>5, <1>6, NodeStep

LEMMA RestartInductive ==
  ASSUME Inductive, NEW n \in Node, Restart(n)
  PROVE  Inductive'
<1>1. PICK s \in LedgerStates : disk[n].state = s
  BY NodeVariables, EmptyMemory DEF Restart, Files, SavedFile
<1>2. store' \in [Node -> SUBSET (0..Len(chain))]
  BY DEF Restart, Inductive, StoreAndProcess
<1>3. s.height + 1 # 0
  BY <1>1, LedgerStateFields DEF LedgerStates
<1>4. /\ proc' = [proc EXCEPT ![n] = "up"]
      /\ state' = [state EXCEPT ![n] = s]
      /\ pending' = [pending EXCEPT ![n] = NothingPending]
      /\ UNCHANGED <<chain, ledger, mempool, store, retain, disk>>
      /\ disk[n].status # "torn"
  BY <1>1 DEF Restart
<1>5. FollowsLedger("up", s, disk[n], NothingPending, retain[n])
  BY <1>1, <1>3, <1>4, NodeVariables, EmptyMemory, LedgerStatesHold DEF FollowsLedger
<1>6. Leaves(n, "up", s, disk[n], NothingPending, retain[n])
  BY <1>2, <1>4, NodeVariables DEF Leaves
<1>7. QED BY <1>5, <1>6, NodeStep

LEMMA ResetNodeInductive ==
  ASSUME Inductive, NEW n \in Node, ResetNode(n)
  PROVE  Inductive'
<1>1. store' \in [Node -> SUBSET (0..Len(chain))]
  BY DEF ResetNode, Inductive, StoreAndProcess
<1>2. MissingFile.state.height >= 0
  BY EmptyMemory
<1>3. FollowsLedger("up", EmptyState, MissingFile, NothingPending, 0)
  BY <1>2, EmptyMemory DEF FollowsLedger
<1>4. Leaves(n, "up", EmptyState, MissingFile, NothingPending, 0)
  BY <1>1 DEF ResetNode, Leaves
<1>5. QED BY <1>3, <1>4, NodeStep

LEMMA RestartStackInductive == Inductive /\ RestartStack => Inductive'
<1>1. RestartStack => Init'
  BY DEF RestartStack, Init
<1>2. QED BY <1>1, InitInductive, PTL

(* Deciding a block extends the ledger and changes no height below.        *)
LEMMA DecideInductive ==
  ASSUME Inductive, NEW block, Decide(block)
  PROVE  Inductive'
<1>1. /\ IsSeq(chain') /\ IsSeq(ledger')
      /\ Len(chain) \in Nat /\ Len(chain') = Len(chain) + 1
      /\ Len(ledger') = Len(chain') + 1
      /\ \A i \in 1..Len(chain) : chain'[i] = chain[i]
      /\ \A i \in 1..(Len(chain) + 1) : ledger'[i] = ledger[i]
      /\ chain'[Len(chain) + 1] = block
      /\ ledger'[Len(chain) + 2] = Overlay(ledger[Len(chain) + 1],
                                          BlockRounds(block, Len(chain) + 1))
  <2>1. /\ IsSeq(chain) /\ IsSeq(ledger) /\ Len(chain) \in Nat
        /\ Len(ledger) = Len(chain) + 1
    BY DEF Inductive, LedgerFollowsChain
  <2>2. /\ IsSeq(chain') /\ Len(chain') = Len(chain) + 1
        /\ \A i \in 1..Len(chain) : chain'[i] = chain[i]
        /\ chain'[Len(chain) + 1] = block
    BY <2>1, AppendToSeq DEF Decide
  <2>3. /\ IsSeq(ledger') /\ Len(ledger') = Len(ledger) + 1
        /\ \A i \in 1..Len(ledger) : ledger'[i] = ledger[i]
        /\ ledger'[Len(ledger) + 1] =
             Overlay(ledger[Len(chain) + 1], BlockRounds(block, Len(chain) + 1))
    BY <2>1, AppendToSeq DEF Decide
  <2>4. QED BY <2>1, <2>2, <2>3
<1>2. LedgerFollowsChain'
  <2>1. Len(chain') <= MaxHeight
    BY <1>1, ConstantsAssumption DEF Decide
  <2>2. ledger'[1] = EmptyRegistry
    BY <1>1 DEF Inductive, LedgerFollowsChain
  <2>3. ASSUME NEW h \in 1..Len(chain')
        PROVE  ledger'[h + 1] = Overlay(ledger'[h], BlockRounds(chain'[h], h))
    <3>1. CASE h \in 1..Len(chain)
      <4>1. ledger'[h + 1] = ledger[h + 1] /\ ledger'[h] = ledger[h] /\ chain'[h] = chain[h]
        BY <1>1, <3>1
      <4>2. QED BY <3>1, <4>1 DEF Inductive, LedgerFollowsChain
    <3>2. CASE h = Len(chain) + 1
      <4>1. h + 1 = Len(chain) + 2 /\ ledger'[h] = ledger[h]
        BY <1>1, <3>2
      <4>2. QED BY <1>1, <3>2, <4>1
    <3>3. QED BY <1>1, <3>1, <3>2
  <2>4. QED BY <1>1, <2>1, <2>2, <2>3 DEF LedgerFollowsChain
<1>3. /\ \A h \in 0..Len(chain) : LedgerState(h)' = LedgerState(h)
      /\ LedgerStates \subseteq LedgerStates'
  <2>1. ASSUME NEW h \in 0..Len(chain)
        PROVE  LedgerState(h)' = LedgerState(h) /\ h \in 0..Len(chain')
    <3>1. ledger'[h + 1] = ledger[h + 1] /\ h \in 0..Len(chain')
      BY <1>1
    <3>2. QED BY <3>1 DEF LedgerState
  <2>2. QED BY <2>1 DEF LedgerStates
<1>4. 0..Len(chain) \subseteq 0..Len(chain')
  BY <1>1
<1>5. UNCHANGED <<retain, proc, state, pending, disk>>
  BY DEF Decide
<1>6. MemoryFollowsLedger' /\ FileFollowsLedger'
  <2>1. FileFollowsLedger'
    BY <1>3, <1>5 DEF Inductive, FileFollowsLedger, Files
  <2>2. \A h \in 0..Len(chain) : ledger'[h + 1] = ledger[h + 1] /\ h \in 0..Len(chain')
    BY <1>1
  <2>3. MemoryFollowsLedger'
    BY <1>3, <1>5, <2>2 DEF Inductive, MemoryFollowsLedger
  <2>4. QED BY <2>1, <2>3
<1>7. StoreAndProcess'
  <2>1. store' \in [Node -> SUBSET (0..Len(chain'))]
    BY <1>1 DEF Decide, Inductive, StoreAndProcess
  <2>2. mempool' \subseteq Tx
    BY DEF Decide, Inductive, StoreAndProcess
  <2>3. QED BY <1>4, <1>5, <2>1, <2>2 DEF Inductive, StoreAndProcess
<1>8. PendingFollowsLedger'
  <2>1. ASSUME NEW n \in Node, ReadyToCommit(n)
        PROVE  /\ chain'[NextHeight(n)] = chain[NextHeight(n)]
               /\ ledger'[NextHeight(n) + 1] = ledger[NextHeight(n) + 1]
    BY <1>1, <2>1, CommittedState
  <2>2. \A n \in Node : /\ NextHeight(n)' = NextHeight(n)
                        /\ ReadyToCommit(n)' = ReadyToCommit(n)
    BY <1>5 DEF NextHeight, ReadyToCommit
  <2>3. QED BY <1>4, <1>5, <2>1, <2>2 DEF Inductive, PendingFollowsLedger
<1>9. MemoryIsDurable' /\ RetainedHeightIsDurable'
  BY <1>5 DEF Inductive, MemoryIsDurable, RetainedHeightIsDurable
<1>10. QED BY <1>2, <1>6, <1>7, <1>8, <1>9 DEF Inductive

-----------------------------------------------------------------------------
(* The inductive invariant holds of every behaviour: validators, files and *)
(* pending blocks never hold anything but registries of the ledger         *)
(* (FinalizeBlock, Commit, loadState).                                     *)
THEOREM InductiveHolds == Spec => []Inductive
<1>1. Init => Inductive
  BY InitInductive
<1>2. Inductive /\ [Next]_vars => Inductive'
  <2> SUFFICES ASSUME Inductive, [Next]_vars PROVE Inductive'
    OBVIOUS
  <2>1. CASE UNCHANGED vars
    BY <2>1, NetworkStep DEF vars, Inductive, StoreAndProcess
  <2>2. CASE KeepNext
    <3>1. ASSUME NEW n \in Node, NEW tx \in Tx, CheckTx(n, tx) PROVE Inductive'
      BY <3>1, CheckTxInductive
    <3>2. ASSUME NEW block \in Blocks, Decide(block) PROVE Inductive'
      BY <3>2, DecideInductive
    <3>3. ASSUME NEW n \in Node, Execute(n) PROVE Inductive'
      BY <3>3, FinalizeBlockInductive, FinalizeBlockErrorInductive,
         CommitInductive, CommitErrorInductive, PruneInductive DEF Execute
    <3>4. ASSUME NEW n \in Node, Fail(n) \/ Restart(n) PROVE Inductive'
      BY <3>4, CrashInductive, RestartInductive DEF Fail
    <3>5. QED BY <2>2, <3>1, <3>2, <3>3, <3>4 DEF KeepNext
  <2>3. ASSUME NEW n \in Node, ResetNode(n) PROVE Inductive'
    BY <2>3, ResetNodeInductive
  <2>4. CASE RestartStack
    BY <2>4, RestartStackInductive
  <2>5. QED BY <2>1, <2>2, <2>3, <2>4 DEF Next
<1>3. QED BY <1>1, <1>2, PTL DEF Spec

(* The type invariant, for any validators, transactions and bounds.        *)
THEOREM TypeOKHolds == Spec => []TypeOK
<1>1. Inductive => TypeOK
  <2> SUFFICES ASSUME Inductive PROVE TypeOK
    OBVIOUS
  <2>1. Len(chain) \in Nat /\ Len(chain) <= MaxHeight /\ Len(ledger) = Len(chain) + 1
    BY DEF Inductive, LedgerFollowsChain
  <2>2. 0..Len(chain) \subseteq Height
    BY <2>1, ConstantsAssumption DEF Height
  <2>3. /\ mempool \subseteq Tx
        /\ store \in [Node -> SUBSET Height]
        /\ retain \in [Node -> Height]
        /\ proc \in [Node -> {"up", "down", "halted"}]
    BY <2>2 DEF Inductive, StoreAndProcess
  <2>4. ASSUME NEW n \in Node
        PROVE  /\ state[n].height \in Height /\ pending[n].height \in Height
               /\ disk[n].status \in {"missing", "torn", "saved"}
    <3>1. state[n].height \in Height
      BY <2>2, StateOf DEF Inductive
    <3>2. pending[n].height \in Height
      BY <2>2, NodeVariables
    <3>3. disk[n] \in Files
      BY NodeVariables
    <3>4. QED BY <3>1, <3>2, <3>3 DEF Files, MissingFile, TornFile, SavedFile
  <2>5. QED BY <2>1, <2>3, <2>4 DEF TypeOK
<1>2. QED BY <1>1, InductiveHolds, PTL

(* Validators that executed equally many blocks agree on registry and app  *)
(* hash, through every crash, replay and reset.                            *)
THEOREM AppHashAgreementHolds == Spec => []AppHashAgreement
<1>1. Inductive => AppHashAgreement
  BY StateOf DEF Inductive, AppHashAgreement
<1>2. QED BY <1>1, InductiveHolds, PTL

(* Commit's comparison with the precommitted hash never fails.             *)
THEOREM CommitMatchesPrecommitHolds == Spec => []CommitMatchesPrecommit
<1>1. Inductive => CommitMatchesPrecommit
  BY CommittedState DEF CommitMatchesPrecommit
<1>2. QED BY <1>1, InductiveHolds, PTL

(* A running application's memory is what it would reload from its file.   *)
THEOREM MemoryIsDurableHolds == Spec => []MemoryIsDurable
  BY InductiveHolds, PTL DEF Inductive

(* A retain height handed to CometBFT is covered by the file, unless the   *)
(* file is torn.                                                           *)
THEOREM RetainedHeightIsDurableHolds == Spec => []RetainedHeightIsDurable
  BY InductiveHolds, PTL DEF Inductive

-----------------------------------------------------------------------------
(* What the registry answers. *)

(* A block holds as many transactions as the proposer may take. *)
BlocksBounded ==
  \A h \in 1..Len(chain) : DOMAIN chain[h] \subseteq 1..MaxBlockTxs

LEMMA BlocksBoundedHolds == Spec => []BlocksBounded
<1>1. Init => BlocksBounded
  BY DEF Init, BlocksBounded
<1>2. Inductive /\ BlocksBounded /\ [Next]_vars => BlocksBounded'
  <2> SUFFICES ASSUME Inductive, BlocksBounded, [Next]_vars PROVE BlocksBounded'
    OBVIOUS
  <2>1. ASSUME NEW block \in Blocks, Decide(block)
        PROVE  BlocksBounded'
    <3>1. DOMAIN block \subseteq 1..MaxBlockTxs
      BY ConstantsAssumption DEF Blocks
    <3>2. /\ Len(chain) \in Nat /\ Len(chain') = Len(chain) + 1
          /\ \A i \in 1..Len(chain) : chain'[i] = chain[i]
          /\ chain'[Len(chain) + 1] = block
      BY <2>1, AppendToSeq DEF Decide, Inductive, LedgerFollowsChain
    <3>3. \A h \in 1..Len(chain') : h \in 1..Len(chain) \/ h = Len(chain) + 1
      BY <3>2
    <3>4. QED BY <3>1, <3>2, <3>3 DEF BlocksBounded
  <2>2. ASSUME UNCHANGED chain PROVE BlocksBounded'
    BY <2>2 DEF BlocksBounded
  <2>3. ASSUME NEW n \in Node, Execute(n) \/ Fail(n) \/ Restart(n) \/ ResetNode(n)
        PROVE  UNCHANGED chain
    BY <2>3 DEF Execute, FinalizeBlock, FinalizeBlockError, Executed, Commit, CommitError,
                Prune, Fail, Crash, CrashInCommit, Restart, ResetNode
  <2>4. ASSUME NEW n \in Node, NEW tx \in Tx, CheckTx(n, tx) PROVE UNCHANGED chain
    BY <2>4 DEF CheckTx
  <2>5. CASE RestartStack
    <3>1. chain' = << >>
      BY <2>5 DEF RestartStack
    <3>2. QED BY <3>1 DEF BlocksBounded
  <2>6. CASE UNCHANGED vars
    BY <2>2, <2>6 DEF vars
  <2>7. QED BY <2>1, <2>2, <2>3, <2>4, <2>5, <2>6 DEF Next, KeepNext
<1>3. QED BY <1>1, <1>2, InductiveHolds, PTL DEF Spec

(* Every non-empty set of naturals has a least element. *)
LEMMA LeastElement ==
  ASSUME NEW T \in SUBSET Nat, T # {}
  PROVE  \E n \in T : \A m \in T : n <= m
<1>1. \E n \in T : \A m \in T : ~ (<<m, n>> \in OpToRel(<, Nat))
  BY NatLessThanWellFounded, WFMin, Zenon
<1>2. \A m, n \in Nat : <<m, n>> \in OpToRel(<, Nat) <=> m < n
  BY DEF OpToRel
<1>3. PICK n \in T : \A m \in T : ~ (<<m, n>> \in OpToRel(<, Nat))
  BY <1>1
<1>4. ASSUME NEW m \in T PROVE n <= m
  <2>1. m \in Nat /\ n \in Nat
    OBVIOUS
  <2>2. ~ (m < n)
    BY <1>2, <1>3, <2>1
  <2>3. QED BY <2>1, <2>2
<1>5. QED BY <1>4

(* The loop over a block's transactions leaves the last accepted one. *)
LEMMA LastAccepted ==
  ASSUME NEW block, DOMAIN block \subseteq 1..MaxBlockTxs, NEW id,
         \E i \in Accepted(block) : block[i].id = id
  PROVE  /\ LastFor(block, id) \in Accepted(block)
         /\ block[LastFor(block, id)].id = id
         /\ \A j \in Accepted(block) : block[j].id = id => j <= LastFor(block, id)
<1> DEFINE S == {i \in Accepted(block) : block[i].id = id}
           After == {MaxBlockTxs - i : i \in S}
<1>1. S # {} /\ MaxBlockTxs \in Nat /\ \A i \in S : i \in 1..MaxBlockTxs
  BY ConstantsAssumption DEF Accepted
<1> HIDE DEF S
<1>2. After \in SUBSET Nat /\ After # {}
  BY <1>1
<1>3. PICK a \in After : \A b \in After : a <= b
  BY <1>2, LeastElement
<1>4. PICK i \in S : a = MaxBlockTxs - i
  BY <1>3
<1>5. ASSUME NEW j \in S PROVE j <= i
  <2>1. MaxBlockTxs - i <= MaxBlockTxs - j
    BY <1>3, <1>4
  <2>2. i \in Nat /\ j \in Nat
    BY <1>1
  <2>3. QED BY <1>1, <2>1, <2>2
<1>6. \E k \in Accepted(block) :
        /\ block[k].id = id
        /\ \A j \in Accepted(block) : block[j].id = id => j <= k
  BY <1>4, <1>5 DEF S
<1>7. QED BY <1>6 DEF LastFor

(* Registry r answers for the first h blocks. *)
Answers(r, h) ==
  /\ \A k \in 1..h, id \in DOMAIN r : AcceptedAt(k, id) => k <= r[id].commitHeight
  /\ \A id \in DOMAIN r :
       LET k == r[id].commitHeight
       IN  /\ k \in 1..h
           /\ \E i \in Accepted(chain[k]) :
                /\ chain[k][i].id = id
                /\ r[id] = CommittedRound(chain[k][i], k)
                /\ \A j \in Accepted(chain[k]) : chain[k][j].id = id => j <= i
  /\ \A k \in 1..h : \A i \in Accepted(chain[k]) : chain[k][i].id \in DOMAIN r

(* Merging the rounds of one more block. *)
LEMMA AnswersForOneMore ==
  ASSUME NEW h \in Nat, NEW r, Answers(r, h),
         DOMAIN chain[h + 1] \subseteq 1..MaxBlockTxs
  PROVE  Answers(Overlay(r, BlockRounds(chain[h + 1], h + 1)), h + 1)
<1> DEFINE block == chain[h + 1]
           newer == BlockRounds(block, h + 1)
           w == Overlay(r, newer)
<1>1. /\ DOMAIN newer = {block[i].id : i \in Accepted(block)}
      /\ \A id \in DOMAIN newer :
           newer[id] = CommittedRound(block[LastFor(block, id)], h + 1)
  BY DEF BlockRounds
<1>2. /\ DOMAIN w = DOMAIN r \cup DOMAIN newer
      /\ \A id \in DOMAIN newer : w[id] = newer[id]
      /\ \A id \in DOMAIN r \ DOMAIN newer : w[id] = r[id]
  BY DEF Overlay
<1>3. \A id : AcceptedAt(h + 1, id) <=> id \in DOMAIN newer
  BY <1>1 DEF AcceptedAt
<1>4. \A k \in 1..(h + 1) : k \in 1..h \/ k = h + 1
  OBVIOUS
<1>5. \A k \in 1..h : k \in 1..(h + 1) /\ k <= h + 1
  OBVIOUS
<1> HIDE DEF w, newer
<1>6. ASSUME NEW id \in DOMAIN newer
      PROVE  /\ w[id].commitHeight = h + 1
             /\ \E i \in Accepted(block) :
                  /\ block[i].id = id
                  /\ w[id] = CommittedRound(block[i], h + 1)
                  /\ \A j \in Accepted(block) : block[j].id = id => j <= i
  <2>1. w[id] = CommittedRound(block[LastFor(block, id)], h + 1)
    BY <1>1, <1>2
  <2>2. w[id].commitHeight = h + 1
    BY <2>1 DEF CommittedRound
  <2>3. QED BY <1>1, <2>1, <2>2, LastAccepted
<1>7. ASSUME NEW id \in DOMAIN r \ DOMAIN newer
      PROVE  /\ w[id] = r[id] /\ w[id].commitHeight \in 1..h
             /\ \A k \in 1..h : AcceptedAt(k, id) => k <= w[id].commitHeight
             /\ \E i \in Accepted(chain[w[id].commitHeight]) :
                  /\ chain[w[id].commitHeight][i].id = id
                  /\ w[id] = CommittedRound(chain[w[id].commitHeight][i], w[id].commitHeight)
                  /\ \A j \in Accepted(chain[w[id].commitHeight]) :
                       chain[w[id].commitHeight][j].id = id => j <= i
  BY <1>2, <1>7 DEF Answers
<1>8. ASSUME NEW k \in 1..(h + 1), NEW id \in DOMAIN w, AcceptedAt(k, id)
      PROVE  k <= w[id].commitHeight
  <2>1. CASE id \in DOMAIN newer
    BY <1>6, <2>1
  <2>2. CASE id \notin DOMAIN newer
    BY <1>2, <1>3, <1>4, <1>7, <1>8, <2>2
  <2>3. QED BY <2>1, <2>2
<1>9. ASSUME NEW id \in DOMAIN w
      PROVE  LET k == w[id].commitHeight
             IN  /\ k \in 1..(h + 1)
                 /\ \E i \in Accepted(chain[k]) :
                      /\ chain[k][i].id = id
                      /\ w[id] = CommittedRound(chain[k][i], k)
                      /\ \A j \in Accepted(chain[k]) : chain[k][j].id = id => j <= i
  <2>1. CASE id \in DOMAIN newer
    BY <1>6, <2>1
  <2>2. CASE id \notin DOMAIN newer
    BY <1>2, <1>5, <1>7, <2>2
  <2>3. QED BY <2>1, <2>2
<1>10. ASSUME NEW k \in 1..(h + 1), NEW i \in Accepted(chain[k])
       PROVE  chain[k][i].id \in DOMAIN w
  <2>1. CASE k = h + 1
    BY <1>1, <1>2, <2>1
  <2>2. CASE k \in 1..h
    BY <1>2, <2>2 DEF Answers
  <2>3. QED BY <1>4, <2>1, <2>2
<1>11. Answers(w, h + 1)
  BY <1>8, <1>9, <1>10 DEF Answers
<1>12. QED BY <1>11 DEF w, newer

(* The registry of every height, by induction over the heights. *)
LEMMA LedgerAnswers ==
  ASSUME Inductive, BlocksBounded
  PROVE  \A h \in 0..Len(chain) : Answers(ledger[h + 1], h)
<1> DEFINE Wrong == {h \in 0..Len(chain) : ~ Answers(ledger[h + 1], h)}
<1>1. SUFFICES ASSUME Wrong # {} PROVE FALSE
  OBVIOUS
<1>2. Len(chain) \in Nat /\ ledger[1] = EmptyRegistry
  BY DEF Inductive, LedgerFollowsChain
<1>3. Wrong \in SUBSET Nat
  BY <1>2
<1>4. PICK h \in Wrong : \A k \in Wrong : h <= k
  BY <1>1, <1>3, LeastElement
<1>5. h # 0
  <2>1. Answers(EmptyRegistry, 0)
    <3>1. DOMAIN EmptyRegistry = {} /\ 1..0 = {}
      BY DEF EmptyRegistry
    <3>2. QED BY <3>1, Zenon DEF Answers
  <2>2. QED BY <1>2, <2>1
<1>6. h - 1 \in Nat /\ h - 1 \in 0..Len(chain) /\ h \in 1..Len(chain) /\ (h - 1) + 1 = h
  BY <1>2, <1>5
<1>7. Answers(ledger[(h - 1) + 1], h - 1)
  BY <1>4, <1>6
<1>8. Answers(Overlay(ledger[h], BlockRounds(chain[h], h)), h)
  <2>1. DOMAIN chain[(h - 1) + 1] \subseteq 1..MaxBlockTxs
    BY <1>6 DEF BlocksBounded
  <2>2. Answers(ledger[h], h - 1)
    BY <1>6, <1>7
  <2> HIDE DEF Wrong
  <2>3. Answers(Overlay(ledger[h], BlockRounds(chain[(h - 1) + 1], (h - 1) + 1)), (h - 1) + 1)
    BY <1>6, <2>1, <2>2, AnswersForOneMore
  <2>4. QED BY <1>6, <2>3
<1>9. ledger[h + 1] = Overlay(ledger[h], BlockRounds(chain[h], h))
  BY <1>6 DEF Inductive, LedgerFollowsChain
<1>10. QED BY <1>8, <1>9

(* FinalizeBlock and Commit on any chain of blocks: what an application    *)
(* answers for a round id (Query) is the last accepted transaction of that *)
(* id in the blocks it executed, at the height of its block, and it        *)
(* answers for every accepted transaction, after every crash, replay and   *)
(* reset.                                                                  *)
THEOREM LatestAcceptedTransactionWinsHolds == Spec => []LatestAcceptedTransactionWins
<1>1. Inductive /\ BlocksBounded => LatestAcceptedTransactionWins
  <2> SUFFICES ASSUME Inductive, BlocksBounded PROVE LatestAcceptedTransactionWins
    OBVIOUS
  <2>1. \A n \in Node : Answers(state[n].rounds, state[n].height)
    BY StateOf, LedgerAnswers DEF Inductive
  <2>2. QED BY <2>1 DEF LatestAcceptedTransactionWins, Answers
<1>2. QED BY <1>1, BlocksBoundedHolds, InductiveHolds, PTL

-----------------------------------------------------------------------------
(* The application implements the abstract registry.                       *)

(* Changing one entry of an array of fields. *)
LEMMA EntryChanged ==
  ASSUME NEW old, NEW new, NEW n \in Node, NEW x,
         old = [m \in Node |-> old[m]], new = [m \in Node |-> new[m]],
         \A m \in Node : new[m] = IF m = n THEN x ELSE old[m]
  PROVE  new = [old EXCEPT ![n] = x]
<1>1. [old EXCEPT ![n] = x] = [m \in Node |-> IF m = n THEN x ELSE old[m]]
  OBVIOUS
<1>2. new = [m \in Node |-> IF m = n THEN x ELSE old[m]]
  <2>1. [m \in Node |-> new[m]] = [m \in Node |-> IF m = n THEN x ELSE old[m]]
    OBVIOUS
  <2>2. QED BY <2>1
<1>3. QED BY <1>1, <1>2

(* Registry!Advance and Registry!Reload are about these arrays. *)
Heights == [m \in Node |-> state[m].height]
Rounds == [m \in Node |-> state[m].rounds]

LEMMA RegistryChanged ==
  ASSUME NEW n \in Node, NEW height, NEW rounds,
         \A m \in Node :
           /\ state'[m].height = IF m = n THEN height ELSE state[m].height
           /\ state'[m].rounds = IF m = n THEN rounds ELSE state[m].rounds
  PROVE  /\ Heights' = [Heights EXCEPT ![n] = height]
         /\ Rounds' = [Rounds EXCEPT ![n] = rounds]
<1>1. /\ Heights = [m \in Node |-> Heights[m]] /\ Heights' = [m \in Node |-> Heights'[m]]
      /\ Rounds = [m \in Node |-> Rounds[m]] /\ Rounds' = [m \in Node |-> Rounds'[m]]
  BY DEF Heights, Rounds
<1>2. \A m \in Node : /\ Heights'[m] = IF m = n THEN height ELSE Heights[m]
                      /\ Rounds'[m] = IF m = n THEN rounds ELSE Rounds[m]
  BY DEF Heights, Rounds
<1>3. Heights' = [Heights EXCEPT ![n] = height]
  BY <1>1, <1>2, EntryChanged
<1>4. Rounds' = [Rounds EXCEPT ![n] = rounds]
  BY <1>1, <1>2, EntryChanged
<1>5. QED BY <1>3, <1>4

LEMMA ReloadStep ==
  ASSUME Inductive, NEW n \in Node, NEW s \in LedgerStates,
         state' = [state EXCEPT ![n] = s], UNCHANGED ledger
  PROVE  Registry!Reload(n)
<1>1. PICK h \in 0..Len(chain) : s = LedgerState(h)
  BY DEF LedgerStates
<1>2. s.height = h /\ s.rounds = ledger[h + 1]
  BY <1>1, LedgerStateFields
<1>3. h \in 0..(Len(ledger) - 1)
  BY DEF Inductive, LedgerFollowsChain
<1>4. \A m \in Node : state'[m] = IF m = n THEN s ELSE state[m]
  BY DEF Inductive, MemoryFollowsLedger
<1> DEFINE rounds == ledger[h + 1]
<1>5. \A m \in Node :
        /\ state'[m].height = IF m = n THEN h ELSE state[m].height
        /\ state'[m].rounds = IF m = n THEN rounds ELSE state[m].rounds
  BY <1>2, <1>4
<1> HIDE DEF rounds
<1>6. /\ Heights' = [Heights EXCEPT ![n] = h]
      /\ Rounds' = [Rounds EXCEPT ![n] = rounds]
  BY ONLY <1>5, RegistryChanged
<1>7. QED BY <1>3, <1>6 DEF Registry!Reload, Heights, Rounds, rounds

LEMMA AdvanceStep ==
  ASSUME Inductive, NEW n \in Node, Commit(n) \/ CommitError(n)
  PROVE  Registry!Advance(n)
<1> DEFINE h == NextHeight(n)
<1>1. /\ h \in 1..Len(chain) /\ pending[n].height = h
      /\ Overlay(state[n].rounds, pending[n].rounds) = ledger[h + 1]
  BY CommittedState DEF Commit, CommitError
<1>2. state[n].height \in 0..Len(chain) /\ h = state[n].height + 1
  BY StateOf DEF Inductive, NextHeight
<1>3. \A m \in Node :
        /\ state'[m].height = IF m = n THEN h ELSE state[m].height
        /\ state'[m].rounds = IF m = n THEN ledger[h + 1] ELSE state[m].rounds
  <2>1. state = [m \in Node |-> state[m]]
    BY DEF Inductive, MemoryFollowsLedger
  <2>2. CASE Commit(n)
    BY <1>1, <2>1, <2>2 DEF Commit
  <2>3. CASE CommitError(n)
    <3>1. state[n] = LedgerState(state[n].height)
      BY <2>3, StateOf DEF CommitError, ReadyToCommit, Inductive
    <3>2. QED BY <1>1, <2>1, <2>3, <3>1 DEF CommitError, LedgerState
  <2>4. QED BY <2>2, <2>3
<1>4. state[n].height + 1 < Len(ledger)
  BY <1>1, <1>2 DEF Inductive, LedgerFollowsChain
<1>5. /\ Heights' = [Heights EXCEPT ![n] = h]
      /\ Rounds' = [Rounds EXCEPT ![n] = ledger[h + 1]]
  BY <1>3, RegistryChanged
<1>6. UNCHANGED ledger
  BY DEF Commit, CommitError
<1>7. h + 1 = Heights[n] + 2 /\ Heights[n] = state[n].height /\ h = Heights[n] + 1
  BY <1>2 DEF Heights
<1> HIDE DEF h
<1>8. QED BY <1>4, <1>5, <1>6, <1>7 DEF Registry!Advance, Heights, Rounds

LEMMA ExtendStep ==
  ASSUME Inductive, NEW block, Decide(block)
  PROVE  Registry!Extend
<1>1. /\ IsSeq(ledger) /\ Len(ledger) = Len(chain) + 1
  BY DEF Inductive, LedgerFollowsChain
<1>2. /\ Len(ledger') = Len(ledger) + 1
      /\ \A i \in 1..Len(ledger) : ledger'[i] = ledger[i]
      /\ ledger'[Len(ledger) + 1] =
           Overlay(ledger[Len(ledger)], BlockRounds(block, Len(chain) + 1))
  BY <1>1, AppendToSeq DEF Decide
<1>3. DOMAIN ledger[Len(ledger)] \subseteq DOMAIN ledger'[Len(ledger) + 1]
  BY <1>2 DEF Overlay
<1>4. UNCHANGED <<[n \in Node |-> state[n].height], [n \in Node |-> state[n].rounds]>>
  BY DEF Decide
<1>5. QED BY <1>2, <1>3, <1>4 DEF Registry!Extend

(* Clients see one history of registries whatever validators crash, replay *)
(* or reset: every step is a step of RoundRegistry or invisible to it.     *)
THEOREM ImplementsRegistryHolds == Spec => ImplementsRegistry
<1>1. Init => Registry!Init
  BY DEF Init, Registry!Init, EmptyState
<1>2. Inductive /\ [Next]_vars => [Registry!Next]_(Registry!vars)
  <2> SUFFICES ASSUME Inductive, [Next]_vars
               PROVE  Registry!Next \/ UNCHANGED Registry!vars
    OBVIOUS
  <2>1. ASSUME UNCHANGED <<ledger, state>>
        PROVE  UNCHANGED Registry!vars
    BY <2>1 DEF Registry!vars
  <2>2. CASE UNCHANGED vars
    BY <2>1, <2>2 DEF vars
  <2>3. CASE \E n \in Node, tx \in Tx : CheckTx(n, tx)
    BY <2>1, <2>3 DEF CheckTx
  <2>4. CASE \E block \in Blocks : Decide(block)
    BY <2>4, ExtendStep DEF Registry!Next
  <2>5. ASSUME NEW n \in Node, Execute(n)
        PROVE  Registry!Next \/ UNCHANGED Registry!vars
    <3>1. CASE FinalizeBlock(n) \/ FinalizeBlockError(n) \/ Prune(n)
      BY <2>1, <3>1 DEF FinalizeBlock, FinalizeBlockError, Executed, Prune
    <3>2. CASE Commit(n) \/ CommitError(n)
      BY <3>2, AdvanceStep DEF Registry!Next
    <3>3. QED BY <2>5, <3>1, <3>2 DEF Execute
  <2>6. ASSUME NEW n \in Node, Fail(n) \/ Restart(n) \/ ResetNode(n)
        PROVE  Registry!Next
    <3>1. \E s \in LedgerStates : state' = [state EXCEPT ![n] = s] /\ UNCHANGED ledger
      <4>1. CASE Fail(n) \/ ResetNode(n)
        BY <4>1, EmptyMemory DEF Fail, Crash, CrashInCommit, Forget, ResetNode
      <4>2. CASE Restart(n)
        <5>1. disk[n] \in Files
          BY NodeVariables
        <5>2. disk[n].state \in LedgerStates
          BY <5>1, EmptyMemory DEF Files, SavedFile
        <5>3. QED BY <4>2, <5>2 DEF Restart
      <4>3. QED BY <2>6, <4>1, <4>2
    <3>2. QED BY <3>1, ReloadStep DEF Registry!Next
  <2>7. CASE RestartStack
    <3>1. Registry!Genesis
      BY <2>7 DEF RestartStack, Registry!Genesis, EmptyState
    <3>2. QED BY <3>1 DEF Registry!Next
  <2>8. QED BY <2>2, <2>3, <2>4, <2>5, <2>6, <2>7 DEF Next, KeepNext
<1>3. QED BY <1>1, <1>2, InductiveHolds, PTL DEF Spec, Registry!Spec, ImplementsRegistry
=============================================================================
