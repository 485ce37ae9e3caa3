---------------------------- MODULE ConsensusApp ----------------------------
(***************************************************************************)
(* The replicated ABCI consensus application (consensus_abci) on a set of  *)
(* validators, driven by CometBFT: transactions are checked into a         *)
(* mempool, a decided block is executed by FinalizeBlock, made durable by  *)
(* Commit, and reloaded from state.json after a crash.                     *)
(*                                                                         *)
(* CometBFT itself is external: it decides one sequence of blocks with the *)
(* votes of more than two thirds of the validators, hands every node the   *)
(* block after the height the node's application reports, and keeps blocks *)
(* until the retain height the application returned.                       *)
(***************************************************************************)
EXTENDS RoundEvaluation, Sequences

CONSTANTS Node,         \* the validators
          Tx,           \* transactions clients submit
          MaxHeight,    \* bound on the number of decided blocks
          MaxBlockTxs   \* bound on the transactions of a block

ASSUME ConstantsAssumption ==
  /\ IsFiniteSet(Node)
  /\ MaxHeight \in Nat
  /\ MaxBlockTxs \in Nat
  /\ \A tx \in Tx : DOMAIN tx = {"id", "edges", "view"}

VARIABLES chain,    \* the blocks CometBFT decided
          ledger,   \* history: ledger[h + 1] is the registry block h leads to
          mempool,  \* transactions waiting for a block
          store,    \* store[n]: heights of the blocks in n's block store
          retain,   \* retain[n]: the retain height n's application last returned
          proc,     \* proc[n]: "up", "down", or "halted" by an error
          state,    \* state[n]: the application's PersistedState in memory
          pending,  \* pending[n]: what FinalizeBlock left for Commit
          disk      \* disk[n]: the file state.json

networkVars == <<chain, ledger, mempool>>
vars == <<chain, ledger, mempool, store, retain, proc, state, pending, disk>>

-----------------------------------------------------------------------------
(* Registries and their digest.  A hash is a set of at most one digest, {} *)
(* standing for nil; a digest is what it is computed from, so equal        *)
(* digests mean equal contents.                                            *)

EmptyRegistry == [id \in {} |-> {}]

(* Slip: the block's rounds replace the registry. *)
Slip_Overlay(rounds, newer) == newer

Overlay(rounds, newer) ==
  [id \in DOMAIN rounds \cup DOMAIN newer |->
     IF id \in DOMAIN newer THEN newer[id] ELSE rounds[id]]

AppHash(height, rounds) == <<height, rounds>>

EmptyState == [height |-> 0, rounds |-> EmptyRegistry, hash |-> {}]
NothingPending == [height |-> 0, rounds |-> EmptyRegistry, hash |-> {}]

MissingFile == [status |-> "missing", state |-> EmptyState]
TornFile == [status |-> "torn", state |-> EmptyState]
SavedFile(s) == [status |-> "saved", state |-> s]

-----------------------------------------------------------------------------
(* Executing a block. *)

Evaluable == {tx \in Tx : Comparable(tx.edges, tx.view)}

Outcome == [tx \in Evaluable |-> EvaluateRound(tx.edges, tx.view)]

CommittedRound(tx, height) ==
  [tx |-> tx, outcome |-> Outcome[tx], commitHeight |-> height]

(* The positions of a block whose transaction evaluateRound accepts. *)
Accepted(block) == {i \in DOMAIN block : block[i] \in Evaluable}

(* Slip: the first accepted transaction wins. *)
Slip_LastFor(block, id) ==
  CHOOSE i \in Accepted(block) :
    /\ block[i].id = id
    /\ \A j \in Accepted(block) : block[j].id = id => i <= j

(* pendingRounds after the loop: the last accepted transaction of a round  *)
(* id wins.                                                                *)
LastFor(block, id) ==
  CHOOSE i \in Accepted(block) :
    /\ block[i].id = id
    /\ \A j \in Accepted(block) : block[j].id = id => j <= i

BlockRounds(block, height) ==
  [id \in {block[i].id : i \in Accepted(block)} |->
     CommittedRound(block[LastFor(block, id)], height)]

(* json.Marshal can encode every round of the block. *)
Executable(block) == \A i \in Accepted(block) : Encodable(block[i].edges)

-----------------------------------------------------------------------------
Init ==
  /\ chain = << >>
  /\ ledger = <<EmptyRegistry>>
  /\ mempool = {}
  /\ store = [n \in Node |-> {}]
  /\ retain = [n \in Node |-> 0]
  /\ proc = [n \in Node |-> "up"]
  /\ state = [n \in Node |-> EmptyState]
  /\ pending = [n \in Node |-> NothingPending]
  /\ disk = [n \in Node |-> MissingFile]

(* CheckTx only asks for a non-empty input; a transaction submitted again, *)
(* after a client's timeout, is taken again.                               *)
CheckTx(n, tx) ==
  /\ proc[n] = "up"
  /\ tx.edges # {}
  /\ DOMAIN tx.view # {}
  /\ mempool' = mempool \cup {tx}
  /\ UNCHANGED <<chain, ledger, store, retain, proc, state, pending, disk>>

(* PrepareProposal and ProcessProposal take any block; the validators that *)
(* executed the chain so far decide it, more than two thirds of them.      *)
Voters == {n \in Node : proc[n] = "up" /\ state[n].height = Len(chain)}

Blocks ==
  {block \in UNION {[1..k -> mempool] : k \in 0..MaxBlockTxs} :
     \A i, j \in DOMAIN block : block[i] = block[j] => i = j}

Decide(block) ==
  /\ Len(chain) < MaxHeight
  /\ 3 * Cardinality(Voters) > 2 * Cardinality(Node)
  /\ chain' = Append(chain, block)
  /\ ledger' = Append(ledger, Overlay(ledger[Len(chain) + 1],
                                      BlockRounds(block, Len(chain) + 1)))
  /\ mempool' = mempool \ {block[i] : i \in DOMAIN block}
  /\ store' = [n \in Node |-> IF n \in Voters THEN store[n] \cup {Len(chain) + 1}
                                              ELSE store[n]]
  /\ UNCHANGED <<retain, proc, state, pending, disk>>

(* The next block for n is in its own store or in that of a running peer.  *)
NextHeight(n) == state[n].height + 1

Deliverable(n) ==
  /\ proc[n] = "up"
  /\ NextHeight(n) <= Len(chain)
  /\ pending[n].height # NextHeight(n)
  /\ \E m \in Node : (m = n \/ proc[m] = "up") /\ NextHeight(n) \in store[m]

Executed(n, hash) ==
  /\ pending' = [pending EXCEPT ![n] =
       [height |-> NextHeight(n),
        rounds |-> BlockRounds(chain[NextHeight(n)], NextHeight(n)),
        hash   |-> hash]]
  /\ store' = [store EXCEPT ![n] = @ \cup {NextHeight(n)}]
  /\ UNCHANGED <<chain, ledger, mempool, retain, state, disk>>

(* Slip: only the rounds of the block are hashed. *)
Slip_Precommit(n) ==
  AppHash(NextHeight(n), BlockRounds(chain[NextHeight(n)], NextHeight(n)))

Precommit(n) ==
  AppHash(NextHeight(n),
          Overlay(state[n].rounds,
                  BlockRounds(chain[NextHeight(n)], NextHeight(n))))

FinalizeBlock(n) ==
  /\ Deliverable(n)
  /\ Executable(chain[NextHeight(n)])
  /\ Executed(n, {Precommit(n)})
  /\ UNCHANGED proc

(* computeAppHash fails on the block: FinalizeBlock returns the error and  *)
(* CometBFT halts the node.                                                *)
FinalizeBlockError(n) ==
  /\ Deliverable(n)
  /\ ~ Executable(chain[NextHeight(n)])
  /\ Executed(n, {})
  /\ proc' = [proc EXCEPT ![n] = "halted"]

(* Merge, write the file, and compare its hash with the precommitted one;  *)
(* on a mismatch memory and file have changed already.                     *)
ReadyToCommit(n) == proc[n] = "up" /\ pending[n].height = NextHeight(n)

(* Slips: the file is written before the merge; the retain height is one   *)
(* too high; the height in memory is not advanced.                         *)
Slip_CommitSavesFirst(n) ==
  LET rounds == Overlay(state[n].rounds, pending[n].rounds)
      committed == [height |-> pending[n].height, rounds |-> rounds,
                    hash |-> {AppHash(pending[n].height, rounds)}]
  IN  /\ ReadyToCommit(n)
      /\ disk' = [disk EXCEPT ![n] = SavedFile(state[n])]
      /\ state' = [state EXCEPT ![n] = committed]
      /\ retain' = [retain EXCEPT ![n] = pending[n].height]
      /\ UNCHANGED <<chain, ledger, mempool, store, proc, pending>>
Slip_CommitRetainsNext(n) ==
  LET rounds == Overlay(state[n].rounds, pending[n].rounds)
      committed == [height |-> pending[n].height, rounds |-> rounds,
                    hash |-> {AppHash(pending[n].height, rounds)}]
  IN  /\ ReadyToCommit(n)
      /\ disk' = [disk EXCEPT ![n] = SavedFile(committed)]
      /\ state' = [state EXCEPT ![n] = committed]
      /\ retain' = [retain EXCEPT ![n] = pending[n].height + 1]
      /\ UNCHANGED <<chain, ledger, mempool, store, proc, pending>>
Slip_CommitKeepsHeight(n) ==
  /\ ReadyToCommit(n)
  /\ state' = [state EXCEPT ![n].rounds = Overlay(@, pending[n].rounds)]
  /\ disk' = [disk EXCEPT ![n] = SavedFile(state'[n])]
  /\ UNCHANGED <<chain, ledger, mempool, store, retain, proc, pending>>

Commit(n) ==
  LET rounds == Overlay(state[n].rounds, pending[n].rounds)
      height == pending[n].height
      hash == AppHash(height, rounds)
      agreed == pending[n].hash = {} \/ pending[n].hash = {hash}
  IN  /\ ReadyToCommit(n)
      /\ disk' = [disk EXCEPT ![n] =
           SavedFile([height |-> height, rounds |-> rounds, hash |-> {hash}])]
      /\ state' = [state EXCEPT ![n] =
           [height |-> height, rounds |-> rounds,
            hash |-> IF agreed THEN {hash} ELSE state[n].hash]]
      /\ proc' = [proc EXCEPT ![n] = IF agreed THEN "up" ELSE "halted"]
      /\ retain' = [retain EXCEPT ![n] = IF agreed THEN height ELSE @]
      /\ UNCHANGED <<chain, ledger, mempool, store, pending>>

(* The file cannot be written: memory has the block already, with the app  *)
(* hash of the one before, the file may be truncated, and the error halts  *)
(* the node.                                                               *)
CommitError(n) ==
  /\ ReadyToCommit(n)
  /\ state' = [state EXCEPT ![n].height = pending[n].height,
                            ![n].rounds = Overlay(@, pending[n].rounds)]
  /\ disk' \in {disk, [disk EXCEPT ![n] = TornFile]}
  /\ proc' = [proc EXCEPT ![n] = "halted"]
  /\ UNCHANGED <<chain, ledger, mempool, store, retain, pending>>

(* CometBFT prunes below the retain height, in the background. *)
Prune(n) ==
  /\ proc[n] = "up"
  /\ \E h \in store[n] : h < retain[n]
  /\ store' = [store EXCEPT ![n] = {h \in @ : h >= retain[n]}]
  /\ UNCHANGED <<chain, ledger, mempool, retain, proc, state, pending, disk>>

-----------------------------------------------------------------------------
(* Crashes and restarts. *)

Forget(n) ==
  /\ proc' = [proc EXCEPT ![n] = "down"]
  /\ state' = [state EXCEPT ![n] = EmptyState]
  /\ pending' = [pending EXCEPT ![n] = NothingPending]

Crash(n) ==
  /\ proc[n] # "down"
  /\ Forget(n)
  /\ UNCHANGED <<chain, ledger, mempool, store, retain, disk>>

(* os.WriteFile truncates and then writes: a crash in between leaves a     *)
(* file that does not parse.                                               *)
CrashInCommit(n) ==
  /\ ReadyToCommit(n)
  /\ Forget(n)
  /\ disk' = [disk EXCEPT ![n] = TornFile]
  /\ UNCHANGED <<chain, ledger, mempool, store, retain>>

(* Slip: the rounds of the file are not restored. *)
Slip_Restart(n) ==
  /\ proc[n] = "down"
  /\ disk[n].status # "torn"
  /\ proc' = [proc EXCEPT ![n] = "up"]
  /\ state' = [state EXCEPT ![n] = [disk[n].state EXCEPT !.rounds = EmptyRegistry]]
  /\ pending' = [pending EXCEPT ![n] = NothingPending]
  /\ UNCHANGED <<chain, ledger, mempool, store, retain, disk>>

(* loadState; a torn file is an error and the process does not start. *)
Restart(n) ==
  /\ proc[n] = "down"
  /\ disk[n].status # "torn"
  /\ proc' = [proc EXCEPT ![n] = "up"]
  /\ state' = [state EXCEPT ![n] = disk[n].state]
  /\ pending' = [pending EXCEPT ![n] = NothingPending]
  /\ UNCHANGED <<chain, ledger, mempool, store, retain, disk>>

(* The containers of one validator restart: state.json is removed and the  *)
(* CometBFT home is reset.                                                 *)
ResetNode(n) ==
  /\ proc[n] # "up"
  /\ proc' = [proc EXCEPT ![n] = "up"]
  /\ state' = [state EXCEPT ![n] = EmptyState]
  /\ pending' = [pending EXCEPT ![n] = NothingPending]
  /\ disk' = [disk EXCEPT ![n] = MissingFile]
  /\ store' = [store EXCEPT ![n] = {}]
  /\ retain' = [retain EXCEPT ![n] = 0]
  /\ UNCHANGED <<chain, ledger, mempool>>

(* docker compose restart: every container at once, hence a new chain. *)
RestartStack ==
  /\ chain' = << >>
  /\ ledger' = <<EmptyRegistry>>
  /\ mempool' = {}
  /\ store' = [n \in Node |-> {}]
  /\ retain' = [n \in Node |-> 0]
  /\ proc' = [n \in Node |-> "up"]
  /\ state' = [n \in Node |-> EmptyState]
  /\ pending' = [n \in Node |-> NothingPending]
  /\ disk' = [n \in Node |-> MissingFile]

-----------------------------------------------------------------------------
(* One validator's steps. *)
Execute(n) ==
  \/ FinalizeBlock(n) \/ FinalizeBlockError(n)
  \/ Commit(n) \/ CommitError(n)
  \/ Prune(n)

Fail(n) == Crash(n) \/ CrashInCommit(n)

(* Validators keep their disks across restarts ... *)
KeepNext ==
  \/ \E n \in Node, tx \in Tx : CheckTx(n, tx)
  \/ \E block \in Blocks : Decide(block)
  \/ \E n \in Node : Execute(n) \/ Fail(n) \/ Restart(n)

(* ... or are restarted by compose.consensus.yml, which wipes them. *)
Next ==
  \/ KeepNext
  \/ \E n \in Node : ResetNode(n)
  \/ RestartStack

Spec == Init /\ [][Next]_vars

(* CometBFT delivers decided blocks and commits what it finalized; nobody  *)
(* promises to restart a validator.                                        *)
KeepSpec ==
  /\ Init /\ [][KeepNext]_vars
  /\ \A n \in Node : /\ WF_vars(FinalizeBlock(n) \/ FinalizeBlockError(n))
                     /\ WF_vars(Commit(n))

-----------------------------------------------------------------------------
(* Properties. *)

Height == 0..MaxHeight

TypeOK ==
  /\ Len(chain) <= MaxHeight
  /\ Len(ledger) = Len(chain) + 1
  /\ mempool \subseteq Tx
  /\ store \in [Node -> SUBSET Height]
  /\ retain \in [Node -> Height]
  /\ proc \in [Node -> {"up", "down", "halted"}]
  /\ \A n \in Node :
       /\ state[n].height \in Height
       /\ pending[n].height \in Height
       /\ disk[n].status \in {"missing", "torn", "saved"}

(* Two applications that executed the same number of blocks hold the same  *)
(* registry and, while they run, report the same app hash, whatever        *)
(* crashes, replays, failed commits and resets brought each of them there  *)
(* (Query and Info after FinalizeBlock, Commit and loadState).             *)
AppHashAgreement ==
  \A n, m \in Node :
    state[n].height = state[m].height =>
      /\ state[n].rounds = state[m].rounds
      /\ proc[n] = "up" /\ proc[m] = "up" => state[n].hash = state[m].hash

(* The registry a Commit is about to write is the one FinalizeBlock hashed *)
(* and the network voted on, so Commit's comparison never fails after      *)
(* having overwritten memory and file.                                     *)
CommitMatchesPrecommit ==
  \A n \in Node :
    ReadyToCommit(n) =>
      pending[n].hash = {AppHash(pending[n].height,
                                 Overlay(state[n].rounds, pending[n].rounds))}

(* What an application answers for a round id is the latest accepted       *)
(* transaction of that id in the blocks it executed, evaluated at the      *)
(* height of its block, and every accepted transaction is answered for.    *)
AcceptedAt(h, id) == \E i \in Accepted(chain[h]) : chain[h][i].id = id

LatestAcceptedTransactionWins ==
  \A n \in Node :
    /\ \A h \in 1..state[n].height, id \in DOMAIN state[n].rounds :
         AcceptedAt(h, id) => h <= state[n].rounds[id].commitHeight
    /\ \A id \in DOMAIN state[n].rounds :
         LET h == state[n].rounds[id].commitHeight
         IN  /\ h \in 1..state[n].height
             /\ \E i \in Accepted(chain[h]) :
                  /\ chain[h][i].id = id
                  /\ state[n].rounds[id] = CommittedRound(chain[h][i], h)
                  /\ \A j \in Accepted(chain[h]) : chain[h][j].id = id => j <= i
    /\ \A h \in 1..state[n].height :
         \A i \in Accepted(chain[h]) : chain[h][i].id \in DOMAIN state[n].rounds

(* Once Commit has told CometBFT it may prune below a height, the file     *)
(* holds that height: a restarted application never needs a pruned block.  *)
(* Only a crash while the file is rewritten breaks this (the file is torn).*)
RetainedHeightIsDurable ==
  \A n \in Node : disk[n].status # "torn" => disk[n].state.height >= retain[n]

(* Memory is never ahead of the file between two calls: a crash of a       *)
(* running application forgets nothing it answered queries with.           *)
MemoryIsDurable ==
  \A n \in Node : proc[n] = "up" => disk[n].state = state[n]

(* While every validator keeps its disk, a validator that stays up, which  *)
(* no block has halted, keeps catching up with the chain.                  *)
RunningNodeCatchesUp ==
  \A n \in Node :
    <>[](proc[n] = "up") => []<>(state[n].height = Len(chain))

Registry ==
  INSTANCE RoundRegistry WITH
    Empty   <- EmptyRegistry,
    applied <- [n \in Node |-> state[n].height],
    visible <- [n \in Node |-> state[n].rounds]

(* The application implements one history of registries. *)
ImplementsRegistry == Registry!Spec
=============================================================================
