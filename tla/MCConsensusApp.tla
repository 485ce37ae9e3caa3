--------------------------- MODULE MCConsensusApp ---------------------------
(* Inputs of the application: complete, incomplete and single-edge rounds. *)
EXTENDS ConsensusApp, TLC

View(t) == [temperature |-> t, pressure |-> 5000, rpm |-> 1500000]
NoRpm == [temperature |-> 40000, pressure |-> 5000]

(* A round of the deployed client on which all edges agree. *)
Agreeing == [id |-> "r1", edges |-> Edge, view |-> [e \in Edge |-> View(40000)]]
(* A round built before every peer observation arrived. *)
Incomplete(e) == [id |-> "r2", edges |-> Edge,
                  view |-> [f \in Edge |-> IF f = e THEN NoRpm ELSE View(40000)]]
(* Another input under the id of the first round, and a single edge. *)
Conflicting == [id |-> "r1", edges |-> Edge, view |-> [e \in Edge |-> View(30000)]]
SingleEdge(e) == [id |-> "r3", edges |-> {e}, view |-> [f \in {e} |-> View(40000)]]

AnEdge == CHOOSE e \in Edge : TRUE

(* What two clients submit under one id, and everything CheckTx admits.    *)
ConflictingTxs == {Agreeing, Conflicting}
AdmittedTxs == {Agreeing, Incomplete(AnEdge), SingleEdge(AnEdge)}

Validators == Permutations(Node)
=============================================================================
