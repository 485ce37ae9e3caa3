--------------------------- MODULE MCEdgeExchange ---------------------------
(* The three edges of the runtime.  The compressor warms up so fast that a *)
(* reading one cycle old is compatible with the latest one and a reading   *)
(* two cycles old is not.                                                  *)
EXTENDS EdgeExchange, TLC

CONSTANTS e1, e2, e3

Order == <<e1, e2, e3>>
Owner == (e1 :> "temperature" @@ e2 :> "pressure" @@ e3 :> "rpm")

WarmingUp ==
  [temperature |-> [n \in 1..6 |-> 30000 + 12000 * n],
   pressure    |-> [n \in 1..6 |-> 5000 + 300 * n],
   rpm         |-> [n \in 1..6 |-> 1500000 + 50000 * n]]

(* No fault, single_edge_exclusion and quorum_loss. *)
Faults == {<< >>, <<e3>>, <<e2, e3>>}
NoFaults == {<< >>}
=============================================================================
