--------------------------- MODULE CellPublication ---------------------------
(***************************************************************************)
(* What the offline campaign promises of a result cell, without staging    *)
(* files, manifests, recoveries or crashes: some execution's outcome is    *)
(* chosen for good, and what a reader of the artifact directory finds is   *)
(* either nothing yet or that outcome.                                     *)
(***************************************************************************)
CONSTANTS Cell,      \* the planned cells of the campaign
          Outcome,   \* what an execution may produce
          None       \* no outcome yet

VARIABLES chosen,    \* chosen[c]: the outcome that became final
          shown      \* shown[c]: the outcome readers find

vars == <<chosen, shown>>

Init ==
  /\ chosen = [c \in Cell |-> None]
  /\ shown = [c \in Cell |-> None]

(* Of all executions of a cell, one becomes final. *)
Choose(c) ==
  /\ chosen[c] = None
  /\ chosen'[c] \in Outcome
  /\ chosen' = [chosen EXCEPT ![c] = chosen'[c]]
  /\ UNCHANGED shown

(* The final outcome becomes visible. *)
Show(c) ==
  /\ chosen[c] # None
  /\ shown[c] = None
  /\ shown' = [shown EXCEPT ![c] = chosen[c]]
  /\ UNCHANGED chosen

Next == \E c \in Cell : Choose(c) \/ Show(c)

Spec == Init /\ [][Next]_vars
=============================================================================
