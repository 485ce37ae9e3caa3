--------------------------- MODULE MCAcademicRunner ---------------------------
EXTENDS AcademicRunner, TLC

(* One pilot cell, and one cell in each of no, one or two batches. *)
OnePerBatch == [c \in Cell |-> c - 1]

(* Every command but the pilot's own preflight, which does what a pilot    *)
(* run does before it dies.                                                *)
Commands == AllJobs \ {Preflight("pilot")}

Invocations == Permutations(Process)
=============================================================================
