--------------------------- MODULE MCBaselineFreeze ---------------------------
(***************************************************************************)
(* A source directory of two files, of which Git's view shows one.         *)
(***************************************************************************)
EXTENDS BaselineFreeze

Order == <<"code">>
FilesOf == [code |-> {1, 2}, git |-> {2}]
Start == [f \in File |-> 0]
===============================================================================
