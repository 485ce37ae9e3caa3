-------------------------- MODULE MCRoundSequence --------------------------
(* Rounds of two, three (the deployment) and four edges.  The readings     *)
(* straddle the compatibility limit in one sensor and in the sum of        *)
(* several, form chains a~b~c with a and c apart, and have odd thousandths *)
(* that make averages fall on a rounding tie.                              *)
EXTENDS RoundSequence, TLC

Views(T, P, R) ==
  {[temperature |-> t, pressure |-> p, rpm |-> r] : t \in T, p \in P, r \in R}

Readings ==
  Views({0, 10500, 21000, 31500, 42001, 63000}, {5000}, {1500000})
    \cup Views({20000, 35001}, {5000, 7250}, {1500000, 2100000})

Edges == Permutations(Edge)
=============================================================================
