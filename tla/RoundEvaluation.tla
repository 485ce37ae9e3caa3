--------------------------- MODULE RoundEvaluation ---------------------------
(***************************************************************************)
(* The deterministic evaluation of one consensus round: the Go function    *)
(* evaluateRound of the ABCI application and its Python twin, the          *)
(* ConsensusEngine.                                                        *)
(*                                                                         *)
(* A round has a set of participating edges; view[e] is the replicated     *)
(* state edge e submitted: a function from the sensors it holds a value    *)
(* for to that value, in thousandths of the sensor's unit (the precision   *)
(* every result is rounded to).  Sensor-normalised distances are kept      *)
(* exact by counting in 600000ths of a sensor's full scale, so the         *)
(* thresholds 0.35 and 0.75 are integers.                                  *)
(***************************************************************************)
EXTENDS Integers, FiniteSets, Functions

CONSTANT Edge

ASSUME EdgeAssumption == IsFiniteSet(Edge) /\ Edge # {}

Sensor == {"temperature", "pressure", "rpm"}

(* FullScale divided by the normalisation scale in thousandths of a unit. *)
Weight == [temperature |-> 30, pressure |-> 200, rpm |-> 1]
FullScale == 600000

(* Three times the mean distance 0.35, in 600000ths. *)
CompatibilityLimit == 630000

(* The mean deviation 0.75, in thousandths. *)
ByzantineDeviation == 750

AbsDiff(a, b) == IF a >= b THEN a - b ELSE b - a

(* Nearest integer to a / b for b > 0.  The two languages break a tie      *)
(* differently: Go away from zero ("away"), Python to even ("even").       *)
Nearest(ties, a, b) ==
  LET q == a \div b
      twice == 2 * (a % b)
      up == IF ties = "even" THEN q % 2 = 1 ELSE a >= 0
  IN  IF twice > b \/ (twice = b /\ up) THEN q + 1 ELSE q

SumOver(f, S) == FoldFunctionOnSet(+, 0, f, S)

-----------------------------------------------------------------------------
(* Pairwise comparison. *)

PairDistance(left, right) ==
    Weight.temperature * AbsDiff(left.temperature, right.temperature)
  + Weight.pressure * AbsDiff(left.pressure, right.pressure)
  + Weight.rpm * AbsDiff(left.rpm, right.rpm)

Compatible(left, right) == PairDistance(left, right) <= CompatibilityLimit

(* With two edges or more every pair is compared, and an edge without a    *)
(* replicated state, or a state without a sensor, is an error.             *)
Comparable(edges, view) ==
  Cardinality(edges) > 1 =>
    \A e \in edges : e \in DOMAIN view /\ Sensor \subseteq DOMAIN view[e]

(* With a single edge the mean over no peers is not a number, which the    *)
(* JSON encoding of the application state refuses.                         *)
Encodable(edges) == Cardinality(edges) > 1

Quorum(edges) == (Cardinality(edges) \div 2) + 1

CompatiblePeers(edges, view, e) ==
  {p \in edges \ {e} : Compatible(view[e], view[p])}

(* Slips: one peer too few suffices to stay; an edge's own agreement with  *)
(* itself is not counted.                                                  *)
Slip_ExcludedLate(edges, view) ==
  {e \in edges : Cardinality(CompatiblePeers(edges, view, e)) + 2 < Quorum(edges)}
Slip_ExcludedEarly(edges, view) ==
  {e \in edges : Cardinality(CompatiblePeers(edges, view, e)) < Quorum(edges)}

Excluded(edges, view) ==
  {e \in edges : Cardinality(CompatiblePeers(edges, view, e)) + 1 < Quorum(edges)}

ValidEdges(edges, view) == edges \ Excluded(edges, view)

(* Mean normalised distance to the peers and trust score, in thousandths.  *)
(* Without peers both are not a number, and no comparison holds of them.   *)
NotANumber == -1

Deviation(ties, edges, view, e) ==
  LET peers == edges \ {e}
      distance == [p \in peers |-> PairDistance(view[e], view[p])]
  IN  IF peers = {} THEN NotANumber
      ELSE Nearest(ties, SumOver(distance, peers),
                   3 * (FullScale \div 1000) * Cardinality(peers))

Score(ties, deviation) ==
  IF deviation = NotANumber THEN NotANumber
                            ELSE Nearest(ties, 1000000, 1000 + deviation)

Reason(deviation) ==
  IF deviation >= ByzantineDeviation THEN "suspected_byzantine_behavior"
                                     ELSE "inconsistent_view"

MeanState(ties, view, edges) ==
  [s \in Sensor |-> Nearest(ties, SumOver([e \in edges |-> view[e][s]], edges),
                            Cardinality(edges))]

-----------------------------------------------------------------------------
(* The result of a round.  The ranking orders the scores, so the score     *)
(* function determines it; state is << >> when consensus failed.           *)

Result(ties, edges, view) ==
  LET excluded == Excluded(edges, view)
      valid == edges \ excluded
      deviation == [e \in edges |-> Deviation(ties, edges, view, e)]
      success == Cardinality(valid) >= Quorum(edges)
  IN  [status     |-> IF success THEN "success" ELSE "failed_consensus",
       scores     |-> [e \in edges |-> Score(ties, deviation[e])],
       exclusions |-> [e \in excluded |-> Reason(deviation[e])],
       sources    |-> IF success THEN valid ELSE {},
       state      |-> IF success THEN MeanState(ties, view, valid) ELSE << >>]

(* Slips: averaging over every participating edge, excluded ones included. *)
Slip_EvaluateRound(edges, view) ==
  LET result == Result("away", edges, view)
  IN  IF result.status = "success"
        THEN [result EXCEPT !.state = MeanState("away", view, edges)]
        ELSE result
Slip_EngineEvaluate(edges, view) ==
  LET result == Result("even", edges, view)
  IN  IF result.status = "success"
        THEN [result EXCEPT !.state = MeanState("even", view, edges)]
        ELSE result

(* The committed result (Go) and the edge-local one (Python). *)
EvaluateRound(edges, view) == Result("away", edges, view)
EngineEvaluate(edges, view) == Result("even", edges, view)
=============================================================================
