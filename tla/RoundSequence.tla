---------------------------- MODULE RoundSequence ----------------------------
(***************************************************************************)
(* Successive rounds over the same participating edges, two or more of     *)
(* Edge: from one round to the next the view of one edge changes (a        *)
(* drifting, stale or faulty edge), every round is evaluated, and the      *)
(* properties relate the committed result to the views it was computed     *)
(* from.                                                                   *)
(***************************************************************************)
EXTENDS RoundEvaluation

CONSTANT Reading   \* the complete views an edge may submit

ASSUME ReadingAssumption == Reading \subseteq [Sensor -> Int]

VARIABLES edges,    \* participating_edges
          view,     \* replicated_states
          result    \* the committed RoundResult

vars == <<edges, view, result>>

Init ==
  /\ edges \in {E \in SUBSET Edge : Encodable(E)}
  /\ view \in {v \in [edges -> Reading] : \A e, f \in edges : v[e] = v[f]}
  /\ result = EvaluateRound(edges, view)

(* build_consensus_round_input followed by the committed evaluation: the   *)
(* next round differs in what edge e reports.                              *)
NextRound(e, reading) ==
  /\ e \in edges
  /\ view' = [view EXCEPT ![e] = reading]
  /\ result' = EvaluateRound(edges, view')
  /\ UNCHANGED edges

Next == \E e \in Edge, reading \in Reading : NextRound(e, reading)

Spec == Init /\ [][Next]_vars

-----------------------------------------------------------------------------
(* buildValidState: up to four edges (the deployment has three) the        *)
(* averaged state is itself compatible with every edge it was averaged     *)
(* from, up to the rounding of its three values, half a thousandth each.   *)
(* A chain of five edges breaks this.                                      *)
ConsensusNearEverySource ==
  Cardinality(edges) <= 4 => \A e \in result.sources :
    2 * PairDistance(result.state, view[e])
      <= 2 * CompatibilityLimit + Weight.temperature + Weight.pressure + Weight.rpm

(* A majority of mutually compatible edges always carries the round:       *)
(* whatever the others report, the round succeeds and none of the majority *)
(* is excluded.                                                            *)
HonestMajorityPrevails ==
  \A H \in SUBSET edges :
    (/\ Cardinality(H) >= Quorum(edges)
     /\ \A e, f \in H : Compatible(view[e], view[f]))
      => result.status = "success" /\ H \subseteq result.sources

(* Up to four edges, an edge that stays excluded cannot move the outcome,  *)
(* the average or the choice of its sources by changing what it reports.   *)
(* With five it can still lend its agreement to an edge that needs it.     *)
ExcludedEdgeHasNoInfluence ==
  [][\A e \in edges :
       (/\ Cardinality(edges) <= 4
        /\ e \in DOMAIN result.exclusions
        /\ e \in DOMAIN result'.exclusions
        /\ \A f \in edges \ {e} : view'[f] = view[f])
         => /\ result'.status = result.status
            /\ result'.sources = result.sources
            /\ result'.state = result.state]_vars

(* The edge-local ConsensusEngine and the ABCI application decide alike:   *)
(* same status, same exclusions with the same reason, same sources, and    *)
(* averages and trust scores that differ by at most the last rounded       *)
(* digit, although a score is rounded from an already rounded deviation.   *)
(* Neither scores an edge above one that the other scores above it.        *)
EngineAgreesWithApplication ==
  LET engine == EngineEvaluate(edges, view)
  IN  /\ engine.status = result.status
      /\ engine.exclusions = result.exclusions
      /\ engine.sources = result.sources
      /\ \A e \in edges : AbsDiff(engine.scores[e], result.scores[e]) <= 1
      /\ \A e, f \in edges :
           engine.scores[e] > engine.scores[f] => result.scores[e] >= result.scores[f]
      /\ result.status = "success" =>
           \A s \in Sensor : AbsDiff(engine.state[s], result.state[s]) <= 1
=============================================================================
