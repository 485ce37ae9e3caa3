------------------------- MODULE MCRuntimePipeline -------------------------
EXTENDS RuntimePipeline

EveryScenario == {"normal", "scada_replay", "scada_freeze", "scada_divergence",
                  "single_edge_exclusion", "quorum_loss"}
FreezeScenarios == {"normal", "scada_freeze"}
=============================================================================
