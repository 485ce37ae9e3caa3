----------------------- MODULE MCDashboardController -----------------------
EXTENDS DashboardController

TwoScenarios == {"normal", "scada_replay"}
=============================================================================
