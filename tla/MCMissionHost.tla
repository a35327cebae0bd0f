--------------------------- MODULE MCMissionHost ---------------------------
EXTENDS MissionHost, TLC
CONSTANTS d1, d2, lead, worker, c1
MCSessionOf == d1 :> lead @@ d2 :> worker
=============================================================================
