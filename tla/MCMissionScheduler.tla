------------------------- MODULE MCMissionScheduler -------------------------
(* Two Missions on one account with its own limit: the first with a lead, a *)
(* completed-question turn (also a lead) and two workers, the second with a *)
(* lead, and a heavy check of each.                                         *)
EXTENDS MissionScheduler, TLC

CONSTANTS m1, m2, lead1, answer1, worker1, other1, lead2, check1, check2, shared, own

MCMissionOf == [o \in Owners |-> IF o \in {lead2, check2} THEN m2 ELSE m1]
MCKindOf == [o \in Owners |-> IF o \in {lead1, answer1, lead2} THEN "lead"
                              ELSE IF o \in {worker1, other1} THEN "worker" ELSE "heavy_check"]
MCAccountOf == [o \in Owners |-> IF o \in {lead2, worker1, other1} THEN shared ELSE own]
MCLimitOf == [m \in Missions |-> 1]
MCCapacity(turns, limit) == [turns |-> turns, checks |-> 1, accounts |-> shared :> limit @@ own :> 128]
MCCapacities == {MCCapacity(3, 2), MCCapacity(2, 1)}
=============================================================================
