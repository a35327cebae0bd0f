----------------------------- MODULE MCGoalLoop -----------------------------
EXTENDS GoalLoop
=============================================================================
