------------------------ MODULE MCWorkspaceAdmission ------------------------
(* A project root with two worktrees below it and a session in one: one   *)
(* operation leases a worktree, another the root that contains both.       *)
EXTENDS WorkspaceAdmission, TLC

CONSTANTS root, left, right, worker, capture, integrate

MCPlaces == {root, left, right}
MCUnder == {<<root, left>>, <<root, right>>} \cup {<<p, p>> : p \in MCPlaces}
MCCwdOf == worker :> left
MCHolders == {capture, integrate}
MCRootOf == capture :> left @@ integrate :> root
=============================================================================
