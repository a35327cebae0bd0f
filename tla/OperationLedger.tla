--------------------------- MODULE OperationLedger ---------------------------
(***************************************************************************)
(* What ControlService promises about each operation, without a journal,   *)
(* a process or a clock: a durable receipt and the work it stands for.     *)
(* One step may move several operations (disabling control, restarting and *)
(* pruning do), each along its own line:                                   *)
(*                                                                         *)
(*   none -> accepted -> dispatched -> succeeded | failed | interrupted    *)
(*               |            |                                            *)
(*               +-> failed   +-> unknown          terminal -> forgotten   *)
(*                                                                         *)
(* The work starts at most once, in the very step that dispatches it, and  *)
(* the receipt then claims an outcome only if the work had that outcome.   *)
(***************************************************************************)
CONSTANT Ops

VARIABLES receipt,  \* what a reader of the disk finds
          work      \* what the harness did

ledger == <<receipt, work>>

Outcomes == {"succeeded", "failed", "interrupted", "unknown"}

Init == receipt = [o \in Ops |-> "none"] /\ work = [o \in Ops |-> "no"]

Keeps(o) == receipt'[o] = receipt[o]
Idle(o) == work'[o] = work[o]

Accept(o) == receipt[o] = "none" /\ receipt'[o] = "accepted" /\ Idle(o)
Cancel(o) == receipt[o] = "accepted" /\ receipt'[o] = "failed" /\ Idle(o)
Dispatch(o) ==
  /\ receipt[o] = "accepted" /\ receipt'[o] = "dispatched"
  /\ work[o] = "no" /\ work'[o] \in {"no", "running"}
End(o) == work[o] = "running" /\ work'[o] \in Outcomes /\ Keeps(o)
Settle(o) ==
  /\ receipt[o] = "dispatched" /\ work[o] # "running"
  /\ receipt'[o] \in {work[o], "unknown"} \cap Outcomes
  /\ Idle(o)
(* A restart finds a live receipt: nobody knows, and it may be old enough to prune. *)
Lose(o) ==
  /\ receipt[o] \in {"accepted", "dispatched"} /\ work[o] # "running"
  /\ receipt'[o] \in {"unknown", "forgotten"}
  /\ Idle(o)
Forget(o) == receipt[o] \in Outcomes /\ receipt'[o] = "forgotten" /\ Idle(o)

OpStep(o) ==
  \/ Keeps(o) /\ Idle(o)
  \/ Accept(o) \/ Cancel(o) \/ Dispatch(o) \/ End(o) \/ Settle(o) \/ Lose(o) \/ Forget(o)

Next ==
  /\ receipt' \in [Ops -> {"none", "accepted", "dispatched", "forgotten"} \cup Outcomes]
  /\ work' \in [Ops -> {"no", "running"} \cup Outcomes]
  /\ \A o \in Ops : OpStep(o)

Spec == Init /\ [][Next]_ledger
=============================================================================
