--------------------------- MODULE SessionRuntime ---------------------------
(***************************************************************************)
(* The harness runtimes of one ordinary session                            *)
(* (src/main/session-manager.ts and the start/dispose of its adapters):    *)
(* sends share or create a runtime, a runtime starts and raises approvals, *)
(* Stop, Archive and Delete retire it without waiting for its startup or   *)
(* for a dispose that hangs, and a new send may start the next one at once.*)
(*                                                                         *)
(* Abstracted: what a turn does; compaction; the preamble and attachments  *)
(* of an input; writer claims (see WorkspaceAdmission); statuses derived   *)
(* from git. Managed (Mission) and controlled runtimes are not ordinary    *)
(* ones. A kill, once issued, is not undone: how a process takes it is not *)
(* the app's doing.                                                        *)
(***************************************************************************)
EXTENDS Naturals, FiniteSets

CONSTANTS
  Sends,        \* concurrent calls of send()
  Closers,      \* which of "stop", "archive" and "delete" are called
  MaxRuntimes,  \* bound on runtimes ever created
  Adapter,      \* "rpc" (Codex, Claude) or "pi"
  Admits,       \* whether a start waits in MissionWorkspaceAdmission.dispatch
  Advertises    \* whether the harness reports slash commands (meta.harnessCommands)

ASSUME RuntimeAssumption ==
  /\ MaxRuntimes \in Nat \ {0}
  /\ Closers \subseteq {"stop", "archive", "delete"}
  /\ Adapter \in {"rpc", "pi"}
  /\ {Admits, Advertises} \subseteq BOOLEAN

Runtimes == 1 .. MaxRuntimes

VARIABLES
  listed, archived, status, commands,   \* the SessionMeta
  active,    \* this.active.get(id): a runtime, or 0
  born,      \* this.runtimeSeq.get(id)
  rt,        \* the runtimes, see RuntimeState
  send,      \* each send(): "idle", "driver", "starting" or "ready"
  on,        \* the runtime each send() got from ensureActive()
  closing,   \* each of Stop, Archive, Delete: "idle", "stopping" or "removing"
  target     \* the runtime it waits for

meta == <<listed, archived, status, commands>>
calls == <<send, on, closing, target>>
vars == <<meta, active, born, rt, calls>>

(* stage: the `starting` promise; proc: its process, "killed" once a kill is issued and "gone" once *)
(* its close is reported; grip: the adapter still refers to the process; op: the steps of           *)
(* retireOrdinary; disp: the dispose() call it makes.                                               *)
RuntimeState ==
  [stage : {"unborn", "queued", "preparing", "handshake", "up", "failed"},
   proc : {"none", "alive", "killed", "gone"}, grip : BOOLEAN,
   op : {"none", "opened", "flushing", "waiting", "done"}, explicit : BOOLEAN,
   disp : {"none", "running", "settled"}, busy : BOOLEAN, asked : BOOLEAN]

Unborn == [stage |-> "unborn", proc |-> "none", grip |-> FALSE, op |-> "none", explicit |-> FALSE,
           disp |-> "none", busy |-> FALSE, asked |-> FALSE]

Init ==
  /\ listed = TRUE /\ archived = FALSE /\ status = "idle"
  /\ commands = Advertises
  /\ active = 0 /\ born = 0
  /\ rt = [r \in Runtimes |-> Unborn]
  /\ send = [c \in Sends |-> "idle"] /\ on = [c \in Sends |-> 0]
  /\ closing = [k \in Closers |-> "idle"] /\ target = [k \in Closers |-> 0]

Current(r) == born = r                       \* a newer runtime fences the events of an older one
TearingDown(r) == rt[r].op # "none"
Starting(r) == rt[r].stage \in {"queued", "preparing", "handshake"}

(* emit({type: 'status'}) from a runtime; an idle one does not hide a pending approval. *)
Shows(r, new) ==
  status' = IF listed /\ Current(r) /\ ~(new = "idle" /\ active # 0 /\ rt[active].asked)
            THEN new ELSE status

(* retireOrdinary, up to its first await: the session is released at once. *)
Retire(r, explicit, f) ==
  /\ rt' = IF f[r].op = "none" THEN [f EXCEPT ![r].op = "opened", ![r].explicit = explicit] ELSE f
  /\ active' = IF active = r THEN 0 ELSE active

(* adapter.dispose() up to its first await: it takes the process from the adapter. *)
Disposed(r) == [rt EXCEPT ![r].disp = "running", ![r].grip = FALSE]

-----------------------------------------------------------------------------
(* send() and ensureActive(). *)

(* The bound: a send that awaits the goal driver has its runtime reserved. *)
Room == born + Cardinality({d \in Sends : send[d] = "driver"}) < MaxRuntimes

NewRuntime(c) ==
  LET r == born + 1 IN
  /\ born' = r
  /\ active' = r
  /\ status' = "starting"
  /\ rt' = [rt EXCEPT ![r].stage = IF Admits THEN "queued" ELSE "preparing"]
  /\ send' = [send EXCEPT ![c] = "starting"] /\ on' = [on EXCEPT ![c] = r]

SendBegins(c) ==
  /\ send[c] = "idle" /\ listed
  /\ \/ /\ active # 0
        /\ send' = [send EXCEPT ![c] = "starting"] /\ on' = [on EXCEPT ![c] = active]
        /\ UNCHANGED <<status, commands, active, born, rt>>
     \/ /\ active = 0 /\ commands /\ Room
        /\ commands' = FALSE
        /\ send' = [send EXCEPT ![c] = "driver"]
        /\ UNCHANGED <<status, active, born, rt, on>>
     \/ active = 0 /\ ~commands /\ Room /\ NewRuntime(c) /\ UNCHANGED commands
  /\ UNCHANGED <<listed, archived, closing, target>>

(* The await of applyGoalDriver is over; whether a runtime is there by now is not asked again. *)
DriverApplied(c) ==
  /\ send[c] = "driver"
  /\ NewRuntime(c)
  /\ UNCHANGED <<listed, archived, commands, closing, target>>

Usable(r) == active = r /\ ~TearingDown(r)   \* assertCurrent()

Returns(c) == send' = [send EXCEPT ![c] = "idle"] /\ on' = [on EXCEPT ![c] = 0]

(* Wrong variant: a start that failed is never reported to the call waiting for it. *)
ContinuesWhenUp(c) ==
  /\ send[c] = "starting" /\ rt[on[c]].stage = "up"
  /\ IF Usable(on[c]) THEN send' = [send EXCEPT ![c] = "ready"] /\ UNCHANGED on ELSE Returns(c)
  /\ UNCHANGED <<meta, active, born, rt, closing, target>>

SendContinues(c) ==
  /\ send[c] = "starting" /\ ~Starting(on[c])
  /\ IF rt[on[c]].stage = "up" /\ Usable(on[c])
     THEN send' = [send EXCEPT ![c] = "ready"] /\ UNCHANGED on
     ELSE Returns(c)
  /\ UNCHANGED <<meta, active, born, rt, closing, target>>

(* The input is handed over, unless the runtime went away meanwhile; a dead process rejects it. *)
SendDelivers(c) ==
  LET r == on[c] IN
  /\ send[c] = "ready"
  /\ Returns(c)
  /\ IF Usable(r) /\ rt[r].proc = "alive"
     THEN rt' = [rt EXCEPT ![r].busy = TRUE] /\ Shows(r, "running")
     ELSE UNCHANGED <<rt, status>>
  /\ UNCHANGED <<listed, archived, commands, active, born, closing, target>>

-----------------------------------------------------------------------------
(* The start of a runtime. *)

(* The dispatch is admitted; live() is asked before the harness is touched. *)
StartRuns(r) ==
  /\ rt[r].stage = "queued" /\ Current(r) /\ ~TearingDown(r)
  /\ rt' = [rt EXCEPT ![r].stage = "preparing"]
  /\ UNCHANGED <<meta, active, born, calls>>

(* Pi does not launch once it has been disposed; the others do not look. *)
Spawns(r) ==
  /\ rt[r].stage = "preparing" /\ ~(Adapter = "pi" /\ rt[r].disp # "none")
  /\ rt' = [rt EXCEPT ![r].stage = "handshake", ![r].proc = "alive", ![r].grip = TRUE]
  /\ UNCHANGED <<meta, active, born, calls>>

(* Wrong variant: a start that outlives Stop is left as it is. *)
StartsAndStays(r) ==
  /\ rt[r].stage = "handshake" /\ rt[r].proc = "alive"
  /\ rt' = [rt EXCEPT ![r].stage = "up"]
  /\ Shows(r, "idle")
  /\ commands' = (commands \/ (Advertises /\ listed /\ Current(r)))
  /\ UNCHANGED <<listed, archived, active, born, calls>>

(* A start that outlived Stop has its harness disposed again. *)
StartSucceeds(r) ==
  /\ rt[r].stage = "handshake" /\ rt[r].proc = "alive"
  /\ rt' = [IF TearingDown(r) THEN Disposed(r) ELSE rt EXCEPT ![r].stage = "up"]
  /\ Shows(r, "idle")
  /\ commands' = (commands \/ (Advertises /\ listed /\ Current(r)))
  /\ UNCHANGED <<listed, archived, active, born, calls>>

(* The adapter cleans up the process it still refers to; the manager disposes it if it is active. *)
StartFails(r) ==
  LET f == [rt EXCEPT ![r].stage = "failed", ![r].grip = FALSE,
                      ![r].proc = IF @ = "alive" /\ rt[r].grip THEN "killed" ELSE @]
  IN /\ Starting(r)
     /\ rt[r].stage = "queued" => ~Current(r) \/ TearingDown(r)
     /\ IF active = r
        THEN Retire(r, FALSE, f) /\ status' = IF listed THEN "error" ELSE status
        ELSE rt' = f /\ UNCHANGED <<active, status>>
     /\ UNCHANGED <<listed, archived, commands, born, calls>>

-----------------------------------------------------------------------------
(* retireOrdinary, after its first await. *)

(* Wrong variant: pending approvals are forgotten. *)
ForgetsApprovals(r) ==
  /\ rt[r].op = "opened"
  /\ rt' = [rt EXCEPT ![r].op = "flushing"]
  /\ UNCHANGED <<meta, active, born, calls>>

DeniesApprovals(r) ==
  /\ rt[r].op = "opened"
  /\ rt' = [rt EXCEPT ![r].op = "flushing", ![r].asked = FALSE]
  /\ UNCHANGED <<meta, active, born, calls>>

Flushes(r) ==
  /\ rt[r].op = "flushing"
  /\ rt' = [Disposed(r) EXCEPT ![r].op = "waiting"]
  /\ UNCHANGED <<meta, active, born, calls>>

(* dispose() shuts down the child it took at its call; one spawned later is not its child. *)
DisposeSettles(r) ==
  /\ rt[r].disp = "running"
  /\ rt' = [rt EXCEPT ![r].disp = "settled",
                      ![r].proc = IF @ = "alive" /\ ~rt[r].grip THEN "killed" ELSE @]
  /\ UNCHANGED <<meta, active, born, calls>>

(* Wrong variant: a dispose that hangs is waited for. *)
RetireEndsWhenDisposed(r) ==
  /\ rt[r].op = "waiting" /\ rt[r].disp = "settled"
  /\ rt' = [rt EXCEPT ![r].op = "done"]
  /\ status' = IF listed /\ rt[r].explicit THEN "idle" ELSE status
  /\ UNCHANGED <<listed, archived, commands, active, born, calls>>

(* Dispose has settled, or ORDINARY_DISPOSE_WAIT_MS are over. *)
RetireEnds(r) ==
  /\ rt[r].op = "waiting"
  /\ rt' = [rt EXCEPT ![r].op = "done"]
  /\ status' = IF listed /\ rt[r].explicit THEN "idle" ELSE status
  /\ UNCHANGED <<listed, archived, commands, active, born, calls>>

-----------------------------------------------------------------------------
(* What the harness does. *)

(* The process closes; Pi reports it only while it still refers to it. *)
Exits(r) ==
  LET f == [rt EXCEPT ![r].proc = "gone", ![r].grip = FALSE, ![r].busy = FALSE]
      reported == Current(r) /\ listed /\ ~(Adapter = "pi" /\ rt[r].disp = "settled")
  IN /\ rt[r].proc \in {"alive", "killed"}
     /\ status' = IF reported THEN "stopped" ELSE status
     /\ IF reported /\ active = r THEN Retire(r, FALSE, f) ELSE rt' = f /\ UNCHANGED active
     /\ UNCHANGED <<listed, archived, commands, born, calls>>

(* A fatal error event of a runtime that still runs. *)
Breaks(r) ==
  /\ rt[r].proc = "alive" /\ Current(r) /\ listed
  /\ status' = "error"
  /\ IF active = r THEN Retire(r, FALSE, rt) ELSE UNCHANGED <<rt, active>>
  /\ UNCHANGED <<listed, archived, commands, born, calls>>

TurnEnds(r) ==
  /\ rt[r].busy /\ rt[r].proc = "alive"
  /\ rt' = [rt EXCEPT ![r].busy = FALSE]
  /\ Shows(r, "idle")
  /\ UNCHANGED <<listed, archived, commands, active, born, calls>>

(* requestApproval; any other runtime is answered "deny" on the spot. *)
RequestApproval(r) ==
  /\ rt[r].busy /\ rt[r].proc = "alive" /\ Current(r) /\ listed /\ Usable(r)
  /\ rt' = [rt EXCEPT ![r].asked = TRUE]
  /\ status' = "awaiting"
  /\ UNCHANGED <<listed, archived, commands, active, born, calls>>

-----------------------------------------------------------------------------
(* What the user does. *)

RespondApproval ==
  /\ active # 0 /\ rt[active].asked
  /\ rt' = [rt EXCEPT ![active].asked = FALSE]
  /\ status' = IF listed /\ status = "awaiting" THEN "running" ELSE status
  /\ UNCHANGED <<listed, archived, commands, active, born, calls>>

(* The turn it interrupts ends in its own time. *)
Interrupt ==
  /\ active # 0 /\ rt[active].asked
  /\ rt' = [rt EXCEPT ![active].asked = FALSE]
  /\ UNCHANGED <<meta, active, born, calls>>

AfterStop(k) == IF k = "stop" THEN "idle" ELSE "removing"

CloseBegins(k) ==
  /\ closing[k] = "idle" /\ listed
  /\ IF active = 0
     THEN /\ closing' = [closing EXCEPT ![k] = AfterStop(k)]
          /\ UNCHANGED <<active, rt, target>>
     ELSE /\ Retire(active, TRUE, rt)
          /\ closing' = [closing EXCEPT ![k] = "stopping"] /\ target' = [target EXCEPT ![k] = active]
  /\ UNCHANGED <<meta, born, send, on>>

StopReturns(k) ==
  /\ closing[k] = "stopping" /\ rt[target[k]].op = "done"
  /\ closing' = [closing EXCEPT ![k] = AfterStop(k)] /\ target' = [target EXCEPT ![k] = 0]
  /\ UNCHANGED <<meta, active, born, rt, send, on>>

(* The worktree is removed and the transcript read; the session is archived or removed. *)
PutAway(k) ==
  /\ closing[k] = "removing"
  /\ closing' = [closing EXCEPT ![k] = "idle"]
  /\ archived' = (archived \/ (k = "archive" /\ listed))
  /\ listed' = (listed /\ k # "delete")
  /\ UNCHANGED <<status, commands, active, born, rt, send, on, target>>

Unarchive ==
  /\ listed /\ archived /\ archived' = FALSE
  /\ UNCHANGED <<listed, status, commands, active, born, rt, calls>>

-----------------------------------------------------------------------------
SendStep(c) == SendContinues(c) \/ SendDelivers(c) \/ DriverApplied(c)
RetireStep(r) == DeniesApprovals(r) \/ Flushes(r) \/ RetireEnds(r)
StartStep(r) == StartRuns(r) \/ Spawns(r) \/ StartSucceeds(r) \/ StartFails(r)
HarnessStep(r) == Exits(r) \/ Breaks(r) \/ TurnEnds(r) \/ RequestApproval(r)

Next ==
  \/ \E c \in Sends : SendBegins(c) \/ SendStep(c)
  \/ \E r \in Runtimes : StartStep(r) \/ RetireStep(r) \/ DisposeSettles(r) \/ HarnessStep(r)
  \/ RespondApproval \/ Interrupt \/ Unarchive
  \/ \E k \in Closers : CloseBegins(k) \/ StopReturns(k) \/ PutAway(k)

Spec == Init /\ [][Next]_vars

(* Promises settle, a start ends (its handshake has timeouts) and the dispose timer fires. Nothing *)
(* is assumed of the user, of the harness or of dispose().                                         *)
FairSpec ==
  /\ Spec
  /\ \A c \in Sends : WF_vars(SendStep(c))
  /\ \A r \in Runtimes : WF_vars(StartStep(r)) /\ WF_vars(RetireStep(r))
  /\ \A k \in Closers : WF_vars(StopReturns(k) \/ PutAway(k))

-----------------------------------------------------------------------------
(* Properties. *)

(* The shape of the state; a runtime is retired once, and not while it is the active one. *)
TypeOK ==
  /\ listed \in BOOLEAN /\ archived \in BOOLEAN /\ commands \in BOOLEAN
  /\ status \in {"idle", "starting", "running", "awaiting", "error", "stopped"}
  /\ born \in 0 .. MaxRuntimes /\ active \in 0 .. born
  /\ rt \in [Runtimes -> RuntimeState]
  /\ \A r \in Runtimes : rt[r].stage = "unborn" <=> r > born
  /\ active # 0 => ~TearingDown(active)
  /\ send \in [Sends -> {"idle", "driver", "starting", "ready"}] /\ on \in [Sends -> 0 .. born]
  /\ closing \in [Closers -> {"idle", "stopping", "removing"}] /\ target \in [Closers -> 0 .. born]

(* A pending approval can be answered (it belongs to the runtime respondApproval looks up), or its *)
(* runtime is about to deny it: a harness never waits for an answer nobody can give.               *)
ApprovalsAreAnswerable ==
  \A r \in Runtimes : rt[r].asked => active = r \/ rt[r].op = "opened"

(* A harness process that has not been told to end belongs to the active runtime, or to a start or *)
(* a teardown still under way: no order of sends, stops, failed and late starts orphans one.       *)
NothingRunsUnowned ==
  \A r \in Runtimes : rt[r].proc = "alive" =>
    active = r \/ Starting(r) \/ rt[r].op \in {"opened", "flushing", "waiting"} \/ rt[r].disp = "running"

(* Stop, Archive and Delete return, even when the start or the dispose of the harness hangs, and  *)
(* every send is answered: delivered, or rejected because its runtime failed or was stopped. No    *)
(* caller waits for ever on another one's start, stop or dispose, however they overlap.            *)
CallsReturn ==
  /\ \A k \in Closers : []<>(closing[k] = "idle")
  /\ \A c \in Sends : []<>(send[c] = "idle")
=============================================================================
