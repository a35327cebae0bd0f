------------------------------ MODULE GoalLoop ------------------------------
(***************************************************************************)
(* The goal of one ordinary session (src/main/session-manager.ts): the     *)
(* prompt that starts it, the check-ins that follow each of its turns, and *)
(* the messages and compactions of the user, which share the harness with  *)
(* them.  A prompt passes several awaits between sendAs() and the adapter, *)
(* a timer waits out a busy session, and an adapter reports the end of a   *)
(* turn in its own way: "codex" at once, "native" as idle only when its    *)
(* history is saved, "pi" only when its statistics have come.              *)
(*                                                                         *)
(* Abstracted: an answer is whether it ends with GOAL_COMPLETE; the window *)
(* of Stop and the fencing of old runtimes (see SessionRuntime); a fresh   *)
(* runtime's goal driver; latches and delays of automatic compaction; the  *)
(* "update" of a goal.  A compaction leaves the adapter idle, as Pi's and  *)
(* the native one do.                                                      *)
(*                                                                         *)
(* No name is also one of ControlledTurn: SessionTurnProofs extends both.  *)
(***************************************************************************)
EXTENDS Naturals, Sequences, SequencesExt

CONSTANTS Adapters,       \* those the session may have: "codex", "native", "pi"
          MaxIterations,  \* goal.maxIterations
          Attempts,       \* GOAL_CONTINUATION_MAX_ATTEMPTS
          MaxCalls,       \* bound on calls of goal()
          MaxMessages,    \* bound on messages of the user
          MaxRuntimes, MaxCompactions

ASSUME GoalLoopAssumption ==
  /\ Adapters \subseteq {"codex", "native", "pi"}
  /\ {MaxIterations, MaxCalls, MaxMessages, MaxRuntimes, MaxCompactions} \subseteq Nat
  /\ Attempts \in Nat \ {0}

Goals == 1 .. MaxCalls            \* in the order they were set
Outcomes == {"completed", "failed", "interrupted"}

VARIABLES
  goal,        \* meta.goal; its id is 0 when there is none
  status,      \* meta.status: "idle" also stands for "stopped" and "error"
  runtime,     \* "none", "starting" or "up"
  sends,       \* the sendAs() under way: whose prompt (0 for the user's), and which await it is in
  pending,     \* pendingGoalKickoff: a goal, or 0
  timer,       \* goalContinuationTimer: one continuation, or none
  inCompaction,  \* compactionInFlight
  token,       \* lastAssistantText ends with the token
  (* The adapter. *)
  adapter,     \* which one: it decides how the end of a turn is reported
  turn,        \* the turn it is busy with, or none
  settling,    \* a turn whose end it is still reporting, or none
  queue,       \* prompts that wait in it for the next turn
  asked,       \* it waits for an approval
  (* Bounds and history. *)
  sets, goalCalls, messages, runs, compactions,
  told,        \* goals whose prompt the adapter was given
  starts,      \* times the present goal was set or resumed
  prompts,     \* prompts sent for it
  driven       \* its last turn was completed and called for a check-in

harness == <<turn, settling, queue, asked>>
bounds == <<sets, goalCalls, messages, runs, compactions>>
goalHistory == <<told, starts, prompts, driven>>
goalVars == <<goal, status, runtime, sends, pending, timer, inCompaction, token, adapter, harness, bounds,
              goalHistory>>

NoGoal == [id |-> 0, status |-> "none", iterations |-> 0, auto |-> FALSE]

GoalInit ==
  /\ adapter \in Adapters
  /\ goal = NoGoal /\ status = "idle" /\ runtime = "none" /\ sends = <<>>
  /\ pending = 0 /\ timer = {} /\ inCompaction = FALSE /\ token = FALSE
  /\ turn = {} /\ settling = {} /\ queue = <<>> /\ asked = FALSE
  /\ sets = 0 /\ goalCalls = 0 /\ messages = 0 /\ runs = 0 /\ compactions = 0
  /\ told = {} /\ starts = 0 /\ prompts = 0 /\ driven = FALSE

Held == status \in {"running", "starting", "awaiting"} \/ turn # {}
Continuation(id, kickoff, attempt) == [goal |-> id, kickoff |-> kickoff, attempt |-> attempt]

-----------------------------------------------------------------------------
(* sendAs() and dispatchInput(). *)

Room == runtime # "none" \/ runs < MaxRuntimes   \* a bound

(* Up to the first await: a runtime is started or waited for, a compaction waited out. *)
SendAs(id) ==
  /\ Room
  /\ sends' = Append(sends, [of |-> id, at |-> IF runtime # "up" THEN "starting"
                                               ELSE IF inCompaction THEN "compacting" ELSE "preparing"])
  /\ IF runtime = "none"
     THEN runtime' = "starting" /\ status' = "starting" /\ runs' = runs + 1
     ELSE UNCHANGED <<runtime, status, runs>>

Resumed(at) == [k \in DOMAIN sends |-> IF sends[k].at = at THEN [sends[k] EXCEPT !.at = "preparing"] ELSE sends[k]]

UserSends ==
  /\ messages < MaxMessages /\ messages' = messages + 1
  /\ SendAs(0)
  /\ UNCHANGED <<goal, pending, timer, inCompaction, token, harness, sets, goalCalls, compactions,
                 goalHistory>>

(* Wrong variant: the idle moment passes. *)
IdlesOnly(newGoal, newTimer) ==
  /\ timer' = newTimer
  /\ IF asked THEN UNCHANGED status ELSE status' = "idle"

(* A kickoff that waits for the first idle moment is scheduled at every status "idle". *)
Idles(newGoal, newTimer) ==
  IF asked THEN timer' = newTimer /\ UNCHANGED status
  ELSE /\ status' = "idle"
       /\ timer' = IF pending # 0 /\ pending = newGoal.id /\ newGoal.status = "active"
                   THEN {Continuation(pending, TRUE, 0)} ELSE newTimer

RuntimeStarts ==
  /\ runtime = "starting" /\ runtime' = "up"
  /\ sends' = Resumed("starting")
  /\ Idles(goal, timer)
  /\ UNCHANGED <<goal, pending, inCompaction, token, harness, bounds, goalHistory>>

NewTurn(heard) == {[since |-> sets, told |-> heard, says |-> FALSE, cut |-> FALSE]}

(* The preamble is read and the dispatch admitted: the prompt is the adapter's. *)
Dispatch(k) ==
  /\ k \in DOMAIN sends /\ sends[k].at = "preparing"
  /\ sends' = RemoveAt(sends, k)
  /\ told' = told \cup ({sends[k].of} \cap Goals)
  /\ \/ /\ turn = {}
        /\ turn' = NewTurn(told') /\ status' = "running" /\ UNCHANGED queue
     \/ /\ turn # {}
        /\ queue' = IF adapter = "pi" THEN queue ELSE Append(queue, sends[k].of)
        /\ UNCHANGED <<turn, status>>
  /\ UNCHANGED <<goal, runtime, pending, timer, inCompaction, token, settling, asked, bounds,
                 starts, prompts, driven>>

(* The adapter rejects it; the native one does before it has said that it runs. *)
DispatchFails(k) ==
  /\ k \in DOMAIN sends /\ sends[k].at = "preparing"
  /\ turn = {}
  /\ sends' = RemoveAt(sends, k)
  /\ IF adapter = "native" THEN UNCHANGED <<status, timer>> ELSE Idles(goal, timer)
  /\ driven' = (driven /\ sends[k].of = 0)
  /\ UNCHANGED <<goal, runtime, pending, inCompaction, token, harness, bounds, told, starts, prompts>>

Compact ==
  /\ runtime = "up" /\ ~inCompaction
  /\ compactions < MaxCompactions /\ compactions' = compactions + 1
  /\ inCompaction' = TRUE
  /\ UNCHANGED <<goal, status, runtime, sends, pending, timer, token, harness,
                 sets, goalCalls, messages, runs, goalHistory>>

CompactionDone ==
  /\ inCompaction /\ inCompaction' = FALSE
  /\ sends' = Resumed("compacting")
  /\ UNCHANGED <<goal, status, runtime, pending, timer, token, harness, bounds, goalHistory>>

(* Stop, the exit of the harness or a start that failed: what waited for this runtime is rejected. *)
RuntimeEnds ==
  /\ runtime # "none" /\ runtime' = "none"
  /\ status' = "idle" /\ sends' = <<>> /\ pending' = 0 /\ timer' = {}
  /\ inCompaction' = FALSE /\ token' = FALSE
  /\ turn' = {} /\ settling' = {} /\ queue' = <<>> /\ asked' = FALSE
  /\ driven' = FALSE
  /\ UNCHANGED <<goal, bounds, told, starts, prompts>>

-----------------------------------------------------------------------------
(* onTurnFinished(). *)

(* Wrong variant: a goal that was set during the turn is judged by its answer. *)
CountsAlways(outcome) == goal.status = "active" /\ outcome = "completed"

Counts(outcome) == goal.status = "active" /\ pending # goal.id /\ outcome = "completed"

Continues(outcome) ==
  Counts(outcome) /\ ~token /\ goal.auto /\ goal.iterations < MaxIterations

GoalAfter(outcome) ==
  IF ~Counts(outcome) THEN goal
  ELSE IF token THEN [goal EXCEPT !.status = "complete"]
  ELSE IF ~goal.auto THEN goal
  ELSE IF goal.iterations >= MaxIterations THEN [goal EXCEPT !.status = "paused"]
  ELSE [goal EXCEPT !.iterations = @ + 1]

TimerAfter(outcome) == IF Continues(outcome) THEN {Continuation(goal.id, FALSE, 0)} ELSE timer

TurnFinished(outcome) ==
  /\ goal' = GoalAfter(outcome)
  /\ token' = FALSE
  /\ driven' = Continues(outcome)

-----------------------------------------------------------------------------
(* The adapter's turn. *)

TurnAnswers ==
  /\ turn # {} /\ ~asked
  /\ \E says \in BOOLEAN :
       token' = says /\ turn' = {[t EXCEPT !.says = says] : t \in turn}
  /\ UNCHANGED <<goal, status, runtime, sends, pending, timer, inCompaction, settling, queue, asked,
                 bounds, goalHistory>>

RequestApproval ==
  /\ turn # {} /\ ~asked
  /\ asked' = TRUE /\ status' = "awaiting"
  /\ UNCHANGED <<goal, runtime, sends, pending, timer, inCompaction, token, turn, settling, queue,
                 bounds, goalHistory>>

RespondApproval ==
  /\ asked /\ asked' = FALSE
  /\ status' = "running"
  /\ UNCHANGED <<goal, runtime, sends, pending, timer, inCompaction, token, turn, settling, queue,
                 bounds, goalHistory>>

(* The turn goes on to an end of its own; of the status only a later event makes something else. *)
Interrupt ==
  /\ turn # {} /\ asked' = FALSE
  /\ turn' = {[t EXCEPT !.cut = TRUE] : t \in turn}
  /\ UNCHANGED <<goal, status, runtime, sends, pending, timer, inCompaction, token, settling, queue,
                 bounds, goalHistory>>

(* Codex: the turn's end, idle, and the next prompt of its queue. *)
CodexTurnEnds(outcome) ==
  /\ adapter = "codex" /\ turn # {} /\ ~asked
  /\ TurnFinished(outcome)
  /\ IF queue = <<>>
     THEN turn' = {} /\ Idles(GoalAfter(outcome), TimerAfter(outcome)) /\ UNCHANGED queue
     ELSE /\ turn' = NewTurn(told) /\ status' = "running" /\ queue' = Tail(queue)
          /\ timer' = IF pending # 0 /\ pending = goal.id /\ goal.status = "active"
                      THEN {Continuation(pending, TRUE, 0)} ELSE TimerAfter(outcome)
  /\ UNCHANGED <<runtime, sends, pending, inCompaction, settling, asked, bounds, told, starts, prompts>>

(* The native adapter: the turn's end, the history is saved, ... *)
NativeTurnEnds(outcome) ==
  /\ adapter = "native" /\ turn # {} /\ ~asked /\ settling = {}
  /\ \A t \in turn : t.cut <=> outcome = "interrupted"
  /\ TurnFinished(outcome) /\ timer' = TimerAfter(outcome)
  /\ turn' = {} /\ settling' = turn
  /\ UNCHANGED <<status, runtime, sends, pending, inCompaction, queue, asked, bounds,
                 told, starts, prompts>>

(* ... idle, even if a new turn has begun, and the next prompt of its queue. *)
NativeSettles ==
  /\ adapter = "native" /\ settling # {} /\ settling' = {}
  /\ \/ queue = <<>> /\ Idles(goal, timer) /\ UNCHANGED <<queue, turn>>
     \/ /\ queue # <<>> /\ turn # {}
        /\ queue' = Append(Tail(queue), Head(queue))
        /\ Idles(goal, timer) /\ UNCHANGED turn
     \/ /\ queue # <<>> /\ turn = {}
        /\ queue' = Tail(queue) /\ turn' = NewTurn(told) /\ status' = "running"
        /\ timer' = IF pending # 0 /\ pending = goal.id /\ goal.status = "active"
                    THEN {Continuation(pending, TRUE, 0)} ELSE timer
  /\ UNCHANGED <<goal, runtime, sends, pending, inCompaction, token, asked, bounds, goalHistory>>

(* Pi is free at once, ... *)
PiTurnEnds ==
  /\ adapter = "pi" /\ turn # {} /\ ~asked /\ settling = {}
  /\ turn' = {} /\ settling' = turn
  /\ UNCHANGED <<goal, status, runtime, sends, pending, timer, inCompaction, token, queue, asked,
                 bounds, goalHistory>>

(* ... and reports the turn when its statistics have come, or the request has timed out. *)
PiSettles(outcome) ==
  /\ adapter = "pi" /\ settling # {} /\ settling' = {}
  /\ TurnFinished(outcome)
  /\ Idles(GoalAfter(outcome), TimerAfter(outcome))
  /\ UNCHANGED <<runtime, sends, pending, inCompaction, turn, queue, asked, bounds,
                 told, starts, prompts>>

-----------------------------------------------------------------------------
(* scheduleGoalContinuation(): the timer fires. *)

Due(c) == goal.id = c.goal /\ goal.status = "active" /\ (c.kickoff => pending = c.goal)

(* Wrong variant: a busy session is not waited out. *)
DropsWhenHeld(c) == ~Due(c) \/ Held

(* A check-in belongs to the turn behind an approval, which will call for its own. *)
Drops(c) == ~Due(c) \/ (status = "awaiting" /\ ~c.kickoff)

(* The session was busy at every attempt; the report of a turn's end takes less than all of them. *)
GivesUp(c) == c.attempt + 1 >= Attempts /\ settling = {}

Waits ==
  \E c \in timer :
    /\ ~Drops(c) /\ Held
    /\ \/ GivesUp(c) /\ timer' = {}
       \/ c.attempt + 1 < Attempts /\ timer' = {[c EXCEPT !.attempt = @ + 1]}
    /\ UNCHANGED <<goal, status, runtime, sends, pending, inCompaction, token, harness, bounds,
                   goalHistory>>

Lapses ==
  \E c \in timer :
    /\ Drops(c) /\ timer' = {}
    /\ UNCHANGED <<goal, status, runtime, sends, pending, inCompaction, token, harness, bounds,
                   goalHistory>>

(* Wrong variant: the kickoff stays reserved after it was sent. *)
FiresAndKeeps ==
  \E c \in timer :
    /\ ~Drops(c) /\ ~Held
    /\ timer' = {}
    /\ SendAs(c.goal)
    /\ prompts' = prompts + 1
    /\ UNCHANGED <<goal, pending, inCompaction, token, harness, sets, goalCalls, messages, compactions,
                   told, starts, driven>>

Fires ==
  \E c \in timer :
    /\ ~Drops(c) /\ ~Held
    /\ timer' = {}
    /\ pending' = IF c.kickoff THEN 0 ELSE pending
    /\ SendAs(c.goal)
    /\ prompts' = prompts + 1
    /\ UNCHANGED <<goal, inCompaction, token, harness, sets, goalCalls, messages, compactions,
                   told, starts, driven>>

-----------------------------------------------------------------------------
(* goal(). *)

Call == goalCalls < MaxCalls /\ goalCalls' = goalCalls + 1 /\ driven' = FALSE

(* startGoal: now if the session is free, else at its first idle moment. *)
StartGoal(id) ==
  IF runtime # "none" /\ Held
  THEN /\ pending' = id
       /\ timer' = IF status = "idle" THEN {Continuation(id, TRUE, 0)} ELSE {}
       /\ UNCHANGED <<sends, runtime, status, runs>>
  ELSE pending' = 0 /\ timer' = {} /\ SendAs(id)

SetGoal ==
  /\ Call
  /\ sets' = sets + 1
  /\ \E auto \in BOOLEAN :
       goal' = [id |-> sets', status |-> "active", iterations |-> 0, auto |-> auto]
  /\ StartGoal(sets')
  /\ starts' = 1 /\ prompts' = Len(sends') - Len(sends)
  /\ UNCHANGED <<inCompaction, token, harness, messages, compactions, told>>

ResumeGoal ==
  /\ Call
  /\ goal.id # 0
  /\ goal' = [goal EXCEPT !.status = "active"]
  /\ StartGoal(goal.id)
  /\ starts' = starts + 1 /\ prompts' = prompts + Len(sends') - Len(sends)
  /\ UNCHANGED <<inCompaction, token, harness, sets, messages, compactions, told>>

(* "pause", "complete" and "clear". *)
EndGoal ==
  /\ Call
  /\ goal.id # 0
  /\ goal' \in {NoGoal} \cup {[goal EXCEPT !.status = s] : s \in {"paused", "complete"}}
  /\ pending' = 0 /\ timer' = {}
  /\ UNCHANGED <<status, runtime, sends, inCompaction, token, harness, sets, messages, runs,
                 compactions, told, starts, prompts>>

-----------------------------------------------------------------------------
TimerStep == Waits \/ Lapses \/ Fires

Step ==
  \/ UserSends \/ SetGoal \/ ResumeGoal \/ EndGoal
  \/ RuntimeStarts \/ RuntimeEnds \/ Compact \/ CompactionDone
  \/ \E k \in DOMAIN sends : Dispatch(k) \/ DispatchFails(k)
  \/ TurnAnswers \/ RequestApproval \/ RespondApproval \/ Interrupt
  \/ \E outcome \in Outcomes :
       CodexTurnEnds(outcome) \/ NativeTurnEnds(outcome) \/ PiSettles(outcome)
  \/ NativeSettles \/ PiTurnEnds
  \/ TimerStep

GoalNext == Step /\ UNCHANGED adapter

GoalSpec == GoalInit /\ [][GoalNext]_goalVars

Settles == NativeSettles \/ \E outcome \in Outcomes : PiSettles(outcome)

(* Timers fire, and an adapter reports a turn's end in full: a file write ends, a request times out. *)
(* Nothing is assumed of turns, compactions, approvals or the user.                                  *)
FairGoalSpec ==
  GoalSpec /\ WF_goalVars(TimerStep /\ UNCHANGED adapter) /\ WF_goalVars(Settles /\ UNCHANGED adapter)

-----------------------------------------------------------------------------
(* Properties. *)

(* The shape of the state; a kickoff is reserved only for the goal the session has. *)
GoalTypeOK ==
  /\ goal \in [id : 0 .. MaxCalls, status : {"none", "active", "paused", "complete"},
               iterations : 0 .. MaxIterations, auto : BOOLEAN]
  /\ pending \in {0, goal.id}
  /\ sends \in Seq([of : 0 .. MaxCalls, at : {"starting", "compacting", "preparing"}])
  /\ turn # {} => runtime = "up"
  /\ asked => turn # {}

(* An autonomous run does not end silently: after a completed turn that called for a check-in, until *)
(* its goal is reached, paused or replaced, a check-in is timed or on its way, or a turn runs whose  *)
(* end will call for the next.                                                                       *)
NeverStalls ==
  driven /\ goal.status = "active" =>
    \/ timer # {} \/ turn # {} \/ settling # {} \/ queue # <<>>
    \/ \E k \in DOMAIN sends : sends[k].of = goal.id

(* A goal gets one prompt for each time it was set or resumed and one for each counted check-in, *)
(* never more than its guard allows: no timer, idle event or second turn delivers one twice.     *)
EachPromptOnce == goal.id # 0 => prompts <= starts + goal.iterations /\ goal.iterations <= MaxIterations

(* A turn is reported. *)
Reports == \E outcome \in Outcomes : CodexTurnEnds(outcome) \/ NativeTurnEnds(outcome)

(* What judges a goal is the answer of the turn that is reported, never what an earlier one left behind; *)
(* and a turn that began before the goal was submitted neither completes it nor counts as a check-in.     *)
(* Not so over Pi: while it still reports a turn, a goal may be set and the next turn may answer.         *)
RepliesJudgeTheirGoal ==
  [][adapter # "pi" /\ Reports /\ goal' # goal =>
       \A t \in turn : t.since >= goal.id /\ (goal'.status = "complete" => t.says)]_goalVars

(* A kickoff that waits for the session to be free is delivered, or invalidated, once it is free. *)
KickoffIsDelivered == ~<>[](pending # 0 /\ ~Held)
=============================================================================
