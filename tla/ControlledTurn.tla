--------------------------- MODULE ControlledTurn ---------------------------
(***************************************************************************)
(* What the session manager does with a controller's input                 *)
(* (runControlled() in src/main/session-manager.ts): it takes the session  *)
(* for itself, replaces its runtime by a fresh one, hands over the input   *)
(* at most once and reports how the turn ended; `Control` is its caller.   *)
(* An action is the code between two awaits.  Beside it run the desktop's  *)
(* own messages, Stop, the controller's interrupt, and a harness that may  *)
(* exit, begin turns of its own, report them late, or answer the send late.*)
(*                                                                         *)
(* Abstracted: the ordinary runtime is one that comes back; goals and      *)
(* commands, which refuse a run at once; a tool or a subagent of a turn is *)
(* "more work"; a Stop's release of stale claims is its one await.         *)
(***************************************************************************)
EXTENDS Naturals, FiniteSets

CONSTANTS Ops,            \* the controller's operations on this session
          None,
          Admits,         \* whether dispatches need the workspace admission
          MaxEvents       \* bound on messages of the desktop, Stops, turns nobody asked for, exits,
                          \* refusals, and failed reads and writes, together

Desk == "desk"                         \* the ordinary runtime

ASSUME ControlledAssumption ==
  /\ Admits \in BOOLEAN /\ MaxEvents \in Nat
  /\ Desk \notin Ops /\ None \notin Ops \cup {Desk}

Runtimes == Ops \cup {Desk}
Ended == {"completed", "failed", "interrupted"}

VARIABLES
  (* The lease: this.controlled.get(id). *)
  lease,        \* its operation, or None
  stage,        \* the await of runControlled()
  dispatched, started, canceled, uncertain,
  terminal,     \* "none" or the outcome
  turnId,       \* the turn item that was seen: "none", "input" or "extra"
  (* The session. *)
  active,       \* the runtime in this.active, or None
  rt,           \* each runtime: its process, whether it is fenced, and what its harness does
  desk,         \* configDispatches: a message of the desktop is on its way
  compacting,   \* compactionInFlight of the ordinary runtime
  writes,       \* lease.writes: how many are under way
  writeFailed,  \* one of them failed while the lease was held
  interrupting, \* the lease whose interrupt waits for the adapter, or None
  stopping,     \* the lease a Stop found, before its first await, or None
  (* Bounds and history. *)
  events,
  result,       \* what runControlled() returned: "none", "threw" or an outcome
  given,        \* how often the harness was given the input
  withdrawn,    \* interrupted or stopped before it was given
  stained,      \* its runtime reported work that was not its own
  killed        \* a run ended a turn of the desktop

leaseVars == <<lease, stage, dispatched, started, canceled, uncertain, terminal, turnId>>
session == <<active, rt, desk, compacting>>
saving == <<writes, writeFailed>>
calls == <<interrupting, stopping>>
history == <<result, given, withdrawn, stained, killed>>
vars == <<leaseVars, session, saving, calls, events, history>>

(* proc: "unborn", "starting", "up", "closing" (dispose is under way), "gone". *)
(* turn: the turn its harness is busy with, and how the input's went.          *)
(* late: an extra turn that ended and is not yet reported.                     *)
(* send: adapter.send() of the input, "none", "open", "settled".               *)
Unborn == [proc |-> "unborn", fenced |-> FALSE, turn |-> "none", input |-> "none",
           late |-> FALSE, send |-> "none", work |-> FALSE]

Init ==
  /\ lease = None /\ stage = "none" /\ dispatched = FALSE /\ started = FALSE
  /\ canceled = FALSE /\ uncertain = FALSE /\ terminal = "none" /\ turnId = "none"
  /\ active = None /\ rt = [r \in Runtimes |-> Unborn] /\ desk = FALSE /\ compacting = FALSE
  /\ writes = 0 /\ writeFailed = FALSE /\ interrupting = None /\ stopping = None
  /\ events = 0
  /\ result = [o \in Ops |-> "none"] /\ given = [o \in Ops |-> 0]
  /\ withdrawn = {} /\ stained = {} /\ killed = FALSE

Closing == {r \in Runtimes : rt[r].proc = "closing"}   \* this.retiring

Event == events < MaxEvents /\ events' = events + 1   \* a bound

(* retireOrdinary(): out of the map at once; the harness is left to its end. *)
Retired(r, fence) == [rt EXCEPT ![r].proc = "closing", ![r].fenced = @ \/ fence]

(* assertCurrent() *)
Current == ~canceled /\ ~uncertain /\ (rt[lease].proc # "unborn" => active = lease)

(* endControlled() *)
EndsAs(outcome) == terminal' = IF terminal = "none" THEN outcome ELSE terminal

-----------------------------------------------------------------------------
(* runControlled() *)

Busy == desk \/ Closing # {} \/ (active # None /\ (rt[active].turn # "none" \/ rt[active].proc = "starting" \/ rt[active].work))

Ends(outcome) == lease' = None /\ stage' = "none" /\ result' = [result EXCEPT ![lease] = outcome]

(* Wrong variant: a run that fails leaves its runtime as it is. *)
ThrowsOnly == Ends("threw") /\ UNCHANGED <<active, rt>>

(* `finally`: fence the runtime, and dispose of it if it is still the session's. *)
Throws ==
  /\ rt' = [r \in Runtimes |-> IF r # lease \/ rt[r].proc = "unborn" THEN rt[r]
                               ELSE IF active = r THEN Retired(r, TRUE)[r] ELSE [rt[r] EXCEPT !.fenced = TRUE]]
  /\ IF active = lease
     THEN /\ active' = None /\ stage' = "closing" /\ UNCHANGED <<lease, result>>
     ELSE /\ Ends("threw") /\ UNCHANGED active

(* Operations are alike: which of those that were not called yet is next makes no difference. *)
Uncalled == {o \in Ops : result[o] = "none" /\ o # lease}
NextOp == CHOOSE o \in Uncalled : TRUE

RunBegins(o) ==
  /\ lease = None /\ Uncalled # {} /\ o = NextOp
  /\ IF Busy
     THEN /\ result' = [result EXCEPT ![o] = "threw"]
          /\ UNCHANGED <<leaseVars, active, rt, writes, writeFailed>>
     ELSE /\ lease' = o
          /\ dispatched' = FALSE /\ started' = FALSE /\ canceled' = FALSE /\ uncertain' = FALSE
          /\ terminal' = "none" /\ turnId' = "none" /\ writes' = 0 /\ writeFailed' = FALSE
          /\ stage' = IF compacting THEN "compaction" ELSE IF active = Desk THEN "disposing" ELSE "reading"
          /\ IF active = Desk /\ ~compacting
             THEN active' = None /\ rt' = Retired(Desk, TRUE)
             ELSE UNCHANGED <<active, rt>>
          /\ UNCHANGED result
  /\ UNCHANGED <<desk, compacting, calls, events, given, withdrawn, stained, killed>>

AfterCompaction ==
  /\ stage = "compaction" /\ ~compacting
  /\ IF Current
     THEN /\ stage' = IF active = Desk THEN "disposing" ELSE "reading"
          /\ rt' = IF active = Desk THEN Retired(Desk, TRUE) ELSE rt
          /\ active' = None
          /\ killed' = (killed \/ (active = Desk /\ rt[Desk].turn = "input"))
          /\ UNCHANGED <<lease, result>>
     ELSE Throws /\ UNCHANGED killed
  /\ UNCHANGED <<dispatched, started, canceled, uncertain, terminal, turnId, desk, compacting, saving, calls, events,
                 given, withdrawn, stained>>

(* The disposal has ended, or its 10 s are over and the session is available again. *)
AfterDisposal ==
  /\ stage = "disposing"
  /\ IF Closing = {} /\ Current
     THEN stage' = "reading" /\ UNCHANGED <<lease, result, active, rt>>
     ELSE Throws
  /\ UNCHANGED <<dispatched, started, canceled, uncertain, terminal, turnId, desk, compacting, saving, calls, events,
                 given, withdrawn, stained, killed>>

(* The transcript is read; ensureActive() makes the run's own runtime. *)
Makes ==
  /\ stage = "reading"
  /\ \/ /\ Current
        /\ stage' = "starting" /\ active' = lease
        /\ rt' = [rt EXCEPT ![lease].proc = "starting"]
        /\ UNCHANGED <<lease, result, events>>
     \/ ~Current /\ Throws /\ UNCHANGED events
     \/ Event /\ Throws
  /\ UNCHANGED <<dispatched, started, canceled, uncertain, terminal, turnId, desk, compacting, saving, calls,
                 given, withdrawn, stained, killed>>

StartSucceeds ==
  /\ stage = "starting" /\ rt[lease].proc = "starting"
  /\ rt' = [rt EXCEPT ![lease].proc = "up"]
  /\ UNCHANGED <<leaseVars, active, desk, compacting, saving, calls, events, history>>

(* The runtime is up and idle; the preamble is read. *)
Prepares ==
  /\ stage = "starting" /\ rt[lease].proc # "starting"
  /\ IF Current /\ rt[lease].proc = "up" /\ rt[lease].turn = "none" /\ ~rt[lease].work
     THEN stage' = "preamble" /\ UNCHANGED <<lease, result, active, rt>>
     ELSE Throws
  /\ UNCHANGED <<dispatched, started, canceled, uncertain, terminal, turnId, desk, compacting, saving, calls, events,
                 given, withdrawn, stained, killed>>

(* The input's row is emitted, and everything that was emitted is saved. *)
Announces ==
  /\ stage = "preamble"
  /\ IF Current
     THEN stage' = "saving" /\ writes' = writes + 1 /\ UNCHANGED <<lease, result, active, rt>>
     ELSE Throws /\ UNCHANGED writes
  /\ UNCHANGED <<dispatched, started, canceled, uncertain, terminal, turnId, desk, compacting, writeFailed, calls, events,
                 given, withdrawn, stained, killed>>

(* controlledBarrier(): the writes have settled, and the commit is one more. *)
Saved(next) ==
  /\ writes = 0
  /\ \/ ~writeFailed /\ next
     \/ writeFailed /\ Throws

Admitted ==
  /\ stage = "saving"
  /\ Saved(stage' = (IF Admits THEN "parked" ELSE "admitted") /\ UNCHANGED <<lease, result, active, rt>>)
  /\ UNCHANGED <<dispatched, started, canceled, uncertain, terminal, turnId, desk, compacting, saving, calls, events,
                 given, withdrawn, stained, killed>>

Unparked ==
  /\ stage = "parked" /\ stage' = "admitted"
  /\ UNCHANGED <<lease, dispatched, started, canceled, uncertain, terminal, turnId, session, saving, calls, events, history>>

(* The caller records its intent: control.beforeDispatch(). *)
Commits ==
  /\ stage = "admitted"
  /\ IF Current THEN stage' = "committing" /\ UNCHANGED <<lease, result, active, rt>> ELSE Throws
  /\ UNCHANGED <<dispatched, started, canceled, uncertain, terminal, turnId, desk, compacting, saving, calls, events,
                 given, withdrawn, stained, killed>>

(* Wrong variant: nothing is looked at again after the caller's commit. *)
DispatchesUnasked ==
  /\ stage = "committing"
  /\ rt[lease].proc = "up"
  /\ stage' = "waiting" /\ dispatched' = TRUE /\ started' = TRUE
  /\ given' = [given EXCEPT ![lease] = @ + 1]
  /\ rt' = [rt EXCEPT ![lease].turn = "input", ![lease].input = "running", ![lease].send = "open"]
  /\ UNCHANGED <<lease, canceled, uncertain, terminal, turnId, active, desk, compacting, saving, calls, events,
                 result, withdrawn, stained, killed>>

Dispatches ==
  /\ stage = "committing"
  /\ \/ /\ Current /\ rt[lease].turn = "none" /\ ~rt[lease].work
        /\ stage' = "waiting" /\ dispatched' = TRUE /\ started' = TRUE
        /\ given' = [given EXCEPT ![lease] = @ + 1]
        /\ rt' = [rt EXCEPT ![lease].turn = "input", ![lease].input = "running", ![lease].send = "open"]
        /\ UNCHANGED <<lease, active, result, events>>
     \/ /\ ~(Current /\ rt[lease].turn = "none" /\ ~rt[lease].work)
        /\ Throws /\ UNCHANGED <<dispatched, started, given, events>>
     \/ Event /\ Throws /\ UNCHANGED <<dispatched, started, given>>
  /\ UNCHANGED <<canceled, uncertain, terminal, turnId, desk, compacting, saving, calls,
                 withdrawn, stained, killed>>

(* The runtime is judged, fenced and disposed of. *)
Judges ==
  /\ uncertain' = (uncertain \/ rt[lease].work)
  /\ stage' = "retiring"
  /\ IF active = lease
     THEN active' = None /\ rt' = Retired(lease, TRUE)
     ELSE UNCHANGED active /\ rt' = [rt EXCEPT ![lease].fenced = TRUE]

(* Wrong variant: an interrupted send is waited for too. *)
AwaitsEverySend ==
  /\ stage = "waiting" /\ terminal # "none"
  /\ IF turnId # "none"
     THEN stage' = "accepting" /\ UNCHANGED <<uncertain, active, rt>>
     ELSE Judges
  /\ UNCHANGED <<lease, dispatched, started, canceled, terminal, turnId, desk, compacting, saving, calls, events, history>>

(* lease.ended is resolved: the send is waited for, unless the run was interrupted or stopped. *)
Concludes ==
  /\ stage = "waiting" /\ terminal # "none"
  /\ IF turnId # "none" /\ ~canceled
     THEN stage' = "accepting" /\ UNCHANGED <<uncertain, active, rt>>
     ELSE Judges
  /\ UNCHANGED <<lease, dispatched, started, canceled, terminal, turnId, desk, compacting, saving, calls, events, history>>

Accepted ==
  /\ stage = "accepting" /\ rt[lease].send = "settled"
  /\ Judges
  /\ UNCHANGED <<lease, dispatched, started, canceled, terminal, turnId, desk, compacting, saving, calls, events, history>>

(* Disposed, or 10 s are over; the partial answer and the metadata are saved. *)
Flushes ==
  /\ stage = "retiring"
  /\ uncertain' = (uncertain \/ Closing # {})
  /\ stage' = "flushing" /\ writes' = writes + 1
  /\ UNCHANGED <<lease, dispatched, started, canceled, terminal, turnId, session, writeFailed, calls, events, history>>

(* Wrong variant: what could not be saved is reported all the same. *)
ReturnsUnsaved ==
  /\ stage = "flushing" /\ writes = 0
  /\ Ends(IF uncertain THEN "unknown" ELSE terminal)
  /\ UNCHANGED <<dispatched, started, canceled, uncertain, terminal, turnId, session, saving, calls, events,
                 given, withdrawn, stained, killed>>

Returns ==
  /\ stage = "flushing"
  /\ Saved(Ends(IF uncertain THEN "unknown" ELSE terminal) /\ UNCHANGED <<active, rt>>)
  /\ UNCHANGED <<dispatched, started, canceled, uncertain, terminal, turnId, desk, compacting, saving, calls, events,
                 given, withdrawn, stained, killed>>

(* The disposal of `finally` has ended, or its 10 s are over. *)
Frees ==
  /\ stage = "closing"
  /\ Ends("threw")
  /\ UNCHANGED <<dispatched, started, canceled, uncertain, terminal, turnId, session, saving, calls, events,
                 given, withdrawn, stained, killed>>

-----------------------------------------------------------------------------
(* Stop and the controller's interrupt. *)

(* Once per call: whatever was not given yet is never to be. *)
Withdraws(o) == withdrawn' = IF o \in Ops /\ ~dispatched THEN withdrawn \cup {o} ELSE withdrawn

(* interruptControlled() *)
InterruptRun ==
  /\ lease # None /\ terminal = "none" /\ interrupting = None
  /\ rt[lease].proc # "unborn" => active = lease
  /\ canceled' = TRUE
  /\ interrupting' = IF dispatched THEN lease ELSE None
  /\ Withdraws(lease)
  /\ UNCHANGED <<lease, stage, dispatched, started, uncertain, terminal, turnId, session, saving, stopping, events,
                 result, given, stained, killed>>

InterruptReturns ==
  /\ interrupting # None /\ interrupting' = None
  /\ IF lease = interrupting
     THEN uncertain' = (uncertain \/ terminal = "none") /\ EndsAs("unknown")
     ELSE UNCHANGED <<uncertain, terminal>>
  /\ UNCHANGED <<lease, stage, dispatched, started, canceled, turnId, session, saving, stopping, events, history>>

StopBegins ==
  /\ stopping = None /\ Event
  /\ stopping' = IF lease # None THEN lease ELSE Desk
  /\ canceled' = (canceled \/ lease # None)
  /\ Withdraws(lease)
  /\ UNCHANGED <<lease, stage, dispatched, started, uncertain, terminal, turnId, session, saving, interrupting,
                 result, given, stained, killed>>

(* stopOrdinary(): whatever holds the session now. *)
StopActs ==
  /\ stopping # None /\ stopping' = None
  /\ canceled' = (canceled \/ lease # None) /\ uncertain' = (uncertain \/ lease # None)
  /\ IF lease # None THEN EndsAs("unknown") ELSE UNCHANGED terminal
  /\ Withdraws(lease)
  /\ IF active # None
     THEN active' = None /\ rt' = Retired(active, FALSE) /\ compacting' = FALSE
     ELSE UNCHANGED <<active, rt, compacting>>
  /\ UNCHANGED <<lease, stage, dispatched, started, turnId, desk, saving, interrupting, events,
                 result, given, stained, killed>>

-----------------------------------------------------------------------------
(* The desktop's own use of the session. *)

(* Wrong variant: a message looks at the lease only when it is delivered. *)
DeskSendsBeside ==
  /\ ~desk
  /\ desk' = TRUE /\ Event
  /\ UNCHANGED <<leaseVars, active, rt, compacting, saving, calls, history>>

(* withoutControlled() *)
DeskSends ==
  /\ lease = None /\ ~desk
  /\ desk' = TRUE /\ Event
  /\ UNCHANGED <<leaseVars, active, rt, compacting, saving, calls, history>>

(* ensureActive() and the dispatch: a runtime is made if there is none. *)
DeskDelivers ==
  /\ desk /\ desk' = FALSE
  /\ \/ /\ active = Desk /\ ~compacting
        /\ rt' = [rt EXCEPT ![Desk].turn = "input"] /\ UNCHANGED active
     \/ /\ active = None /\ rt[Desk].proc \in {"unborn", "gone"}
        /\ active' = Desk
        /\ rt' = [rt EXCEPT ![Desk] = [Unborn EXCEPT !.proc = "up", !.turn = "input"]]
     \/ /\ UNCHANGED <<active, rt>>
  /\ UNCHANGED <<leaseVars, compacting, saving, calls, events, history>>

DeskTurnEnds ==
  /\ rt[Desk].turn = "input"
  /\ rt' = [rt EXCEPT ![Desk].turn = "none"]
  /\ UNCHANGED <<leaseVars, active, desk, compacting, saving, calls, events, history>>

Compacts ==
  /\ lease = None /\ active = Desk /\ ~compacting /\ compacting' = TRUE
  /\ UNCHANGED <<leaseVars, active, rt, desk, saving, calls, events, history>>

CompactionEnds ==
  /\ compacting /\ compacting' = FALSE
  /\ UNCHANGED <<leaseVars, active, rt, desk, saving, calls, events, history>>

-----------------------------------------------------------------------------
(* The harness of a run, and observeControlled(). *)

Heard(o) == o \in Ops /\ lease = o /\ ~rt[o].fenced   \* its events still reach the lease

Emits(o) == IF Heard(o) THEN writes' = writes + 1 ELSE UNCHANGED writes

(* Wrong variant: only what follows the end of the turn makes the run uncertain. *)
ExtraBeginsUnnoticed(o) ==
  /\ Event
  /\ rt[o].proc \in {"up", "closing"} /\ rt[o].turn = "none" /\ ~rt[o].late
  /\ rt' = [rt EXCEPT ![o].turn = "extra"]
  /\ uncertain' = (uncertain \/ (Heard(o) /\ terminal # "none"))
  /\ started' = (started \/ (Heard(o) /\ dispatched))
  /\ stained' = IF Heard(o) THEN stained \cup {o} ELSE stained
  /\ UNCHANGED <<lease, stage, dispatched, canceled, terminal, turnId, active, desk, compacting, saving, calls,
                 result, given, withdrawn, killed>>

(* A turn of its own accord: a follow-up, a scheduled run. *)
ExtraBegins(o) ==
  /\ Event
  /\ rt[o].proc \in {"up", "closing"} /\ rt[o].turn = "none" /\ ~rt[o].late
  /\ rt' = [rt EXCEPT ![o].turn = "extra"]
  /\ uncertain' = (uncertain \/ (Heard(o) /\ (~dispatched \/ terminal # "none")))
  /\ started' = (started \/ (Heard(o) /\ dispatched))
  /\ stained' = IF Heard(o) THEN stained \cup {o} ELSE stained
  /\ UNCHANGED <<lease, stage, dispatched, canceled, terminal, turnId, active, desk, compacting, saving, calls,
                 result, given, withdrawn, killed>>

(* It ends at once and is reported later, as Pi does. *)
ExtraEnds(o) ==
  /\ rt[o].turn = "extra"
  /\ rt' = [rt EXCEPT ![o].turn = "none", ![o].late = TRUE]
  /\ UNCHANGED <<leaseVars, active, desk, compacting, saving, calls, events, history>>

(* A turn item: before the dispatch it stains the run, after it the first one is the run's. *)
SeesTurn(o, which, outcome) ==
  IF ~Heard(o) THEN UNCHANGED <<uncertain, turnId, terminal>>
  ELSE IF ~dispatched THEN uncertain' = TRUE /\ UNCHANGED <<turnId, terminal>>
  ELSE /\ uncertain' = (uncertain \/ ~started \/ turnId \notin {"none", which})
       /\ turnId' = IF turnId = "none" THEN which ELSE turnId
       /\ EndsAs(IF outcome = "completed" THEN "succeeded" ELSE outcome)

ExtraReported(o) ==
  /\ rt[o].late
  /\ rt' = [rt EXCEPT ![o].late = FALSE]
  /\ SeesTurn(o, "extra", "completed")
  /\ Emits(o)
  /\ UNCHANGED <<lease, stage, dispatched, started, canceled, active, desk, compacting, writeFailed, calls, events, history>>

(* An item of the running turn; a tool or a subagent is work that may outlast it. *)
Works(o) ==
  /\ rt[o].turn = "input" /\ ~rt[o].work /\ writes = 0
  /\ \E work \in BOOLEAN : rt' = [rt EXCEPT ![o].work = work]
  /\ Emits(o)
  /\ UNCHANGED <<leaseVars, active, desk, compacting, writeFailed, calls, events, history>>

WorkEnds(o) ==
  /\ rt[o].work
  /\ rt' = [rt EXCEPT ![o].work = FALSE]
  /\ UNCHANGED <<leaseVars, active, desk, compacting, saving, calls, events, history>>

InputEnds(o, outcome) ==
  /\ rt[o].turn = "input" /\ rt[o].proc \in {"up", "closing"}
  /\ rt' = [rt EXCEPT ![o].turn = "none", ![o].input = outcome]
  /\ SeesTurn(o, "input", outcome)
  /\ Emits(o)
  /\ UNCHANGED <<lease, stage, dispatched, started, canceled, active, desk, compacting, writeFailed, calls, events, history>>

(* adapter.send() resolves, or rejects: then nobody knows what the harness took. *)
SendSettles(o) ==
  /\ rt[o].send = "open"
  /\ rt' = [rt EXCEPT ![o].send = "settled"]
  /\ \/ UNCHANGED <<uncertain, terminal, events>>
     \/ /\ IF rt[o].proc = "up" THEN Event ELSE UNCHANGED events
        /\ IF lease = o THEN uncertain' = TRUE /\ EndsAs("unknown") ELSE UNCHANGED <<uncertain, terminal>>
  /\ UNCHANGED <<lease, stage, dispatched, started, canceled, turnId, active, desk, compacting, saving, calls,
                 history>>

(* The process exits, or its start fails. *)
Exits(o) ==
  /\ Event
  /\ rt[o].proc \in {"starting", "up"}
  /\ IF active = o THEN active' = None /\ rt' = Retired(o, FALSE) ELSE UNCHANGED <<active, rt>>
  /\ IF Heard(o) /\ dispatched
     THEN uncertain' = TRUE /\ EndsAs("unknown")
     ELSE UNCHANGED <<uncertain, terminal>>
  /\ UNCHANGED <<lease, stage, dispatched, started, canceled, turnId, desk, compacting, saving, calls,
                 history>>

Disposed(r) ==
  /\ rt[r].proc = "closing"
  /\ rt' = [rt EXCEPT ![r].proc = "gone", ![r].turn = "none", ![r].work = FALSE, ![r].late = FALSE]
  /\ UNCHANGED <<leaseVars, active, desk, compacting, saving, calls, events, history>>

WriteSettles ==
  /\ writes > 0 /\ writes' = writes - 1
  /\ \/ UNCHANGED <<writeFailed, events>>
     \/ Event /\ writeFailed' = TRUE
  /\ UNCHANGED <<leaseVars, session, calls, history>>

-----------------------------------------------------------------------------
RunStep ==
  \/ AfterCompaction \/ AfterDisposal \/ Makes \/ StartSucceeds \/ Prepares \/ Announces \/ Admitted
  \/ Unparked \/ Commits \/ Dispatches \/ Concludes \/ Accepted \/ Flushes \/ Returns \/ Frees

HarnessStep(o) ==
  \/ ExtraBegins(o) \/ ExtraEnds(o) \/ ExtraReported(o) \/ Works(o) \/ WorkEnds(o)
  \/ \E outcome \in Ended : InputEnds(o, outcome)
  \/ SendSettles(o) \/ Exits(o)

Next ==
  \/ \E o \in Ops : RunBegins(o) \/ HarnessStep(o)
  \/ RunStep
  \/ InterruptRun \/ InterruptReturns \/ StopBegins \/ StopActs
  \/ DeskSends \/ DeskDelivers \/ DeskTurnEnds \/ Compacts \/ CompactionEnds
  \/ \E r \in Runtimes : Disposed(r)
  \/ WriteSettles

Spec == Init /\ [][Next]_vars

(* A harness answers the send of a turn that ended by itself; disposing of it, or its exit, rejects the send. *)
Answers(o) == (rt[o].proc # "up" \/ (rt[o].input \in Ended /\ ~canceled)) /\ SendSettles(o)

(* Promises settle: starts, reads, writes, the admission, the caller's commit, an interrupt, a compaction; *)
(* a disposal is waited for 10 s at most.  A turn need not end, nor a disposal.                            *)
Fairness ==
  /\ WF_vars(RunStep) /\ WF_vars(WriteSettles) /\ WF_vars(StopActs) /\ WF_vars(InterruptReturns)
  /\ WF_vars(CompactionEnds)
  /\ \A o \in Ops : WF_vars(Answers(o))

FairSpec == Spec /\ Fairness

-----------------------------------------------------------------------------
(* Properties. *)

(* The shape of the state. *)
TypeOK ==
  /\ lease \in Ops \cup {None} /\ (lease = None <=> stage = "none")
  /\ active \in Runtimes \cup {None}
  /\ lease # None => active \in {None, Desk, lease}
  /\ terminal \in {"none", "succeeded", "failed", "interrupted", "unknown"}

(* A reported outcome is what became of this input: given once, its turn ended so, in a runtime that did *)
(* nothing of its own accord in that time; and success is certified only when nothing is left running.   *)
OutcomesAreTrue ==
  \A o \in Ops :
    /\ result[o] \in {"succeeded", "failed", "interrupted"} =>
         /\ given[o] = 1 /\ o \notin stained
         /\ rt[o].input = IF result[o] = "succeeded" THEN "completed" ELSE result[o]
    /\ result[o] = "succeeded" => rt[o].proc = "gone"

(* An input that was interrupted or stopped before it was given is never given. *)
WithdrawnIsNotGiven == \A o \in withdrawn : given[o] = 0

(* A run keeps to itself: it never ends a turn of the desktop, which it would if it took the session while *)
(* a message is on its way; and once it is over no runtime of it is left that could speak for the session.  *)
RunsKeepApart ==
  /\ ~killed
  /\ \A o \in Ops : result[o] # "none" => active # o /\ (rt[o].proc # "unborn" => rt[o].fenced)

(* What a run has reported is saved. *)
ReportedIsSaved == [][\A o \in Ops : result'[o] \notin {result[o], "threw"} => writes = 0 /\ ~writeFailed]_vars

(* A run is over soon after its turn has ended, its harness has gone, or a Stop. *)
RunsEnd == lease # None /\ (terminal # "none" \/ canceled) ~> lease = None
=============================================================================
