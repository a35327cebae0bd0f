----------------------------- MODULE MissionHost -----------------------------
(***************************************************************************)
(* How one Mission's turns are let out and called in again                 *)
(* (src/main/mission/service.ts): dispatch jobs of the lead and its        *)
(* workers, the pump that settles ended turns, Pause, Stop and Resume of   *)
(* the user, the reconciliation behind them, failures that pause a         *)
(* Mission on their own, and a restart of the app.                         *)
(*                                                                         *)
(* A dispatch is one recorded operation of kind "dispatch"; the attempt a  *)
(* worker's dispatch creates lives and ends with it here. An action is the *)
(* code between two awaits. The record is written when a transaction       *)
(* applies its change; whoever awaits it goes on in a later step. What a   *)
(* preset, a budget, a blocker or a capability probe may refuse is a       *)
(* failure that can come at every point where the code asks.               *)
(***************************************************************************)
EXTENDS Naturals, FiniteSets

CONSTANTS Dispatches, Sessions, SessionOf, Lead, Calls, None,
          MaxStuck,    \* bound: teardowns that fail
          MaxCrashes,  \* bound: restarts of the app
          NoProgress   \* whether the bound on checkpoints without progress may be reached

ASSUME MissionHostAssumption ==
  /\ Lead \in Sessions /\ SessionOf \in [Dispatches -> Sessions]
  /\ None \notin Dispatches
  /\ MaxStuck \in Nat /\ MaxCrashes \in Nat /\ NoProgress \in BOOLEAN

VARIABLES
  record,    \* the durable record: status, state of each dispatch operation, whose lead generation is current
  fenced,    \* this.fenced has the Mission
  slot,      \* the scheduler's entry of the Mission: "none", "held" (paused) or "open"
  unknown,   \* this.externalUncertainty has the Mission
  job,       \* where the job of each dispatch stands
  lease,     \* who holds the capacity lease of a dispatch: nobody, its job, or this.turns
  live,      \* this.turns: the dispatch that owns each session's turn
  ended,     \* live.terminal: how the turn of a dispatch ended
  broken,    \* the dispatches with live.dispatchFailed set
  runtime,   \* each session's runtime: "off", "starting", "up", "turn", or "stuck" (its teardown failed)
  tearing,   \* the sessions whose runtime is being disposed
  canceled,  \* the dispatches whose managedDispatches entry is canceled
  pump,      \* the pump run: where it stands in settleTurn, and of which dispatch
  rec,       \* the reconciliation in progress
  starts,    \* this.reconcileStarts
  joins,     \* the calls of reconcile() that wait for it to end
  due,       \* a failure's background job has yet to write its pause
  calls,     \* control calls of the user
  ghosts,    \* sessions whose turns outlived the app that started them
  unproven,  \* history: the Mission was stopped without proof
  stuck, crashes

mission == <<record, fenced, slot, unknown>>
turn == <<lease, live, ended, broken>>  \* an entry of this.turns
work == <<job, turn>>
sessions == <<runtime, tearing, canceled>>
host == <<pump, rec, starts, joins, due>>
world == <<ghosts, unproven, stuck, crashes>>
vars == <<mission, work, sessions, host, calls, world>>

Closing == {"pausing", "stopping", "recovering"}
Closed == Closing \cup {"paused"}
Open == {"intent", "in_flight", "reconciling"}  \* pending()
IdleRec == [at |-> "none", restart |-> FALSE, todo |-> {}, failed |-> FALSE]
Rec(restart, drain) == [IdleRec EXCEPT !.at = IF drain THEN "drain" ELSE "begin", !.restart = restart]
NoCall == [at |-> "new", action |-> "pause", fresh |-> FALSE, restart |-> FALSE, reserved |-> FALSE]
IdlePump == [at |-> "idle", of |-> None]

Init ==
  /\ record = [status |-> "running", op |-> [d \in Dispatches |-> "none"], own |-> {}]
  /\ fenced = FALSE /\ slot = "open" /\ unknown = FALSE
  /\ job = [d \in Dispatches |-> "none"] /\ lease = [d \in Dispatches |-> "none"]
  /\ live = [s \in Sessions |-> None] /\ ended = [d \in Dispatches |-> "no"] /\ broken = {}
  /\ runtime = [s \in Sessions |-> "off"] /\ tearing = {} /\ canceled = {}
  /\ pump = IdlePump /\ rec = IdleRec /\ starts = "none" /\ joins = {} /\ due = FALSE
  /\ calls = [c \in Calls |-> NoCall]
  /\ ghosts = {} /\ unproven = FALSE /\ stuck = 0 /\ crashes = 0

-----------------------------------------------------------------------------
(* The record, the fence and the sessions *)

Pending(d) == record.op[d] \in Open

(* currentMissionFailureOwner(): the lead's dispatches belong to its generation. *)
Current(d) == Pending(d) /\ (SessionOf[d] = Lead => d \in record.own)

(* A committed call goes on before the next write comes back from the disk (MissionStore.queue). *)
Committed == {"pausing", "stopping", "paused", "running"}
Answered == \A c \in Calls : calls[c].at \notin Committed

(* Every write moves the revision that a control call expects. *)
Writes(r) ==
  /\ Answered /\ record' = r
  /\ calls' = [c \in Calls |-> [calls[c] EXCEPT !.fresh = FALSE]]

Sending(s) == {d \in Dispatches : SessionOf[d] = s /\ job[d] \in {"sending", "crossing"}}

(* activity().quiescent *)
Quiescent(s) == runtime[s] \in {"off", "up"} /\ s \notin tearing /\ Sending(s) = {}

(* fenced.add, scheduler.pause (which turns queued requests away) and cancelWorkspaceWaiters. *)
Turned(jobs) == [d \in Dispatches |-> IF jobs[d] = "queued" THEN "failing" ELSE jobs[d]]
Holds == slot' = IF slot = "none" THEN "none" ELSE "held"
Fences(jobs) == fenced' = TRUE /\ Holds /\ job' = Turned(jobs)

(* stopManaged() of some sessions: their sends are canceled, their runtimes disposed. *)
Stops(S) ==
  /\ canceled' = {d \in Dispatches : d \in Sending(SessionOf[d]) /\ (d \in canceled \/ SessionOf[d] \in S)}
  /\ tearing' = tearing \cup {s \in S : runtime[s] # "off"}

DisposeEnds(s) ==
  /\ s \in tearing /\ tearing' = tearing \ {s}
  /\ \/ runtime' = [runtime EXCEPT ![s] = "off"] /\ UNCHANGED stuck
     \/ stuck < MaxStuck /\ stuck' = stuck + 1 /\ runtime' = [runtime EXCEPT ![s] = "stuck"]
  /\ UNCHANGED <<mission, work, canceled, host, calls, ghosts, unproven, crashes>>

(* reconcile(): starts one, or waits for the one in progress. *)
Reconciles(restart, drain) ==
  IF rec.at = "none"
  THEN rec' = Rec(restart, drain) /\ UNCHANGED joins
  ELSE joins' = joins \cup {[status |-> record'.status, restart |-> restart, drain |-> drain]} /\ UNCHANGED rec

(* It ended: of those that waited one starts another, if the status it saw came after the start. *)
RecEnds ==
  /\ joins' = {}
  /\ LET again == {j \in joins : j.status = record'.status /\ starts' # j.status /\ j.status \in Closing} IN
     IF again = {} THEN rec' = IdleRec ELSE \E j \in again : rec' = Rec(j.restart, j.drain)

-----------------------------------------------------------------------------
(* A dispatch: sendLead() and dispatchAttempt() *)

(* this.turns.delete, and the release of its lease *)
Forgets(d) ==
  /\ live' = [live EXCEPT ![SessionOf[d]] = None] /\ lease' = [lease EXCEPT ![d] = "none"]
  /\ ended' = [ended EXCEPT ![d] = "no"] /\ broken' = broken \ {d}

Goes(d, place) == job' = [job EXCEPT ![d] = place]
GivesUp(d) == Goes(d, "failing") /\ lease' = [lease EXCEPT ![d] = "none"]
Admitting == record.status = "running" /\ ~fenced

(* The operation is on record; the scheduler queues its request, or refuses a paused Mission's. *)
Intend(d) ==
  /\ record.status = "running" /\ (SessionOf[d] = Lead => ~fenced)
  /\ record.op[d] = "none" /\ live[SessionOf[d]] = None /\ Quiescent(SessionOf[d])
  /\ \A e \in Dispatches : SessionOf[e] = SessionOf[d] => ~Pending(e)
  /\ Writes([record EXCEPT !.op[d] = "intent", !.own = @ \cup {d}])
  /\ \E place \in (IF slot = "open" THEN {"queued", "failing"} ELSE {"failing"}) : Goes(d, place)
  /\ UNCHANGED <<fenced, slot, unknown, turn, sessions, host, world>>

(* The scheduler lets it in (a Mission has one lead turn), and assertAdmission() looks again; *)
(* a worker's operation is in flight from here.                                               *)
Admit(d) ==
  /\ job[d] = "queued" /\ slot = "open"
  /\ SessionOf[d] = Lead => \A e \in Dispatches : SessionOf[e] = Lead => lease[e] = "none"
  /\ \/ Admitting /\ Goes(d, "preparing") /\ lease' = [lease EXCEPT ![d] = "job"]
        /\ IF SessionOf[d] = Lead THEN UNCHANGED <<record, calls>>
           ELSE record.op[d] = "intent" /\ Writes([record EXCEPT !.op[d] = "in_flight"])
     \/ ~Admitting /\ Goes(d, "failing") /\ UNCHANGED <<record, calls, lease>>
  /\ UNCHANGED <<fenced, slot, unknown, live, ended, broken, sessions, host, world>>

(* Its session and workspace are ready; the turn is entered under its lease. markRuntimeStart() *)
(* wants a fresh runtime, ...                                                                  *)
Prepared(d) ==
  /\ job[d] = "preparing" /\ record.op[d] # "reconciling"
  /\ IF record.op[d] = "intent" THEN Writes([record EXCEPT !.op[d] = "in_flight"]) ELSE UNCHANGED <<record, calls>>
  /\ live' = [live EXCEPT ![SessionOf[d]] = d] /\ lease' = [lease EXCEPT ![d] = "turn"]
  /\ Goes(d, "clearing") /\ Stops({SessionOf[d]})
  /\ UNCHANGED <<fenced, slot, unknown, ended, broken, runtime, host, world>>

(* ... and its start on record, if the Mission still admits it. *)
Marks(d) ==
  /\ job[d] = "clearing" /\ SessionOf[d] \notin tearing
  /\ IF runtime[SessionOf[d]] # "stuck" /\ Admitting /\ record.op[d] = "in_flight"
     THEN Writes(record) /\ Goes(d, "starting")
     ELSE UNCHANGED <<record, calls>> /\ Goes(d, "failing")
  /\ UNCHANGED <<fenced, slot, unknown, turn, sessions, host, world>>

(* sendManaged(), up to the harness it starts *)
Sends(d) ==
  LET s == SessionOf[d] IN
  /\ job[d] = "starting"
  /\ IF Quiescent(s)
     THEN Goes(d, "sending") /\ canceled' = canceled \ {d}
          /\ runtime' = [runtime EXCEPT ![s] = IF @ = "off" THEN "starting" ELSE @]
     ELSE Goes(d, "failing") /\ UNCHANGED <<canceled, runtime>>
  /\ UNCHANGED <<mission, turn, tearing, host, calls, world>>

Starts(s) ==
  /\ runtime[s] = "starting" /\ s \notin tearing
  /\ \/ runtime' = [runtime EXCEPT ![s] = "up"] /\ UNCHANGED job
     \/ runtime' = [runtime EXCEPT ![s] = "off"]
        /\ job' = [d \in Dispatches |-> IF d \in Sending(s) THEN "failing" ELSE job[d]]
  /\ UNCHANGED <<mission, turn, tearing, canceled, host, calls, world>>

(* assertCurrent() *)
MaySend(d) == d \notin canceled /\ SessionOf[d] \notin tearing /\ runtime[SessionOf[d]] = "up"

(* beforeDispatch(): the last look, and the input marked as given before it is given. *)
MayCross(d) == /\ Admitting /\ live[SessionOf[d]] = d /\ record.op[d] = "in_flight"
               /\ SessionOf[d] = Lead => d \in record.own
Crosses(d) ==
  /\ job[d] = "sending" /\ MaySend(d)
  /\ IF MayCross(d) THEN Writes(record) /\ Goes(d, "crossing")
                    ELSE UNCHANGED <<record, calls>> /\ Goes(d, "failing")
  /\ UNCHANGED <<fenced, slot, unknown, turn, sessions, host, world>>

(* adapter.send(): a rejected one does not mean that nothing ran. *)
Delivers(d) ==
  /\ job[d] = "crossing" /\ MaySend(d)
  /\ \/ runtime' = [runtime EXCEPT ![SessionOf[d]] = "turn"] /\ Goes(d, "done") /\ UNCHANGED stuck
     \/ stuck < MaxStuck /\ stuck' = stuck + 1
        /\ runtime' = [runtime EXCEPT ![SessionOf[d]] = "stuck"] /\ Goes(d, "failing")
  /\ UNCHANGED <<mission, turn, tearing, canceled, host, calls, ghosts, unproven, crashes>>

(* The session was stopped under the send. *)
SendStopped(d) ==
  /\ job[d] \in {"sending", "crossing"}
  /\ d \in canceled \/ SessionOf[d] \in tearing \/ runtime[SessionOf[d]] \notin {"starting", "up"}
  /\ Goes(d, "failing")
  /\ UNCHANGED <<mission, turn, sessions, host, calls, world>>

(* Whatever a job awaits or asks may fail: the lease it holds is given back. *)
JobThrows(d) ==
  /\ job[d] \in {"preparing", "starting", "sending"}
  /\ IF lease[d] = "job" THEN GivesUp(d) ELSE Goes(d, "failing") /\ UNCHANGED lease
  /\ UNCHANGED <<mission, live, ended, broken, sessions, host, calls, world>>

-----------------------------------------------------------------------------
(* Turns end, or die; dispatchFailure() *)

Owner(s) == live[s] # None /\ Current(live[s])

(* Its card may come while tools or children of it still run. *)
TurnEnds(s) ==
  /\ runtime[s] = "turn"
  /\ IF Owner(s) /\ ended[live[s]] = "no"
     THEN \E how \in {"completed", "failed"}, after \in {"up", "turn"} :
            ended' = [ended EXCEPT ![live[s]] = how] /\ runtime' = [runtime EXCEPT ![s] = after]
     ELSE UNCHANGED ended /\ runtime' = [runtime EXCEPT ![s] = "up"]
  /\ UNCHANGED <<mission, job, lease, live, broken, tearing, canceled, host, calls, world>>

(* A fatal error of the harness ends its turn without a result. *)
Dies(s) ==
  /\ runtime[s] = "turn" /\ Owner(s) /\ job[live[s]] = "done"
  /\ runtime' = [runtime EXCEPT ![s] = "up"]
  /\ broken' = broken \cup {live[s]} /\ Goes(live[s], "failing")
  /\ UNCHANGED <<mission, lease, live, ended, tearing, canceled, host, calls, world>>

(* Only the owner of the session's turn stops and classifies it. *)
Fails(d) ==
  LET s == SessionOf[d] IN
  /\ job[d] = "failing"
  /\ IF Current(d) /\ live[s] \in {None, d}
     THEN /\ broken' = IF live[s] = d THEN broken \cup {d} ELSE broken
          /\ Stops({s}) /\ Goes(d, "stopping")
     ELSE UNCHANGED <<broken, canceled, tearing>> /\ Goes(d, "done")
  /\ UNCHANGED <<mission, lease, live, ended, runtime, host, calls, world>>

(* pauseForObservedFailure() *)
PausesItself(jobs) ==
  IF fenced \/ record.status = "stopped"
  THEN UNCHANGED <<fenced, slot, due>> /\ job' = jobs
  ELSE Fences(jobs) /\ due' = TRUE

(* The session is down: the operation has failed, its lease is given back, and the Mission *)
(* goes on (a worker), pauses (credentials or permissions) or is blocked (the lead).        *)
Failed(d) ==
  LET s == SessionOf[d]
      out == [job EXCEPT ![d] = "done"] IN
  /\ job[d] = "stopping" /\ s \notin tearing
  /\ IF runtime[s] = "stuck" \/ ~Current(d)
     THEN job' = out /\ UNCHANGED <<record, calls, fenced, slot, turn, due>>
     ELSE /\ Writes([record EXCEPT !.op[d] = "failed"])
          /\ IF live[s] = d /\ Quiescent(s)
             THEN Forgets(d) ELSE UNCHANGED turn
          /\ \/ (fenced \/ s # Lead) /\ job' = out /\ UNCHANGED <<fenced, slot, due>>
             \/ PausesItself(out)
             \/ ~fenced /\ s = Lead /\ Goes(d, "blocking") /\ UNCHANGED <<fenced, slot, due>>
  /\ UNCHANGED <<unknown, sessions, pump, rec, starts, joins, world>>

Blocked == [record EXCEPT !.status = IF @ \in Closed THEN @ ELSE "blocked"]

Blocks(d) ==
  /\ job[d] = "blocking"
  /\ Writes(Blocked) /\ Fences([job EXCEPT ![d] = "done"])
  /\ UNCHANGED <<unknown, turn, sessions, host, world>>

(* The background job of pauseForObservedFailure() *)
FailurePauses ==
  /\ due /\ due' = FALSE
  /\ Writes([record EXCEPT !.status = IF @ \in {"stopped", "stopping", "recovering"} THEN @ ELSE "pausing"])
  /\ Reconciles(FALSE, TRUE)
  /\ UNCHANGED <<fenced, slot, unknown, work, sessions, pump, starts, world>>

-----------------------------------------------------------------------------
(* The pump: settleTurn() of an ended turn, once its session is quiet *)

(* Wrong variant: a turn is over when its card comes. *)
OverByCard(d) == ended[d] # "no"
Over(d) == ended[d] # "no" /\ Quiescent(SessionOf[d])

Settles(d) ==
  /\ pump.at = "idle" /\ ~fenced /\ record.status # "stopped"
  /\ live[SessionOf[d]] = d /\ Over(d) /\ d \notin broken /\ Current(d)
  /\ Writes([record EXCEPT !.op[d] = IF ended[d] = "completed" THEN "succeeded" ELSE "failed"])
  /\ pump' = [at |-> "settled", of |-> d]
  /\ UNCHANGED <<fenced, slot, unknown, work, sessions, rec, starts, joins, due, world>>

Releases ==
  LET d == pump.of
      s == SessionOf[d] IN
  /\ pump.at = "settled"
  /\ IF live[s] # d
     THEN pump' = IdlePump /\ UNCHANGED <<turn, fenced, slot, job, due>>
     ELSE /\ Forgets(d)
          /\ \/ ended[d] = "failed" /\ PausesItself(job) /\ pump' = IdlePump
             \/ ended[d] = "failed" /\ s = Lead /\ Fences(job) /\ pump' = [pump EXCEPT !.at = "blocking"] /\ UNCHANGED due
             \/ (ended[d] = "completed" \/ s # Lead)
                /\ pump' = [pump EXCEPT !.at = "noting"] /\ UNCHANGED <<fenced, slot, job, due>>
  /\ UNCHANGED <<record, unknown, sessions, rec, starts, joins, calls, world>>

(* The principal engineer failed. *)
PumpBlocks ==
  /\ pump.at = "blocking" /\ pump' = IdlePump
  /\ Writes(Blocked)
  /\ UNCHANGED <<fenced, slot, unknown, work, sessions, rec, starts, joins, due, world>>

(* Its notes are written; checkpoints without progress close the admission. *)
Notes ==
  /\ pump.at = "noting"
  /\ \/ pump' = IdlePump /\ UNCHANGED <<fenced, slot, job>>
     \/ NoProgress /\ record.status = "running"
        /\ Fences(job) /\ pump' = [pump EXCEPT !.at = "stalled"]
  /\ UNCHANGED <<record, unknown, turn, sessions, rec, starts, joins, due, calls, world>>

(* host.recover: a new lead generation, and nothing pending is taken for what it was. *)
Recovered(r) ==
  [status |-> IF r.status = "stopping" THEN "stopping"
              ELSE IF \A d \in Dispatches : r.op[d] \notin Open THEN "paused" ELSE "recovering",
   op |-> [d \in Dispatches |-> IF r.op[d] \in Open THEN "reconciling" ELSE r.op[d]],
   own |-> {}]

Stalls ==
  /\ pump.at = "stalled" /\ pump' = [pump EXCEPT !.at = "waiting"]
  /\ record.status # "stopped"
  /\ Writes(Recovered(record)) /\ Reconciles(FALSE, FALSE)
  /\ UNCHANGED <<fenced, slot, unknown, work, sessions, starts, due, world>>

PumpGoesOn ==
  /\ pump.at = "waiting" /\ rec.at = "none" /\ pump' = IdlePump
  /\ UNCHANGED <<mission, work, sessions, rec, starts, joins, due, calls, world>>

(* A look at the Mission while admission is closed: requestReconcile() *)
Looks ==
  /\ pump.at = "idle" /\ fenced /\ record.status \in Closing /\ rec.at = "none"
  /\ rec' = Rec(record.status = "recovering", TRUE)
  /\ UNCHANGED <<mission, work, sessions, pump, starts, joins, due, calls, world>>

-----------------------------------------------------------------------------
(* performReconciliation() *)

RecDrains ==
  /\ rec.at = "drain" /\ pump.at = "idle" /\ rec' = [rec EXCEPT !.at = "begin"]
  /\ UNCHANGED <<mission, work, sessions, pump, starts, joins, due, calls, world>>

RecStops == rec' = [rec EXCEPT !.at = "stopping", !.todo = Sessions] /\ UNCHANGED joins /\ Stops(Sessions)

NothingToClose == record.status \notin Closing

RecBegins ==
  /\ rec.at = "begin"
  /\ IF NothingToClose THEN UNCHANGED <<starts, canceled, tearing>> /\ record' = record /\ RecEnds
     ELSE /\ starts' = record.status /\ UNCHANGED record
          /\ IF unknown THEN rec' = [rec EXCEPT !.at = "asking"] /\ UNCHANGED <<joins, canceled, tearing>>
                        ELSE RecStops
  /\ UNCHANGED <<fenced, slot, unknown, work, runtime, pump, due, calls, world>>

(* A restart left processes of which nobody knows: only a receipt of their end is proof. *)
RecProves ==
  /\ rec.at = "asking" /\ ghosts = {}
  /\ unknown' = FALSE /\ Writes(record) /\ RecStops
  /\ UNCHANGED <<fenced, slot, work, runtime, pump, starts, due, world>>

Quit(ops) == [d \in Dispatches |-> IF ops[d] \in Open THEN "failed" ELSE ops[d]]
Leaseless == \A d \in Dispatches : lease[d] = "none"
Unregisters == slot' = IF Leaseless THEN "none" ELSE "held"  \* it throws while capacity is owned

(* Wrong variant: a Stop waits for proof as a Pause does. *)
WithoutProofNever == FALSE
WithoutProof == record.status = "stopping"

(* stopUnproven(): a Stop ends without proof; Pause and recovery stay where they are. *)
RecUnproven ==
  /\ rec.at = "asking"
  /\ IF WithoutProof
     THEN Writes([record EXCEPT !.status = "stopped", !.op = Quit(@)]) /\ unproven' = TRUE
          /\ Unregisters /\ job' = Turned(job)
     ELSE record' = record /\ UNCHANGED <<calls, unproven, slot, job>>
  /\ UNCHANGED starts /\ RecEnds
  /\ UNCHANGED <<fenced, unknown, turn, sessions, pump, due, ghosts, stuck, crashes>>

(* Wrong variant: what a closing Mission finds of a turn is an interruption. *)
SettledNever(d) == FALSE
Settled(d) == ended[d] = "completed" /\ d \notin broken /\ Current(d)

(* One session is down: its ended turn is settled, any other interrupted, its lease released. *)
RecStopped(s) ==
  LET d == live[s] IN
  /\ rec.at = "stopping" /\ s \in rec.todo /\ s \notin tearing
  /\ IF ~Quiescent(s)
     THEN rec' = [rec EXCEPT !.todo = @ \ {s}, !.failed = TRUE] /\ UNCHANGED <<record, calls, turn>>
     ELSE /\ rec' = [rec EXCEPT !.todo = @ \ {s}]
          /\ IF d = None THEN UNCHANGED <<record, calls, turn>>
             ELSE /\ Forgets(d)
                  /\ IF Settled(d)
                     THEN Writes([record EXCEPT !.op[d] = "succeeded"]) ELSE UNCHANGED <<record, calls>>
  /\ UNCHANGED <<fenced, slot, unknown, job, sessions, pump, starts, joins, due, world>>

(* Some session did not stop: blocked, the status stays. *)
RecGivesUp ==
  /\ rec.at = "stopping" /\ rec.todo = {} /\ rec.failed
  /\ record' = record /\ UNCHANGED starts /\ RecEnds
  /\ UNCHANGED <<fenced, slot, unknown, work, sessions, pump, due, calls, world>>

(* The jobs of what is pending have come to their own end; what is still pending has failed. *)
RecWaits ==
  /\ rec.at = "stopping" /\ rec.todo = {} /\ ~rec.failed
  /\ \A d \in Dispatches : Pending(d) => job[d] \in {"none", "done"}
  /\ Writes([record EXCEPT !.op = Quit(@)]) /\ rec' = [rec EXCEPT !.at = "quiet"]
  /\ UNCHANGED <<fenced, slot, unknown, work, sessions, pump, starts, joins, due, world>>

(* Wrong variant: only the record is asked, and not the sessions. *)
AllQuietOnRecord == \A d \in Dispatches : ~Pending(d)
AllQuiet ==
  /\ \A d \in Dispatches : ~Pending(d)
  /\ \A s \in Sessions : Quiescent(s) /\ live[s] = None
  /\ ~unknown

(* host.quiesce and unregister *)
RecQuiets ==
  /\ rec.at = "quiet"
  /\ IF AllQuiet /\ record.status \in Closing
     THEN Writes([record EXCEPT !.status = IF @ = "stopping" THEN "stopped" ELSE "paused"])
          /\ Unregisters /\ job' = Turned(job)
     ELSE record' = record /\ UNCHANGED <<calls, slot, job>>
  /\ UNCHANGED starts /\ RecEnds
  /\ UNCHANGED <<fenced, unknown, turn, sessions, pump, due, world>>

-----------------------------------------------------------------------------
(* controlOnce() *)

(* Pause and Stop fence before their first await. `fresh` is whether the revision they expect is the present one. *)
CloseCall(c, action, fresh) ==
  /\ calls[c].at = "new" /\ record.status # "stopped"
  /\ calls' = [calls EXCEPT ![c] = [NoCall EXCEPT !.at = "asked", !.action = action, !.fresh = fresh,
                                                  !.restart = record.status = "recovering"]]
  /\ Fences(job)
  /\ UNCHANGED <<record, unknown, turn, sessions, host, world>>

(* prepareResume(): reconciles first, and then wants another look of the user, ... *)
ResumeReconciles(c) ==
  /\ calls[c].at = "new" /\ record.status \in {"pausing", "recovering"}
  /\ calls' = [calls EXCEPT ![c].at = "done"]
  /\ record' = record /\ Reconciles(record.status = "recovering", TRUE)
  /\ UNCHANGED <<fenced, slot, unknown, work, sessions, pump, starts, due, world>>

(* ... or reserves the lead's capacity, without opening it. *)
ResumeCall(c, fresh) ==
  /\ calls[c].at = "new" /\ record.status = "paused"
  /\ calls' = [calls EXCEPT ![c] = [NoCall EXCEPT !.at = "asked", !.action = "resume", !.fresh = fresh,
                                                  !.reserved = slot = "none"]]
  /\ slot' = "held" /\ job' = Turned(job)
  /\ UNCHANGED <<record, fenced, unknown, turn, sessions, host, world>>

After(action) ==
  CASE action = "pause" -> IF record.status = "paused" THEN "paused" ELSE "pausing"
    [] action = "stop"  -> "stopping"
    [] OTHER            -> "running"

Commit(c) ==
  LET a == calls[c].action IN
  /\ Answered /\ calls[c].at = "asked" /\ calls[c].fresh /\ record.status # "stopped"
  /\ a = "pause" => record.status \notin {"stopping", "recovering"}
  /\ a = "resume" => record.status = "paused" /\ AllQuiet
  /\ record' = [record EXCEPT !.status = After(a), !.own = IF a = "stop" THEN {} ELSE @]
  /\ calls' = [e \in Calls |-> [calls[e] EXCEPT !.fresh = FALSE, !.at = IF e = c THEN After(a) ELSE @]]
  /\ UNCHANGED <<fenced, slot, unknown, work, sessions, host, world>>

(* A committed Pause or Stop reconciles; a Pause of what is paused has nothing to do. *)
CloseGoesOn(c) ==
  /\ calls[c].at \in {"pausing", "stopping", "paused"}
  /\ calls' = [calls EXCEPT ![c].at = "done"] /\ record' = record
  /\ IF calls[c].at = "paused" THEN UNCHANGED <<rec, joins>> ELSE Reconciles(calls[c].restart, TRUE)
  /\ UNCHANGED <<fenced, slot, unknown, work, sessions, pump, starts, due, world>>

(* A committed Resume opens admission unless the Mission is closed again. *)
ResumeGoesOn(c) ==
  /\ calls[c].at = "running" /\ calls' = [calls EXCEPT ![c].at = "done"]
  /\ IF record.status \in Closed THEN UNCHANGED <<fenced, slot>> ELSE fenced' = FALSE /\ slot' = "open"
  /\ UNCHANGED <<record, unknown, work, sessions, host, world>>

(* The transaction is refused: what the call had closed or reserved is undone. *)
Refuse(c) ==
  /\ calls[c].at = "asked" /\ calls' = [calls EXCEPT ![c].at = "done"]
  /\ \/ calls[c].action = "resume" /\ calls[c].reserved /\ record.status = "paused"
        /\ Unregisters /\ job' = Turned(job) /\ UNCHANGED fenced
     \/ calls[c].action # "resume" /\ record.status \notin Closed
        /\ fenced' = FALSE /\ slot' = (IF slot = "none" THEN "none" ELSE "open") /\ UNCHANGED job
     \/ (IF calls[c].action = "resume" THEN ~(calls[c].reserved /\ record.status = "paused") ELSE record.status \in Closed)
        /\ UNCHANGED <<fenced, slot, job>>
  /\ UNCHANGED <<record, unknown, turn, sessions, host, world>>

-----------------------------------------------------------------------------
(* The app dies, harness processes may not; load() of the next one *)

Crash ==
  /\ crashes < MaxCrashes /\ crashes' = crashes + 1
  /\ \E S \in SUBSET {s \in Sessions : runtime[s] \in {"turn", "stuck"}} : ghosts' = ghosts \cup S
  /\ runtime' = [s \in Sessions |-> "off"] /\ tearing' = {} /\ canceled' = {}
  /\ job' = [d \in Dispatches |-> "none"] /\ lease' = [d \in Dispatches |-> "none"]
  /\ live' = [s \in Sessions |-> None] /\ ended' = [d \in Dispatches |-> "no"] /\ broken' = {}
  /\ pump' = IdlePump /\ joins' = {} /\ starts' = "none" /\ due' = FALSE
  /\ calls' = [c \in Calls |-> IF calls[c].at = "new" THEN NoCall ELSE [NoCall EXCEPT !.at = "done"]]
  /\ fenced' = TRUE
  /\ IF record.status = "stopped"
     THEN slot' = "none" /\ unknown' = (ghosts' # {}) /\ rec' = IdleRec /\ UNCHANGED record
     ELSE /\ slot' = "held" /\ unknown' = TRUE /\ rec' = Rec(TRUE, TRUE)
          /\ record' = [Recovered(record) EXCEPT !.status = IF @ = "paused" THEN "recovering" ELSE @]
  /\ UNCHANGED <<unproven, stuck>>

GhostEnds(s) ==
  /\ s \in ghosts /\ ghosts' = ghosts \ {s}
  /\ UNCHANGED <<mission, work, sessions, host, calls, unproven, stuck, crashes>>

-----------------------------------------------------------------------------
JobSteps(d) == Admit(d) \/ Prepared(d) \/ Marks(d) \/ Sends(d)
               \/ Crosses(d) \/ Delivers(d) \/ SendStopped(d) \/ JobThrows(d) \/ Fails(d) \/ Failed(d) \/ Blocks(d)
PumpSteps == Releases \/ PumpBlocks \/ Notes \/ Stalls \/ PumpGoesOn
RecSteps == RecDrains \/ RecBegins \/ RecProves \/ RecUnproven \/ RecGivesUp \/ RecWaits \/ RecQuiets
            \/ \E s \in Sessions : RecStopped(s)
CallSteps(c) == Commit(c) \/ CloseGoesOn(c) \/ ResumeGoesOn(c) \/ Refuse(c)

Next ==
  \/ \E d \in Dispatches : Intend(d) \/ JobSteps(d) \/ Settles(d)
  \/ \E s \in Sessions : DisposeEnds(s) \/ Starts(s) \/ TurnEnds(s) \/ Dies(s) \/ GhostEnds(s)
  \/ PumpSteps \/ FailurePauses \/ Looks \/ RecSteps
  \/ \E c \in Calls : \/ \E a \in {"pause", "stop"}, fresh \in BOOLEAN : CloseCall(c, a, fresh)
                      \/ \E fresh \in BOOLEAN : ResumeCall(c, fresh)
                      \/ ResumeReconciles(c) \/ CallSteps(c)
  \/ Crash

Spec == Init /\ [][Next]_vars

(* Promises settle, a disposal succeeds or fails; nothing is assumed of users, turns or ghosts. *)
Fairness ==
  /\ \A d \in Dispatches : WF_vars(JobSteps(d)) /\ WF_vars(Settles(d))
  /\ \A s \in Sessions : WF_vars(DisposeEnds(s)) /\ WF_vars(Starts(s))
  /\ WF_vars(PumpSteps) /\ WF_vars(Looks) /\ WF_vars(FailurePauses) /\ WF_vars(RecSteps)
  /\ \A c \in Calls : WF_vars(CallSteps(c))
FairSpec == Spec /\ Fairness

-----------------------------------------------------------------------------
TypeOK ==
  /\ record.status \in {"running", "blocked", "stopped"} \cup Closed
  /\ record.op \in [Dispatches -> {"none", "succeeded", "failed"} \cup Open] /\ record.own \in SUBSET Dispatches
  /\ fenced \in BOOLEAN /\ unknown \in BOOLEAN /\ slot \in {"none", "held", "open"}
  /\ lease \in [Dispatches -> {"none", "job", "turn"}]
  /\ live \in [Sessions -> Dispatches \cup {None}]
  /\ starts \in {"none"} \cup Closing
  /\ runtime \in [Sessions -> {"off", "starting", "up", "turn", "stuck"}]

(* A paused Mission, and a stopped one unless it says so, has nothing running  *)
(* that could still write: no turn, no process of an earlier app, no pending   *)
(* operation and no capacity, whatever job, pump or failure was under way.     *)
QuietMeansQuiet ==
  record.status \in {"paused", "stopped"} /\ ~unproven =>
    /\ ghosts = {} /\ Leaseless
    /\ \A d \in Dispatches : ~Pending(d)
    /\ \A s \in Sessions : runtime[s] \notin {"turn", "stuck"} /\ live[s] = None

(* A running turn holds capacity until its session is seen quiet: no Pause,    *)
(* failure or late answer of a send gives its lease away under it.             *)
TurnsHoldCapacity ==
  \A s \in Sessions : runtime[s] = "turn" => live[s] # None /\ lease[live[s]] = "turn"

(* A turn that was seen to complete is recorded as a success by whichever comes *)
(* first, the pump or a reconciliation; no interruption and no failure of its   *)
(* send overwrites it.                                                          *)
CompletionIsKept ==
  [][\A d \in Dispatches :
       ended[d] = "completed" /\ d \notin broken /\ Current(d) /\ crashes' = crashes
         => record'.op[d] # "failed" /\ (ended'[d] = "completed" \/ record'.op[d] = "succeeded")]_vars

(* A Stop ends: "A user Stop must still end: terminal, capacity released"     *)
(* (service.ts:2197), whatever jobs, failures, restarts or other calls it      *)
(* meets, as long as a failed teardown succeeds when it is tried again; unless *)
(* the pump waits, inside a settlement, for a reconciliation that waits for    *)
(* the pump, which the code does not prevent.                                  *)
StopEndsUnlessPumpWaits == record.status = "stopping" ~> record.status # "stopping" \/ pump.at = "waiting"
=============================================================================
