-------------------------- MODULE MissionHostProofs --------------------------
(***************************************************************************)
(* A paused Mission is quiet, a running turn holds capacity and a          *)
(* completed one is kept, for any dispatches, sessions and control calls,  *)
(* any number of failed teardowns and restarts.                            *)
(*                                                                         *)
(* A session has at most one pending dispatch, and whatever its job, its   *)
(* turn or its runtime is about belongs to that one.  What is left over    *)
(* when a dispatch is no longer pending is on its way out: the pump is     *)
(* about to forget it, or the Mission is closing and its reconciliation    *)
(* will look at every session again.                                       *)
(***************************************************************************)
EXTENDS MissionHost, TLAPS

Statuses == {"running", "blocked", "stopped"} \cup Closed
Operations == {"none", "succeeded", "failed"} \cup Open
Moving == {"clearing", "starting", "sending", "crossing"}  \* a job with its turn entered
Active == {"queued", "preparing"} \cup Moving
Places == {"none", "done", "failing", "stopping", "blocking"} \cup Active
CallType ==
  [at : {"new", "asked", "done"} \cup Committed, action : {"pause", "stop", "resume"},
   fresh : BOOLEAN, restart : BOOLEAN, reserved : BOOLEAN]
RecType ==
  [at : {"none", "drain", "begin", "asking", "stopping", "quiet"}, restart : BOOLEAN,
   todo : SUBSET Sessions, failed : BOOLEAN]
JoinType == [status : Statuses, restart : BOOLEAN, drain : BOOLEAN]

RecordTypes ==
  /\ record \in [status : Statuses, op : [Dispatches -> Operations], own : SUBSET Dispatches]
  /\ fenced \in BOOLEAN /\ unknown \in BOOLEAN /\ due \in BOOLEAN
WorkTypes ==
  /\ job \in [Dispatches -> Places]
  /\ lease \in [Dispatches -> {"none", "job", "turn"}]
  /\ live \in [Sessions -> Dispatches \cup {None}]
  /\ ended \in [Dispatches -> {"no", "completed", "failed"}]
  /\ broken \subseteq Dispatches
SessionTypes ==
  /\ runtime \in [Sessions -> {"off", "starting", "up", "turn", "stuck"}]
  /\ tearing \subseteq Sessions /\ ghosts \subseteq Sessions
HostTypes ==
  /\ pump \in [at : {"idle", "settled", "noting", "blocking", "stalled", "waiting"},
               of : Dispatches \cup {None}]
  /\ rec \in RecType /\ joins \subseteq JoinType /\ calls \in [Calls -> CallType]
Types == RecordTypes /\ WorkTypes /\ SessionTypes /\ HostTypes

-----------------------------------------------------------------------------
(* The inductive invariant. *)

(* A session's turn is of one of its own dispatches, and has the lease of that dispatch. *)
LeaseInv ==
  /\ \A s \in Sessions : live[s] # None => SessionOf[live[s]] = s
  /\ \A d \in Dispatches : lease[d] = "turn" <=> live[SessionOf[d]] = d
  /\ \A d \in Dispatches : lease[d] = "job" => job[d] = "preparing"

(* A session has one pending dispatch at most, and only a pending dispatch has a job at work. *)
PendingInv ==
  /\ \A d, e \in Dispatches : SessionOf[d] = SessionOf[e] /\ Pending(d) /\ Pending(e) => d = e
  /\ \A d \in Dispatches : job[d] \in Active \cup {"stopping"} => Pending(d)

(* Where a job stands says what its session's turn and runtime are. *)
JobInv ==
  \A d \in Dispatches :
    /\ job[d] \in {"queued", "preparing"} => live[SessionOf[d]] = None
    /\ job[d] \in Moving => runtime[SessionOf[d]] # "turn"
    /\ job[d] = "crossing" => live[SessionOf[d]] = d

(* A runtime is busy only with a turn that is owned, and a turn ends behind its job. *)
TurnInv ==
  /\ \A s \in Sessions : runtime[s] = "turn" => live[s] # None
  /\ \A d \in Dispatches : ended[d] # "no" => live[SessionOf[d]] = d /\ job[d] \notin Active

(* A failure that stops its session has marked the turn it stops. *)
StoppingInv ==
  \A d \in Dispatches : job[d] = "stopping" =>
    /\ live[SessionOf[d]] = d => d \in broken
    /\ SessionOf[d] \notin tearing => runtime[SessionOf[d]] \in {"off", "stuck"}

(* The dispatch the pump has settled stays settled, and its session stays down. *)
PumpInv ==
  pump.at = "settled" =>
    /\ pump.of \in Dispatches /\ ~Pending(pump.of) /\ record.op[pump.of] # "none"
    /\ live[SessionOf[pump.of]] = pump.of =>
         ended[pump.of] # "no" /\ runtime[SessionOf[pump.of]] # "turn"

(* Until it is known what an earlier app left behind, nothing is begun. *)
UnknownInv ==
  /\ ghosts # {} => unknown
  /\ unknown =>
       /\ record.status \in {"stopping", "recovering", "stopped"}
       /\ \A d \in Dispatches : job[d] = "none" /\ lease[d] = "none" /\ ended[d] = "no"
       /\ \A s \in Sessions : live[s] = None /\ runtime[s] = "off"
       /\ tearing = {} /\ pump.at = "idle" /\ ~due

(* A reconciliation that has looked at the Mission works on a closing one, which no pump recovers. *)
Deep == {"asking", "stopping", "quiet"}
ClosingInv ==
  /\ rec.at # "none" => record.status \in Closing \cup {"stopped", "blocked"} \/ pump.at = "waiting"
  /\ rec.at = "begin" => pump.at # "stalled"
  /\ rec.at \in Deep => record.status \in Closing /\ pump.at # "stalled"
  /\ rec.at = "asking" => unknown
  /\ joins # {} => rec.at # "none"
  /\ \A j \in joins : ~j.drain => pump.at = "waiting"
  /\ \A c \in Calls : calls[c].at \in {"pausing", "stopping"} => record.status = calls[c].at

(* What is not of a pending dispatch is on its way out. *)
Closes == record.status \in Closing /\ pump.at # "stalled"
Busy(s) == runtime[s] \notin {"off", "up"} \/ s \in tearing
LeftInv ==
  /\ \A s \in Sessions : Busy(s) => Closes \/ \E d \in Dispatches : SessionOf[d] = s /\ Pending(d)
  /\ \A d \in Dispatches : live[SessionOf[d]] = d =>
       Pending(d) \/ Closes \/ (pump.at = "settled" /\ pump.of = d)

(* Nothing is left in a Mission that has come to rest, ... *)
Rests ==
  /\ ~unknown /\ tearing = {}
  /\ \A d \in Dispatches : ~Pending(d)
  /\ \A s \in Sessions : live[s] = None /\ runtime[s] \in {"off", "up"}
RestInv == record.status \in {"paused", "stopped"} /\ ~unproven => Rests

(* ... nor does a session begin or end anything once a reconciliation has stopped it. *)
StoppedInv ==
  rec.at = "stopping" /\ ~rec.failed =>
    \A d \in Dispatches : SessionOf[d] \notin rec.todo =>
      runtime[SessionOf[d]] # "turn" /\ job[d] # "crossing" /\ ended[d] = "no"

WorkInv == LeaseInv /\ PendingInv /\ JobInv /\ TurnInv
Inv == /\ Types /\ WorkInv /\ StoppingInv /\ PumpInv
       /\ UnknownInv /\ ClosingInv /\ LeftInv /\ RestInv /\ StoppedInv
       /\ crashes \in Nat

-----------------------------------------------------------------------------
(* The operators the actions are built from. *)

LEMMA WritesTypes ==
  ASSUME Types, NEW r, Writes(r)
  PROVE  /\ record' = r /\ calls' \in [Calls -> CallType]
         /\ \A c \in Calls : calls[c].at \notin Committed /\ calls'[c].at = calls[c].at
<1>1. \A c \in Calls : calls[c] \in CallType
  BY DEF Types, HostTypes
<1>2. \A c \in Calls : [calls[c] EXCEPT !.fresh = FALSE] \in CallType
                       /\ [calls[c] EXCEPT !.fresh = FALSE].at = calls[c].at
  BY <1>1 DEF CallType
<1> QED BY <1>2 DEF Writes, Answered

LEMMA TurnedTypes ==
  ASSUME NEW jobs \in [Dispatches -> Places]
  PROVE  /\ Turned(jobs) \in [Dispatches -> Places]
         /\ \A d \in Dispatches : Turned(jobs)[d] = jobs[d]
                                  \/ (jobs[d] = "queued" /\ Turned(jobs)[d] = "failing")
BY DEF Turned, Places

LEMMA GoesTypes ==
  ASSUME Types, NEW d \in Dispatches, NEW place \in Places, Goes(d, place)
  PROVE  job' \in [Dispatches -> Places] /\ job' = [job EXCEPT ![d] = place]
BY DEF Goes, Types, WorkTypes

LEMMA PausesTypes ==
  ASSUME Types, NEW jobs \in [Dispatches -> Places], PausesItself(jobs)
  PROVE  job' \in [Dispatches -> Places] /\ fenced' \in BOOLEAN /\ due' \in BOOLEAN
<1>1. CASE fenced \/ record.status = "stopped"
  BY <1>1 DEF PausesItself, Types, RecordTypes
<1>2. CASE ~(fenced \/ record.status = "stopped")
  BY <1>2, TurnedTypes DEF PausesItself, Fences
<1> QED BY <1>1, <1>2

LEMMA ForgetsTypes ==
  ASSUME Types, NEW d \in Dispatches, Forgets(d)
  PROVE  /\ lease' \in [Dispatches -> {"none", "job", "turn"}]
         /\ live' \in [Sessions -> Dispatches \cup {None}]
         /\ ended' \in [Dispatches -> {"no", "completed", "failed"}]
         /\ broken' \subseteq Dispatches
BY DEF Forgets, Types, WorkTypes

LEMMA StopsTypes ==
  ASSUME Types, NEW S \in SUBSET Sessions, Stops(S)
  PROVE  tearing' \subseteq Sessions /\ tearing \subseteq tearing' /\ tearing' \subseteq tearing \cup S
BY DEF Stops, Types, SessionTypes

LEMMA RecOfTypes ==
  ASSUME NEW restart \in BOOLEAN, NEW drain \in BOOLEAN
  PROVE  /\ Rec(restart, drain) \in RecType
         /\ Rec(restart, drain).at = IF drain THEN "drain" ELSE "begin"
         /\ IdleRec \in RecType /\ IdleRec.at = "none"
BY DEF Rec, IdleRec, RecType

LEMMA ReconcilesTypes ==
  ASSUME Types, RecordTypes', NEW restart \in BOOLEAN, NEW drain \in BOOLEAN, Reconciles(restart, drain)
  PROVE  rec' \in RecType /\ joins' \subseteq JoinType
<1>1. [status |-> record'.status, restart |-> restart, drain |-> drain] \in JoinType
  BY DEF JoinType, RecordTypes
<1> QED BY <1>1, RecOfTypes DEF Reconciles, Types, HostTypes

LEMMA RecEndsTypes ==
  ASSUME Types, RecEnds
  PROVE  /\ rec' \in RecType /\ joins' = {} /\ joins' \subseteq JoinType
         /\ \/ rec'.at = "none"
            \/ /\ rec'.at \in {"drain", "begin"} /\ record'.status \in Closing
               /\ rec'.at = "begin" => \E j \in joins : ~j.drain
<1>1. \A j \in joins : j.restart \in BOOLEAN /\ j.drain \in BOOLEAN
  BY DEF Types, HostTypes, JoinType
<1>2. CASE rec' = IdleRec
  BY <1>2, RecOfTypes DEF RecEnds
<1>3. CASE \E j \in joins : j.status = record'.status /\ j.status \in Closing /\ rec' = Rec(j.restart, j.drain)
  <2>1. PICK j \in joins : j.status = record'.status /\ j.status \in Closing /\ rec' = Rec(j.restart, j.drain)
    BY <1>3
  <2>2. Rec(j.restart, j.drain) \in RecType
        /\ Rec(j.restart, j.drain).at = IF j.drain THEN "drain" ELSE "begin"
    BY <1>1, <2>1, RecOfTypes
  <2> QED BY <1>1, <2>1, <2>2 DEF RecEnds
<1> QED BY <1>2, <1>3 DEF RecEnds

-----------------------------------------------------------------------------
(* Types *)

LEMMA JobTypes ==
  ASSUME Types, NEW d \in Dispatches, Intend(d) \/ JobSteps(d)
  PROVE  Types'
<1> USE MissionHostAssumption
<1>0. SessionOf[d] \in Sessions /\ {SessionOf[d]} \in SUBSET Sessions
  OBVIOUS
<1>1. CASE Intend(d)
  <2>1. job' \in [Dispatches -> Places]
    BY <1>1, GoesTypes DEF Intend, Places, Active
  <2>2. record' \in [status : Statuses, op : [Dispatches -> Operations], own : SUBSET Dispatches]
        /\ calls' \in [Calls -> CallType]
    <3>1. record' = [record EXCEPT !.op[d] = "intent", !.own = @ \cup {d}]
          /\ calls' \in [Calls -> CallType]
      BY <1>1, WritesTypes DEF Intend
    <3>2. [record.op EXCEPT ![d] = "intent"] \in [Dispatches -> Operations]
      BY DEF Types, RecordTypes, Operations, Open
    <3> QED BY <3>1, <3>2 DEF Types, RecordTypes
  <2> QED BY <1>1, <2>1, <2>2 DEF Intend, Types, RecordTypes, WorkTypes, SessionTypes, HostTypes,
            turn, sessions, host, world
<1>2. CASE Admit(d)
  <2>1. job' \in [Dispatches -> Places]
    BY <1>2, GoesTypes DEF Admit, Places, Active
  <2>2. record' \in [status : Statuses, op : [Dispatches -> Operations], own : SUBSET Dispatches]
        /\ calls' \in [Calls -> CallType]
    BY <1>2, WritesTypes DEF Admit, Types, RecordTypes, HostTypes, Operations, Open
  <2>3. lease' \in [Dispatches -> {"none", "job", "turn"}]
    BY <1>2 DEF Admit, Types, WorkTypes
  <2> QED BY <1>2, <2>1, <2>2, <2>3 DEF Admit, Types, RecordTypes, WorkTypes, SessionTypes, HostTypes,
            sessions, host, world
<1>3. CASE Prepared(d)
  <2>1. job' \in [Dispatches -> Places]
    BY <1>3, GoesTypes DEF Prepared, Places, Active, Moving
  <2>2. record' \in [status : Statuses, op : [Dispatches -> Operations], own : SUBSET Dispatches]
        /\ calls' \in [Calls -> CallType]
    BY <1>3, WritesTypes DEF Prepared, Types, RecordTypes, HostTypes, Operations, Open
  <2>3. tearing' \subseteq Sessions
    BY <1>0, <1>3, StopsTypes DEF Prepared
  <2> QED BY <1>0, <1>3, <2>1, <2>2, <2>3
          DEF Prepared, Types, RecordTypes, WorkTypes, SessionTypes, HostTypes, host, world
<1>4. CASE Marks(d)
  <2>1. job' \in [Dispatches -> Places]
    BY <1>4, GoesTypes DEF Marks, Places, Active, Moving
  <2>2. record' = record /\ calls' \in [Calls -> CallType]
    BY <1>4, WritesTypes DEF Marks, Types, HostTypes
  <2> QED BY <1>4, <2>1, <2>2
          DEF Marks, Types, RecordTypes, WorkTypes, SessionTypes, HostTypes, turn, sessions, host, world
<1>5. CASE Sends(d)
  <2>1. job' \in [Dispatches -> Places]
    BY <1>5, GoesTypes DEF Sends, Places, Active, Moving
  <2>2. runtime' \in [Sessions -> {"off", "starting", "up", "turn", "stuck"}]
    BY <1>0, <1>5 DEF Sends, Types, SessionTypes
  <2> QED BY <1>5, <2>1, <2>2
          DEF Sends, Types, RecordTypes, WorkTypes, SessionTypes, HostTypes, mission, turn, host, world
<1>6. CASE Crosses(d)
  <2>1. job' \in [Dispatches -> Places]
    BY <1>6, GoesTypes DEF Crosses, Places, Active, Moving
  <2>2. record' = record /\ calls' \in [Calls -> CallType]
    BY <1>6, WritesTypes DEF Crosses, Types, HostTypes
  <2> QED BY <1>6, <2>1, <2>2
          DEF Crosses, Types, RecordTypes, WorkTypes, SessionTypes, HostTypes, turn, sessions, host, world
<1>7. CASE Delivers(d)
  <2>1. job' \in [Dispatches -> Places]
    BY <1>7, GoesTypes DEF Delivers, Places
  <2>2. runtime' \in [Sessions -> {"off", "starting", "up", "turn", "stuck"}]
    BY <1>0, <1>7 DEF Delivers, Types, SessionTypes
  <2> QED BY <1>7, <2>1, <2>2
          DEF Delivers, Types, RecordTypes, WorkTypes, SessionTypes, HostTypes, mission, turn, host
<1>8. CASE SendStopped(d)
  <2>1. job' \in [Dispatches -> Places]
    BY <1>8, GoesTypes DEF SendStopped, Places
  <2> QED BY <1>8, <2>1 DEF SendStopped, Types, RecordTypes, WorkTypes, SessionTypes, HostTypes,
            mission, turn, sessions, host, world
<1>9. CASE JobThrows(d)
  <2>1. job' \in [Dispatches -> Places]
    BY <1>9, GoesTypes DEF JobThrows, GivesUp, Places
  <2>2. lease' \in [Dispatches -> {"none", "job", "turn"}]
    BY <1>9 DEF JobThrows, GivesUp, Types, WorkTypes
  <2> QED BY <1>9, <2>1, <2>2 DEF JobThrows, Types, RecordTypes, WorkTypes, SessionTypes, HostTypes,
            mission, sessions, host, world
<1>10. CASE Fails(d)
  <2>1. job' \in [Dispatches -> Places]
    BY <1>10, GoesTypes DEF Fails, Places
  <2>2. tearing' \subseteq Sessions
    BY <1>0, <1>10, StopsTypes DEF Fails, Types, SessionTypes
  <2>3. broken' \subseteq Dispatches
    BY <1>10 DEF Fails, Types, WorkTypes
  <2> QED BY <1>10, <2>1, <2>2, <2>3
          DEF Fails, Types, RecordTypes, WorkTypes, SessionTypes, HostTypes, mission, host, world
<1>11. CASE Failed(d)
  <2> DEFINE out == [job EXCEPT ![d] = "done"]
  <2>0. out \in [Dispatches -> Places]
    BY DEF Types, WorkTypes, Places
  <2>1. job' \in [Dispatches -> Places] /\ fenced' \in BOOLEAN /\ due' \in BOOLEAN
    <3>1. Goes(d, "blocking") => job' \in [Dispatches -> Places]
      BY GoesTypes DEF Places
    <3>2. PausesItself(out) => job' \in [Dispatches -> Places] /\ fenced' \in BOOLEAN /\ due' \in BOOLEAN
      BY <2>0, PausesTypes
    <3> QED BY <1>11, <2>0, <3>1, <3>2 DEF Failed, Types, RecordTypes
  <2>2. record' \in [status : Statuses, op : [Dispatches -> Operations], own : SUBSET Dispatches]
        /\ calls' \in [Calls -> CallType]
    BY <1>11, WritesTypes DEF Failed, Types, RecordTypes, HostTypes, Operations
  <2>3. /\ lease' \in [Dispatches -> {"none", "job", "turn"}]
        /\ live' \in [Sessions -> Dispatches \cup {None}]
        /\ ended' \in [Dispatches -> {"no", "completed", "failed"}]
        /\ broken' \subseteq Dispatches
    BY <1>11, ForgetsTypes DEF Failed, Types, WorkTypes, turn
  <2> QED BY <1>11, <2>1, <2>2, <2>3
          DEF Failed, Types, RecordTypes, WorkTypes, SessionTypes, HostTypes, sessions, world
<1>12. CASE Blocks(d)
  <2>1. job' \in [Dispatches -> Places]
    <3>1. [job EXCEPT ![d] = "done"] \in [Dispatches -> Places]
      BY DEF Types, WorkTypes, Places
    <3> QED BY <1>12, <3>1, TurnedTypes DEF Blocks, Fences
  <2>2. record' \in [status : Statuses, op : [Dispatches -> Operations], own : SUBSET Dispatches]
        /\ calls' \in [Calls -> CallType]
    BY <1>12, WritesTypes DEF Blocks, Blocked, Types, RecordTypes, Statuses, Closed
  <2> QED BY <1>12, <2>1, <2>2 DEF Blocks, Fences, Types, RecordTypes, WorkTypes, SessionTypes,
            HostTypes, turn, sessions, host, world
<1> QED BY <1>1, <1>2, <1>3, <1>4, <1>5, <1>6, <1>7, <1>8, <1>9, <1>10, <1>11, <1>12 DEF JobSteps

PumpType ==
  [at : {"idle", "settled", "noting", "blocking", "stalled", "waiting"}, of : Dispatches \cup {None}]
RecordType == [status : Statuses, op : [Dispatches -> Operations], own : SUBSET Dispatches]

LEMMA RecordOfTypes ==
  ASSUME Types
  PROVE  Recovered(record) \in RecordType /\ Blocked \in RecordType
         /\ [record EXCEPT !.op = Quit(@)] \in RecordType
         /\ \A status \in Statuses :
              [record EXCEPT !.status = status] \in RecordType
              /\ [record EXCEPT !.status = status, !.op = Quit(@)] \in RecordType
              /\ [record EXCEPT !.status = status, !.own = {}] \in RecordType
         /\ \A d \in Dispatches, o \in {"succeeded", "failed"} : [record EXCEPT !.op[d] = o] \in RecordType
<1>1. Quit(record.op) \in [Dispatches -> Operations]
  BY DEF Quit, Types, RecordTypes, Operations
<1>2. Recovered(record) \in RecordType
  BY DEF Recovered, Types, RecordTypes, RecordType, Statuses, Closed, Closing, Operations, Open
<1>3. Blocked \in RecordType
  BY DEF Blocked, Types, RecordTypes, RecordType, Statuses
<1>4. \A d \in Dispatches, o \in {"succeeded", "failed"} : [record EXCEPT !.op[d] = o] \in RecordType
  BY DEF Types, RecordTypes, RecordType, Operations
<1>5. record \in RecordType
  BY DEF Types, RecordTypes, RecordType
<1> QED BY <1>1, <1>2, <1>3, <1>4, <1>5 DEF RecordType

LEMMA TurnTypes ==
  ASSUME Types,
         \/ \E s \in Sessions : DisposeEnds(s) \/ Starts(s) \/ TurnEnds(s) \/ Dies(s) \/ GhostEnds(s)
         \/ Crash
  PROVE  Types'
<1> USE MissionHostAssumption
<1>1. ASSUME NEW s \in Sessions, DisposeEnds(s) PROVE Types'
  BY <1>1 DEF DisposeEnds, Types, RecordTypes, WorkTypes, SessionTypes, HostTypes,
              mission, work, turn, host
<1>2. ASSUME NEW s \in Sessions, Starts(s) PROVE Types'
  <2>1. job' \in [Dispatches -> Places]
    BY <1>2 DEF Starts, Types, WorkTypes, Places
  <2> QED BY <1>2, <2>1 DEF Starts, Types, RecordTypes, WorkTypes, SessionTypes, HostTypes,
            mission, turn, host, world
<1>3. ASSUME NEW s \in Sessions, TurnEnds(s) PROVE Types'
  <2>1. runtime' \in [Sessions -> {"off", "starting", "up", "turn", "stuck"}]
    BY <1>3 DEF TurnEnds, Types, SessionTypes
  <2>2. ended' \in [Dispatches -> {"no", "completed", "failed"}]
    BY <1>3 DEF TurnEnds, Types, WorkTypes
  <2> QED BY <1>3, <2>1, <2>2 DEF TurnEnds, Types, RecordTypes, WorkTypes, SessionTypes, HostTypes,
            mission, host, world
<1>4. ASSUME NEW s \in Sessions, Dies(s) PROVE Types'
  <2>1. live[s] \in Dispatches
    BY <1>4 DEF Dies, Owner, Types, WorkTypes
  <2>2. job' \in [Dispatches -> Places]
    BY <1>4, <2>1, GoesTypes DEF Dies, Places
  <2>3. runtime' \in [Sessions -> {"off", "starting", "up", "turn", "stuck"}]
    BY <1>4 DEF Dies, Types, SessionTypes
  <2> QED BY <1>4, <2>1, <2>2, <2>3 DEF Dies, Types, RecordTypes, WorkTypes, SessionTypes, HostTypes,
            mission, host, world
<1>5. ASSUME NEW s \in Sessions, GhostEnds(s) PROVE Types'
  BY <1>5 DEF GhostEnds, Types, RecordTypes, WorkTypes, SessionTypes, HostTypes,
              mission, work, turn, sessions, host
<1>6. CASE Crash
  <2>1. record' \in RecordType
    <3> DEFINE r == Recovered(record)
    <3>1. r \in RecordType /\ record \in RecordType
      BY RecordOfTypes DEF Types, RecordTypes, RecordType
    <3>2. record' = record \/ record' = [r EXCEPT !.status = IF @ = "paused" THEN "recovering" ELSE @]
      BY <1>6 DEF Crash
    <3> HIDE DEF r
    <3> QED BY <3>1, <3>2 DEF RecordType, Statuses, Closed, Closing
  <2>2. fenced' \in BOOLEAN /\ unknown' \in BOOLEAN /\ due' \in BOOLEAN
    BY <1>6 DEF Crash
  <2>3. WorkTypes'
    BY <1>6 DEF Crash, WorkTypes, Places
  <2>4. SessionTypes'
    BY <1>6 DEF Crash, SessionTypes, Types
  <2>5. calls' \in [Calls -> CallType]
    BY <1>6 DEF Crash, NoCall, CallType
  <2>6. rec' \in RecType /\ joins' \subseteq JoinType /\ IdlePump \in
          [at : {"idle", "settled", "noting", "blocking", "stalled", "waiting"}, of : Dispatches \cup {None}]
    BY <1>6, RecOfTypes DEF Crash, IdlePump
  <2> QED BY <1>6, <2>1, <2>2, <2>3, <2>4, <2>5, <2>6 DEF Crash, Types, RecordTypes, RecordType, HostTypes
<1> QED BY <1>1, <1>2, <1>3, <1>4, <1>5, <1>6

LEMMA PumpTypes ==
  ASSUME Types, PumpInv, (\E d \in Dispatches : Settles(d)) \/ PumpSteps \/ FailurePauses \/ Looks
  PROVE  Types'
<1> USE MissionHostAssumption
<1> IdlePump \in PumpType
  BY DEF IdlePump, PumpType
<1>1. ASSUME NEW d \in Dispatches, Settles(d) PROVE Types'
  <2>1. record' \in RecordType /\ calls' \in [Calls -> CallType]
    <3> DEFINE r == [record EXCEPT !.op[d] = IF ended[d] = "completed" THEN "succeeded" ELSE "failed"]
    <3>1. r \in RecordType
      BY DEF Types, RecordTypes, RecordType, Operations
    <3>2. Writes(r)
      BY <1>1 DEF Settles
    <3> HIDE DEF r
    <3> QED BY <3>1, <3>2, WritesTypes
  <2> QED BY <1>1, <2>1 DEF Settles, Types, RecordTypes, RecordType, WorkTypes, SessionTypes, HostTypes,
            work, turn, sessions, world
<1>2. CASE Releases
  <2> DEFINE d == pump.of
  <2>1. /\ lease' \in [Dispatches -> {"none", "job", "turn"}]
        /\ live' \in [Sessions -> Dispatches \cup {None}]
        /\ ended' \in [Dispatches -> {"no", "completed", "failed"}]
        /\ broken' \subseteq Dispatches
    <3>1. d \in Dispatches
      BY <1>2 DEF Releases, PumpInv
    <3>2. Forgets(d) \/ UNCHANGED turn
      BY <1>2 DEF Releases
    <3> HIDE DEF d
    <3> QED BY <3>1, <3>2, ForgetsTypes DEF Types, WorkTypes, turn
  <2>2. job' \in [Dispatches -> Places] /\ fenced' \in BOOLEAN /\ due' \in BOOLEAN
    <3>1. job \in [Dispatches -> Places]
      BY DEF Types, WorkTypes
    <3>2. PausesItself(job) => job' \in [Dispatches -> Places] /\ fenced' \in BOOLEAN /\ due' \in BOOLEAN
      BY <3>1, PausesTypes
    <3>3. Fences(job) => job' \in [Dispatches -> Places] /\ fenced' \in BOOLEAN
      BY <3>1, TurnedTypes DEF Fences
    <3> QED BY <1>2, <3>1, <3>2, <3>3 DEF Releases, Types, RecordTypes
  <2>3. pump' \in PumpType
    BY <1>2 DEF Releases, PumpType, Types, HostTypes
  <2> QED BY <1>2, <2>1, <2>2, <2>3 DEF Releases, Types, RecordTypes, WorkTypes, SessionTypes, HostTypes,
            PumpType, sessions, world
<1>3. CASE PumpBlocks
  <2>1. record' \in RecordType /\ calls' \in [Calls -> CallType]
    <3>1. Writes(Blocked) /\ Blocked \in RecordType
      BY <1>3, RecordOfTypes DEF PumpBlocks
    <3> QED BY <3>1, WritesTypes
  <2> QED BY <1>3, <2>1 DEF PumpBlocks, Types, RecordTypes, RecordType, WorkTypes, SessionTypes,
            HostTypes, PumpType, work, turn, sessions, world
<1>4. CASE Notes
  <2>1. job' \in [Dispatches -> Places]
    BY <1>4, TurnedTypes DEF Notes, Fences, Types, WorkTypes
  <2> QED BY <1>4, <2>1 DEF Notes, Fences, Types, RecordTypes, WorkTypes, SessionTypes,
            HostTypes, PumpType, turn, sessions, world
<1>5. CASE Stalls
  <2>1. record' \in RecordType /\ calls' \in [Calls -> CallType]
    <3>1. Writes(Recovered(record)) /\ Recovered(record) \in RecordType
      BY <1>5, RecordOfTypes DEF Stalls
    <3> QED BY <3>1, WritesTypes
  <2>2. RecordTypes'
    BY <1>5, <2>1 DEF Stalls, RecordType, Types, RecordTypes
  <2>3. rec' \in RecType /\ joins' \subseteq JoinType
    BY <1>5, <2>2, ReconcilesTypes DEF Stalls
  <2> QED BY <1>5, <2>1, <2>2, <2>3 DEF Stalls, Types, WorkTypes, SessionTypes,
            HostTypes, work, turn, sessions, world
<1>6. CASE PumpGoesOn
  BY <1>6 DEF PumpGoesOn, Types, RecordTypes, WorkTypes, SessionTypes, HostTypes, PumpType,
              mission, work, turn, sessions, world
<1>7. CASE FailurePauses
  <2>1. record' \in RecordType /\ calls' \in [Calls -> CallType]
    <3> DEFINE status == IF record.status \in {"stopped", "stopping", "recovering"} THEN record.status
                         ELSE "pausing"
    <3>1. status \in Statuses
      BY DEF Types, RecordTypes, Statuses, Closed, Closing
    <3>2. Writes([record EXCEPT !.status = status])
      BY <1>7 DEF FailurePauses
    <3> HIDE DEF status
    <3>3. [record EXCEPT !.status = status] \in RecordType
      BY <3>1, RecordOfTypes
    <3> QED BY <3>2, <3>3, WritesTypes
  <2>2. RecordTypes'
    BY <1>7, <2>1 DEF FailurePauses, RecordType, Types, RecordTypes
  <2>3. rec' \in RecType /\ joins' \subseteq JoinType
    BY <1>7, <2>2, ReconcilesTypes DEF FailurePauses
  <2> QED BY <1>7, <2>1, <2>2, <2>3 DEF FailurePauses, Types, WorkTypes, SessionTypes,
            HostTypes, work, turn, sessions, world
<1>8. CASE Looks
  <2>1. rec' \in RecType
    BY <1>8, RecOfTypes DEF Looks
  <2> QED BY <1>8, <2>1 DEF Looks, Types, RecordTypes, WorkTypes, SessionTypes, HostTypes,
            mission, work, turn, sessions, world
<1> QED BY <1>1, <1>2, <1>3, <1>4, <1>5, <1>6, <1>7, <1>8 DEF PumpSteps

LEMMA RecTypes == ASSUME Types, RecSteps PROVE Types'
<1> USE MissionHostAssumption
<1>0. record \in RecordType
  BY DEF Types, RecordTypes, RecordType
<1>1. CASE RecDrains
  <2>1. rec' \in RecType
    BY <1>1 DEF RecDrains, Types, HostTypes, RecType
  <2> QED BY <1>1, <2>1 DEF RecDrains, Types, RecordTypes, WorkTypes, SessionTypes, HostTypes,
            mission, work, turn, sessions, world
<1>2. CASE RecBegins
  <2>1. tearing' \subseteq Sessions
    BY <1>2, StopsTypes DEF RecBegins, RecStops, Types, SessionTypes
  <2>2. rec' \in RecType /\ joins' \subseteq JoinType
    <3>1. \A at \in {"asking", "stopping"} : [rec EXCEPT !.at = at] \in RecType
      BY DEF Types, HostTypes, RecType
    <3>2. [rec EXCEPT !.at = "stopping", !.todo = Sessions] \in RecType
      BY DEF Types, HostTypes, RecType
    <3> QED BY <1>2, <3>1, <3>2, RecEndsTypes DEF RecBegins, RecStops, Types, HostTypes
  <2> QED BY <1>2, <2>1, <2>2 DEF RecBegins, Types, RecordTypes, WorkTypes, SessionTypes, HostTypes,
            work, turn, world
<1>3. CASE RecProves
  <2>1. record' = record /\ calls' \in [Calls -> CallType]
    BY <1>3, WritesTypes DEF RecProves
  <2>2. tearing' \subseteq Sessions
    BY <1>3, StopsTypes DEF RecProves, RecStops
  <2>3. rec' \in RecType
    BY <1>3 DEF RecProves, RecStops, Types, HostTypes, RecType
  <2> QED BY <1>3, <2>1, <2>2, <2>3 DEF RecProves, RecStops, Types, RecordTypes, WorkTypes, SessionTypes,
            HostTypes, work, turn, world
<1>4. CASE RecUnproven
  <2>1. record' \in RecordType /\ calls' \in [Calls -> CallType]
    <3> DEFINE r == [record EXCEPT !.status = "stopped", !.op = Quit(@)]
    <3>1. r \in RecordType
      BY RecordOfTypes DEF Statuses
    <3>2. Writes(r) \/ (record' = record /\ UNCHANGED calls)
      BY <1>4 DEF RecUnproven
    <3> HIDE DEF r
    <3> QED BY <1>0, <3>1, <3>2, WritesTypes DEF Types, HostTypes
  <2>2. job' \in [Dispatches -> Places]
    BY <1>4, TurnedTypes DEF RecUnproven, Types, WorkTypes
  <2>3. rec' \in RecType /\ joins' \subseteq JoinType
    BY <1>4, RecEndsTypes DEF RecUnproven
  <2> QED BY <1>4, <2>1, <2>2, <2>3 DEF RecUnproven, Types, RecordTypes, RecordType, WorkTypes,
            SessionTypes, HostTypes, turn, sessions
<1>5. CASE RecGivesUp
  <2>1. rec' \in RecType /\ joins' \subseteq JoinType
    BY <1>5, RecEndsTypes DEF RecGivesUp
  <2> QED BY <1>5, <2>1 DEF RecGivesUp, Types, RecordTypes, WorkTypes, SessionTypes, HostTypes,
            work, turn, sessions, world
<1>6. CASE RecWaits
  <2>1. record' \in RecordType /\ calls' \in [Calls -> CallType]
    <3> DEFINE r == [record EXCEPT !.op = Quit(@)]
    <3>1. r \in RecordType /\ Writes(r)
      BY <1>6, RecordOfTypes DEF RecWaits
    <3> HIDE DEF r
    <3> QED BY <3>1, WritesTypes
  <2>2. rec' \in RecType
    BY <1>6 DEF RecWaits, Types, HostTypes, RecType
  <2> QED BY <1>6, <2>1, <2>2 DEF RecWaits, Types, RecordTypes, RecordType, WorkTypes, SessionTypes,
            HostTypes, work, turn, sessions, world
<1>7. CASE RecQuiets
  <2>1. record' \in RecordType /\ calls' \in [Calls -> CallType]
    <3> DEFINE status == IF record.status = "stopping" THEN "stopped" ELSE "paused"
               r == [record EXCEPT !.status = status]
    <3>1. r \in RecordType
      BY RecordOfTypes DEF Statuses, Closed
    <3>2. Writes(r) \/ (record' = record /\ UNCHANGED calls)
      BY <1>7 DEF RecQuiets
    <3> HIDE DEF r
    <3> QED BY <1>0, <3>1, <3>2, WritesTypes DEF Types, HostTypes
  <2>2. job' \in [Dispatches -> Places]
    BY <1>7, TurnedTypes DEF RecQuiets, Types, WorkTypes
  <2>3. rec' \in RecType /\ joins' \subseteq JoinType
    BY <1>7, RecEndsTypes DEF RecQuiets
  <2> QED BY <1>7, <2>1, <2>2, <2>3 DEF RecQuiets, Types, RecordTypes, RecordType, WorkTypes,
            SessionTypes, HostTypes, turn, sessions, world
<1>8. ASSUME NEW s \in Sessions, RecStopped(s) PROVE Types'
  <2> DEFINE d == live[s]
  <2>1. d \in Dispatches \cup {None}
    BY DEF Types, WorkTypes
  <2>2. record' \in RecordType /\ calls' \in [Calls -> CallType]
    <3> DEFINE r == [record EXCEPT !.op[d] = "succeeded"]
    <3>1. d # None => r \in RecordType
      BY <2>1 DEF Types, RecordTypes, RecordType, Operations
    <3>2. (d # None /\ Writes(r)) \/ UNCHANGED <<record, calls>>
      BY <1>8 DEF RecStopped
    <3> HIDE DEF r, d
    <3> QED BY <1>0, <3>1, <3>2, WritesTypes DEF Types, HostTypes
  <2>3. /\ lease' \in [Dispatches -> {"none", "job", "turn"}]
        /\ live' \in [Sessions -> Dispatches \cup {None}]
        /\ ended' \in [Dispatches -> {"no", "completed", "failed"}]
        /\ broken' \subseteq Dispatches
    <3>1. (d # None /\ Forgets(d)) \/ UNCHANGED turn
      BY <1>8 DEF RecStopped
    <3> HIDE DEF d
    <3> QED BY <2>1, <3>1, ForgetsTypes DEF Types, WorkTypes, turn
  <2>4. rec' \in RecType
    <3>1. [rec EXCEPT !.todo = @ \ {s}] \in RecType
          /\ [rec EXCEPT !.todo = @ \ {s}, !.failed = TRUE] \in RecType
      BY DEF Types, HostTypes, RecType
    <3> QED BY <1>8, <3>1 DEF RecStopped
  <2> QED BY <1>8, <2>2, <2>3, <2>4 DEF RecStopped, Types, RecordTypes, RecordType, WorkTypes,
            SessionTypes, HostTypes, sessions, world
<1> QED BY <1>1, <1>2, <1>3, <1>4, <1>5, <1>6, <1>7, <1>8 DEF RecSteps

UserSteps(c) ==
  \/ \E a \in {"pause", "stop"}, fresh \in BOOLEAN : CloseCall(c, a, fresh)
  \/ \E fresh \in BOOLEAN : ResumeCall(c, fresh)
  \/ ResumeReconciles(c) \/ CallSteps(c)

LEMMA UserTypes == ASSUME Types, NEW c \in Calls, UserSteps(c) PROVE Types'
<1> USE MissionHostAssumption
<1>0. /\ record \in RecordType /\ calls \in [Calls -> CallType] /\ job \in [Dispatches -> Places]
      /\ Turned(job) \in [Dispatches -> Places]
  BY TurnedTypes DEF Types, RecordTypes, RecordType, HostTypes, WorkTypes
<1>1. ASSUME NEW a \in {"pause", "stop"}, NEW fresh \in BOOLEAN, CloseCall(c, a, fresh) PROVE Types'
  <2>1. calls' \in [Calls -> CallType]
    BY <1>0, <1>1 DEF CloseCall, NoCall, CallType
  <2> QED BY <1>0, <1>1, <2>1 DEF CloseCall, Fences, Types, RecordTypes, WorkTypes, SessionTypes,
            HostTypes, turn, sessions, host, world
<1>2. ASSUME NEW fresh \in BOOLEAN, ResumeCall(c, fresh) PROVE Types'
  <2>1. calls' \in [Calls -> CallType]
    BY <1>0, <1>2 DEF ResumeCall, NoCall, CallType
  <2> QED BY <1>0, <1>2, <2>1 DEF ResumeCall, Types, RecordTypes, WorkTypes, SessionTypes,
            HostTypes, turn, sessions, host, world
<1>3. CASE ResumeReconciles(c)
  <2>1. calls' \in [Calls -> CallType]
    BY <1>0, <1>3 DEF ResumeReconciles, CallType
  <2>2. RecordTypes'
    BY <1>3 DEF ResumeReconciles, Types, RecordTypes
  <2>3. rec' \in RecType /\ joins' \subseteq JoinType
    BY <1>3, <2>2, ReconcilesTypes DEF ResumeReconciles
  <2> QED BY <1>3, <2>1, <2>2, <2>3 DEF ResumeReconciles, Types, WorkTypes, SessionTypes, HostTypes,
            work, turn, sessions, world
<1>4. CASE Commit(c)
  <2>1. After(calls[c].action) \in Statuses /\ After(calls[c].action) \in Committed
    BY DEF After, Statuses, Closed, Closing, Committed
  <2>2. calls' \in [Calls -> CallType]
    BY <1>0, <1>4, <2>1 DEF Commit, CallType
  <2>3. record' \in RecordType
    BY <1>0, <1>4, <2>1 DEF Commit, RecordType
  <2> QED BY <1>4, <2>2, <2>3 DEF Commit, Types, RecordTypes, RecordType, WorkTypes, SessionTypes,
            HostTypes, work, turn, sessions, host, world
<1>5. CASE CloseGoesOn(c)
  <2>1. calls' \in [Calls -> CallType]
    BY <1>0, <1>5 DEF CloseGoesOn, CallType
  <2>2. RecordTypes' /\ calls[c].restart \in BOOLEAN
    BY <1>0, <1>5 DEF CloseGoesOn, Types, RecordTypes, CallType
  <2>3. rec' \in RecType /\ joins' \subseteq JoinType
    BY <1>5, <2>2, ReconcilesTypes DEF CloseGoesOn, Types, HostTypes
  <2> QED BY <1>5, <2>1, <2>2, <2>3 DEF CloseGoesOn, Types, WorkTypes, SessionTypes, HostTypes,
            work, turn, sessions, world
<1>6. CASE ResumeGoesOn(c)
  <2>1. calls' \in [Calls -> CallType]
    BY <1>0, <1>6 DEF ResumeGoesOn, CallType
  <2> QED BY <1>6, <2>1 DEF ResumeGoesOn, Types, RecordTypes, WorkTypes, SessionTypes, HostTypes,
            work, turn, sessions, host, world
<1>7. CASE Refuse(c)
  <2>1. calls' \in [Calls -> CallType]
    BY <1>0, <1>7 DEF Refuse, CallType
  <2>2. job' \in [Dispatches -> Places] /\ fenced' \in BOOLEAN
    BY <1>0, <1>7 DEF Refuse, Types, RecordTypes
  <2> QED BY <1>7, <2>1, <2>2 DEF Refuse, Types, RecordTypes, WorkTypes, SessionTypes, HostTypes,
            turn, sessions, host, world
<1> QED BY <1>1, <1>2, <1>3, <1>4, <1>5, <1>6, <1>7 DEF UserSteps, CallSteps

-----------------------------------------------------------------------------
(* Jobs, turns and their leases. *)

(* A job goes on by itself when its session's turn stays whose it is: it withdraws, stops its *)
(* session, or goes from one await of its turn to the next.                                   *)
JobsGoOn ==
  \A d \in Dispatches :
    /\ Pending(d)' => Pending(d)
    /\ \/ job'[d] = job[d] /\ (job[d] \in Active \cup {"stopping"} => Pending(d)')
       \/ job[d] # "preparing" /\ job'[d] \in {"done", "failing", "blocking"}
       \/ job[d] = "failing" /\ job'[d] = "stopping" /\ Pending(d)'
       \/ /\ job[d] \in Moving /\ job'[d] \in Moving /\ Pending(d)'
          /\ job'[d] = "crossing" => live[SessionOf[d]] = d
NoTurnBegins == \A s \in Sessions : runtime'[s] = "turn" => runtime[s] = "turn"
WorkGoesOn == UNCHANGED <<lease, live, ended>> /\ NoTurnBegins /\ JobsGoOn

LEMMA WorkGoesOnPreserves == ASSUME Types, WorkInv, WorkGoesOn PROVE WorkInv'
<1> USE MissionHostAssumption
<1>1. LeaseInv'
  BY DEF WorkInv, LeaseInv, WorkGoesOn, JobsGoOn, Moving
<1>2. PendingInv'
  BY DEF WorkInv, PendingInv, WorkGoesOn, JobsGoOn, Active, Moving
<1>3. JobInv'
  BY DEF WorkInv, JobInv, WorkGoesOn, JobsGoOn, NoTurnBegins, Moving
<1>4. TurnInv'
  BY DEF WorkInv, TurnInv, WorkGoesOn, JobsGoOn, NoTurnBegins, Active, Moving
<1> QED BY <1>1, <1>2, <1>3, <1>4 DEF WorkInv

(* A turn is forgotten when its session is quiet: nothing runs, and no input is being given. *)
LEMMA ForgetsPreserves ==
  ASSUME Types, WorkInv, NEW d \in Dispatches, live[SessionOf[d]] = d, Forgets(d),
         runtime[SessionOf[d]] # "turn", job'[d] # "crossing", runtime' = runtime, JobsGoOn
  PROVE  WorkInv'
<1> USE MissionHostAssumption
<1>0. /\ \A e \in Dispatches : lease'[e] = IF e = d THEN "none" ELSE lease[e]
      /\ \A e \in Dispatches : ended'[e] = IF e = d THEN "no" ELSE ended[e]
      /\ \A s \in Sessions : live'[s] = IF s = SessionOf[d] THEN None ELSE live[s]
  BY DEF Forgets, Types, WorkTypes
<1>1. LeaseInv'
  BY <1>0 DEF WorkInv, LeaseInv, JobsGoOn, Moving
<1>2. PendingInv'
  BY DEF WorkInv, PendingInv, JobsGoOn, Active, Moving
<1>3. JobInv'
  BY <1>0 DEF WorkInv, JobInv, JobsGoOn, Moving
<1>4. TurnInv'
  BY <1>0 DEF WorkInv, TurnInv, JobsGoOn, Active, Moving
<1> QED BY <1>1, <1>2, <1>3, <1>4 DEF WorkInv

(* An operation is pending as long as its state is open. *)
LEMMA PendingStays == ASSUME NEW d, record'.op = record.op PROVE Pending(d)' <=> Pending(d)
BY DEF Pending

LEMMA QuietSession ==
  ASSUME Types, NEW s \in Sessions, Quiescent(s)
  PROVE  /\ runtime[s] \in {"off", "up"} /\ s \notin tearing
         /\ \A d \in Dispatches : SessionOf[d] = s => job[d] \notin {"sending", "crossing"}
BY DEF Quiescent, Sending

LEMMA IntendPreserves == ASSUME Types, WorkInv, NEW d \in Dispatches, Intend(d) PROVE WorkInv'
<1> USE MissionHostAssumption
<1>1. PICK place \in {"queued", "failing"} : job' = [job EXCEPT ![d] = place]
  BY GoesTypes DEF Intend, Goes
<1>2. \A e \in Dispatches : job'[e] = IF e = d THEN place ELSE job[e]
  BY <1>1 DEF Types, WorkTypes
<1>3. \A e \in Dispatches : record'.op[e] = IF e = d THEN "intent" ELSE record.op[e]
  <2>1. record' = [record EXCEPT !.op[d] = "intent", !.own = @ \cup {d}]
    BY DEF Intend, Writes
  <2> QED BY <2>1 DEF Types, RecordTypes
<1>4. \A e \in Dispatches : Pending(e)' <=> e = d \/ Pending(e)
  BY <1>3 DEF Pending, Open
<1>5. UNCHANGED <<lease, live, ended, runtime>> /\ live[SessionOf[d]] = None
      /\ \A e \in Dispatches : SessionOf[e] = SessionOf[d] => ~Pending(e)
  BY DEF Intend, turn, sessions
<1>6. LeaseInv'
  BY <1>2, <1>5 DEF WorkInv, LeaseInv, PendingInv, Active
<1>7. PendingInv'
  BY <1>2, <1>4, <1>5 DEF WorkInv, PendingInv
<1>8. JobInv'
  BY <1>2, <1>5 DEF WorkInv, JobInv, Moving
<1>9. TurnInv'
  BY <1>2, <1>5 DEF WorkInv, TurnInv
<1> QED BY <1>6, <1>7, <1>8, <1>9 DEF WorkInv

LEMMA AdmitPreserves == ASSUME Types, WorkInv, NEW d \in Dispatches, Admit(d) PROVE WorkInv'
<1> USE MissionHostAssumption
<1>1. UNCHANGED <<live, ended, runtime>> /\ job[d] = "queued"
  BY DEF Admit, sessions
<1>2. \A e \in Dispatches : Pending(e)' <=> Pending(e)
  <2>1. UNCHANGED record \/ (record.op[d] = "intent" /\ record' = [record EXCEPT !.op[d] = "in_flight"])
    BY DEF Admit, Writes
  <2> QED BY <2>1 DEF Types, RecordTypes, Pending, Open
<1>3. CASE Admitting
  <2>1. /\ \A e \in Dispatches : job'[e] = IF e = d THEN "preparing" ELSE job[e]
        /\ \A e \in Dispatches : lease'[e] = IF e = d THEN "job" ELSE lease[e]
    BY <1>3 DEF Admit, Goes, Types, WorkTypes
  <2>2. LeaseInv'
    BY <1>1, <2>1 DEF WorkInv, LeaseInv, JobInv
  <2>3. PendingInv'
    BY <1>1, <1>2, <2>1 DEF WorkInv, PendingInv, Active
  <2>4. JobInv'
    BY <1>1, <2>1 DEF WorkInv, JobInv, Moving
  <2>5. TurnInv'
    BY <1>1, <2>1 DEF WorkInv, TurnInv, Active
  <2> QED BY <2>2, <2>3, <2>4, <2>5 DEF WorkInv
<1>4. CASE ~Admitting
  <2>1. lease' = lease /\ \A e \in Dispatches : job'[e] = IF e = d THEN "failing" ELSE job[e]
    BY <1>4 DEF Admit, Goes, Types, WorkTypes
  <2>2. WorkGoesOn
    BY <1>1, <1>2, <2>1 DEF WorkGoesOn, NoTurnBegins, JobsGoOn, WorkInv, PendingInv
  <2> QED BY <2>2, WorkGoesOnPreserves
<1> QED BY <1>3, <1>4

LEMMA PreparedPreserves == ASSUME Types, WorkInv, NEW d \in Dispatches, Prepared(d) PROVE WorkInv'
<1> USE MissionHostAssumption
<1>1. job[d] = "preparing" /\ UNCHANGED <<ended, runtime>> /\ live[SessionOf[d]] = None
  BY DEF Prepared, WorkInv, JobInv
<1>2. \A e \in Dispatches : Pending(e)' <=> Pending(e)
  <2>1. UNCHANGED record \/ (record.op[d] = "intent" /\ record' = [record EXCEPT !.op[d] = "in_flight"])
    BY DEF Prepared, Writes
  <2> QED BY <2>1 DEF Types, RecordTypes, Pending, Open
<1>3. /\ \A e \in Dispatches : job'[e] = IF e = d THEN "clearing" ELSE job[e]
      /\ \A e \in Dispatches : lease'[e] = IF e = d THEN "turn" ELSE lease[e]
      /\ \A s \in Sessions : live'[s] = IF s = SessionOf[d] THEN d ELSE live[s]
  BY DEF Prepared, Goes, Types, WorkTypes
<1>4. \A e \in Dispatches : SessionOf[e] = SessionOf[d] /\ job[e] \in Active => e = d
  BY <1>1 DEF WorkInv, PendingInv, Active
<1>5. LeaseInv'
  BY <1>1, <1>3 DEF WorkInv, LeaseInv
<1>6. PendingInv'
  BY <1>1, <1>2, <1>3 DEF WorkInv, PendingInv, Active
<1>7. JobInv'
  BY <1>1, <1>3, <1>4 DEF WorkInv, JobInv, TurnInv, Active, Moving
<1>8. TurnInv'
  BY <1>1, <1>3 DEF WorkInv, TurnInv
<1> QED BY <1>5, <1>6, <1>7, <1>8 DEF WorkInv

LEMMA DeliversPreserves == ASSUME Types, WorkInv, NEW d \in Dispatches, Delivers(d) PROVE WorkInv'
<1> USE MissionHostAssumption
<1>1. /\ job[d] = "crossing" /\ live[SessionOf[d]] = d
      /\ UNCHANGED <<record, lease, live, ended>>
  BY DEF Delivers, WorkInv, JobInv, mission, turn
<1>2. PICK place \in {"done", "failing"} :
        /\ \A e \in Dispatches : job'[e] = IF e = d THEN place ELSE job[e]
        /\ \A s \in Sessions : s # SessionOf[d] => runtime'[s] = runtime[s]
  BY DEF Delivers, Goes, Types, WorkTypes, SessionTypes
<1>3. \A e \in Dispatches : Pending(e)' <=> Pending(e)
  BY <1>1, PendingStays
<1>4. \A e \in Dispatches : SessionOf[e] = SessionOf[d] /\ job[e] \in Active => e = d
  BY <1>1 DEF WorkInv, PendingInv, Active, Moving
<1>5. LeaseInv'
  BY <1>1, <1>2 DEF WorkInv, LeaseInv
<1>6. PendingInv'
  BY <1>1, <1>2, <1>3 DEF WorkInv, PendingInv, Active, Moving
<1>7. JobInv'
  BY <1>1, <1>2, <1>4 DEF WorkInv, JobInv, Active, Moving
<1>8. TurnInv'
  BY <1>1, <1>2 DEF WorkInv, TurnInv, Active, Moving
<1> QED BY <1>5, <1>6, <1>7, <1>8 DEF WorkInv

LEMMA JobThrowsPreserves == ASSUME Types, WorkInv, NEW d \in Dispatches, JobThrows(d) PROVE WorkInv'
<1> USE MissionHostAssumption
<1>1. /\ job[d] \in {"preparing", "starting", "sending"}
      /\ UNCHANGED <<record, live, ended, runtime>>
      /\ \A e \in Dispatches : job'[e] = IF e = d THEN "failing" ELSE job[e]
      /\ \A e \in Dispatches : lease'[e] = IF e = d /\ lease[d] = "job" THEN "none" ELSE lease[e]
  BY DEF JobThrows, GivesUp, Goes, mission, sessions, Types, WorkTypes
<1>2. \A e \in Dispatches : Pending(e)' <=> Pending(e)
  BY <1>1, PendingStays
<1>3. LeaseInv'
  BY <1>1 DEF WorkInv, LeaseInv
<1>4. PendingInv'
  BY <1>1, <1>2 DEF WorkInv, PendingInv, Active, Moving
<1>5. JobInv'
  BY <1>1 DEF WorkInv, JobInv, Moving
<1>6. TurnInv'
  BY <1>1 DEF WorkInv, TurnInv, Active, Moving
<1> QED BY <1>3, <1>4, <1>5, <1>6 DEF WorkInv

LEMMA TurnEndsPreserves == ASSUME Types, WorkInv, NEW s \in Sessions, TurnEnds(s) PROVE WorkInv'
<1> USE MissionHostAssumption
<1> DEFINE d == live[s]
<1>1. /\ runtime[s] = "turn" /\ d \in Dispatches /\ SessionOf[d] = s
      /\ UNCHANGED <<record, job, lease, live>>
  BY DEF TurnEnds, WorkInv, TurnInv, LeaseInv, mission, Types, WorkTypes
<1>2. /\ \A e \in Dispatches : e # d => ended'[e] = ended[e]
      /\ \A r \in Sessions : r # s => runtime'[r] = runtime[r]
  BY <1>1 DEF TurnEnds, Types, WorkTypes, SessionTypes
<1>3. job[d] \notin Active
  BY <1>1 DEF WorkInv, JobInv, Active, Moving
<1>4. \A e \in Dispatches : Pending(e)' <=> Pending(e)
  BY <1>1, PendingStays
<1>5. LeaseInv'
  BY <1>1 DEF WorkInv, LeaseInv
<1>6. PendingInv'
  BY <1>1, <1>4 DEF WorkInv, PendingInv
<1>7. JobInv'
  BY <1>1, <1>2 DEF WorkInv, JobInv
<1>8. TurnInv'
  BY <1>1, <1>2, <1>3 DEF WorkInv, TurnInv
<1> QED BY <1>5, <1>6, <1>7, <1>8 DEF WorkInv

LEMMA CrashPreserves == ASSUME Types, WorkInv, Crash PROVE WorkInv'
<1> USE MissionHostAssumption
<1>1. \A e \in Dispatches : Pending(e)' => Pending(e)
  <2>1. record'.op = record.op \/ record'.op = Recovered(record).op
    BY DEF Crash, Recovered
  <2> QED BY <2>1 DEF Recovered, Pending
<1>2. /\ \A d \in Dispatches : job'[d] = "none" /\ lease'[d] = "none" /\ ended'[d] = "no"
      /\ \A s \in Sessions : live'[s] = None /\ runtime'[s] = "off"
  BY DEF Crash
<1>3. LeaseInv'
  BY <1>2 DEF LeaseInv
<1>4. PendingInv'
  BY <1>1, <1>2 DEF WorkInv, PendingInv, Active, Moving
<1>5. JobInv' /\ TurnInv'
  BY <1>2 DEF JobInv, TurnInv, Moving
<1> QED BY <1>3, <1>4, <1>5 DEF WorkInv

(* Steps that leave the operations open leave the jobs alone, but for requests they turn away. *)
LEMMA JobsUntouched ==
  ASSUME Types, WorkInv, \A d \in Dispatches : Pending(d)' <=> Pending(d), job' \in {job, Turned(job)}
  PROVE  JobsGoOn
<1>1. \A d \in Dispatches : job'[d] = job[d] \/ (job[d] = "queued" /\ job'[d] = "failing")
  BY TurnedTypes DEF Types, WorkTypes
<1> QED BY <1>1 DEF JobsGoOn, WorkInv, PendingInv

LEMMA SameOperations ==
  ASSUME record'.op = record.op PROVE \A d \in Dispatches : Pending(d)' <=> Pending(d)
BY DEF Pending

LEMMA RecoveredOperations ==
  /\ Recovered(record).op = [d \in Dispatches |-> IF record.op[d] \in Open THEN "reconciling"
                                                ELSE record.op[d]]
  /\ Recovered(record).status \in {"stopping", "paused", "recovering"}
BY DEF Recovered

LEMMA BlockedOperations == ASSUME Types PROVE Blocked.op = record.op
BY DEF Blocked, Types, RecordTypes

LEMMA SmallJobStepsWork ==
  ASSUME Inv, NEW d \in Dispatches,
         Marks(d) \/ Sends(d) \/ Crosses(d) \/ SendStopped(d) \/ Fails(d) \/ Blocks(d)
  PROVE  WorkGoesOn
<1> USE MissionHostAssumption
<1>0. /\ Types /\ WorkInv /\ UNCHANGED <<lease, live, ended>>
      /\ \A e \in Dispatches : job[e] \in Active \cup {"stopping"} => Pending(e)
  BY DEF Inv, WorkInv, PendingInv, Marks, Sends, Crosses, SendStopped, Fails, Blocks, turn
<1>1. CASE ~Blocks(d)
  <2>1. record' = record
    BY <1>1 DEF Marks, Sends, Crosses, SendStopped, Fails, Writes, mission
  <2>2. NoTurnBegins
    BY <1>0, <1>1 DEF NoTurnBegins, Marks, Sends, Crosses, SendStopped, Fails, sessions, Types, SessionTypes
  <2>3. PICK place : job' = [job EXCEPT ![d] = place]
             /\ \/ job[d] \in Moving \cup {"failing"} /\ place \in {"failing", "done"}
                \/ job[d] = "clearing" /\ place = "starting"
                \/ job[d] = "starting" /\ place = "sending"
                \/ job[d] = "sending" /\ place = "crossing" /\ live[SessionOf[d]] = d
                \/ job[d] = "failing" /\ place = "stopping" /\ Pending(d)
    BY <1>1 DEF Marks, Sends, Crosses, MayCross, SendStopped, Fails, Current, Goes, Moving
  <2>4. \A e \in Dispatches : job'[e] = IF e = d THEN place ELSE job[e]
    BY <1>0, <2>3 DEF Types, WorkTypes
  <2>5. \A e \in Dispatches : Pending(e)' <=> Pending(e)
    BY <2>1, SameOperations
  <2>6. JobsGoOn
    BY <1>0, <2>3, <2>4, <2>5 DEF JobsGoOn, Moving, Active
  <2> QED BY <1>0, <2>2, <2>6 DEF WorkGoesOn
<1>2. CASE Blocks(d)
  <2>1. record' = Blocked /\ runtime' = runtime /\ job' = Turned([job EXCEPT ![d] = "done"])
        /\ job[d] = "blocking"
    BY <1>2 DEF Blocks, Writes, Fences, sessions
  <2>2. \A e \in Dispatches : Pending(e)' <=> Pending(e)
    BY <1>0, <2>1, BlockedOperations, SameOperations
  <2>3. \A e \in Dispatches : job'[e] = job[e] \/ (job[e] \in {"queued", "blocking"}
                                                  /\ job'[e] \in {"failing", "done"})
    BY <1>0, <2>1, TurnedTypes DEF Types, WorkTypes, Turned
  <2> QED BY <1>0, <2>1, <2>2, <2>3 DEF WorkGoesOn, NoTurnBegins, JobsGoOn
<1> QED BY <1>1, <1>2

LEMMA SessionStepsWork ==
  ASSUME Inv, NEW s \in Sessions, DisposeEnds(s) \/ Starts(s) \/ Dies(s) \/ GhostEnds(s)
  PROVE  WorkGoesOn
<1> USE MissionHostAssumption
<1>0. /\ Types /\ WorkInv /\ UNCHANGED <<record, lease, live, ended>>
      /\ \A e \in Dispatches : job[e] \in Active \cup {"stopping"} => Pending(e)
  BY DEF Inv, WorkInv, PendingInv, DisposeEnds, Starts, Dies, GhostEnds, mission, work, turn
<1>1. NoTurnBegins
  BY <1>0 DEF NoTurnBegins, DisposeEnds, Starts, Dies, GhostEnds, sessions, Types, SessionTypes
<1>2. \A e \in Dispatches : Pending(e)' <=> Pending(e)
  BY <1>0, SameOperations
<1>3. \A e \in Dispatches : job'[e] = job[e] \/ (job[e] \in {"sending", "crossing", "done"} /\ job'[e] = "failing")
  BY <1>0 DEF DisposeEnds, Starts, Dies, GhostEnds, Goes, Sending, work, Types, WorkTypes
<1>4. JobsGoOn
  BY <1>0, <1>2, <1>3 DEF JobsGoOn
<1> QED BY <1>0, <1>1, <1>4 DEF WorkGoesOn

(* A job that stops its session is the only one of the session, and finds the runtime off. *)
LEMMA StoppedSession ==
  ASSUME Inv, NEW d \in Dispatches, job[d] = "stopping", SessionOf[d] \notin tearing,
         runtime[SessionOf[d]] # "stuck"
  PROVE  Quiescent(SessionOf[d]) /\ runtime[SessionOf[d]] = "off"
<1>1. runtime[SessionOf[d]] = "off"
  BY DEF Inv, StoppingInv
<1>2. \A e \in Dispatches : SessionOf[e] = SessionOf[d] => job[e] \notin {"sending", "crossing"}
  BY DEF Inv, WorkInv, PendingInv, Active, Moving
<1> QED BY <1>1, <1>2 DEF Quiescent, Sending

(* Its failure is recorded, and the turn it had is forgotten. *)
FailsFor(d) ==
  /\ SessionOf[d] \notin tearing /\ runtime[SessionOf[d]] # "stuck" /\ Current(d)
  /\ record' = [record EXCEPT !.op[d] = "failed"]
  /\ IF live[SessionOf[d]] = d THEN Forgets(d) ELSE UNCHANGED turn

LEMMA FailedSteps ==
  ASSUME Inv, NEW d \in Dispatches, Failed(d)
  PROVE  /\ job[d] = "stopping" /\ job'[d] \in {"done", "blocking"}
         /\ \A e \in Dispatches \ {d} : job'[e] = job[e] \/ (job[e] = "queued" /\ job'[e] = "failing")
         /\ UNCHANGED <<unknown, sessions, pump, rec, starts, joins, world>>
         /\ \A c \in Calls : calls'[c].at = calls[c].at
         /\ \/ UNCHANGED <<record, turn, due>>
            \/ FailsFor(d)
<1> DEFINE out == [job EXCEPT ![d] = "done"]
<1>0. Types /\ \A e \in Dispatches : out[e] = IF e = d THEN "done" ELSE job[e]
  BY DEF Inv, Types, WorkTypes
<1>1. job[d] = "stopping" /\ UNCHANGED <<unknown, sessions, pump, rec, starts, joins, world>>
  BY DEF Failed
<1>2. job' = out \/ job' = Turned(out) \/ job' = [job EXCEPT ![d] = "blocking"]
  BY DEF Failed, PausesItself, Fences, Goes
<1>3. job'[d] \in {"done", "blocking"}
      /\ \A e \in Dispatches \ {d} : job'[e] = job[e] \/ (job[e] = "queued" /\ job'[e] = "failing")
  BY <1>0, <1>2 DEF Turned, Types, WorkTypes
<1>4. CASE runtime[SessionOf[d]] = "stuck" \/ ~Current(d)
  BY <1>1, <1>3, <1>4 DEF Failed
<1>5. CASE ~(runtime[SessionOf[d]] = "stuck" \/ ~Current(d))
  <2>1. Quiescent(SessionOf[d])
    BY <1>1, <1>5, StoppedSession DEF Failed
  <2>2. FailsFor(d)
    BY <1>5, <2>1 DEF Failed, FailsFor, Writes
  <2>3. Writes([record EXCEPT !.op[d] = "failed"])
    BY <1>5 DEF Failed
  <2>4. \A c \in Calls : calls'[c].at = calls[c].at
    BY <1>0, <2>3, WritesTypes
  <2> QED BY <1>1, <1>3, <2>2, <2>4
<1> QED BY <1>4, <1>5

LEMMA FailedWork == ASSUME Inv, NEW d \in Dispatches, Failed(d) PROVE WorkInv'
<1> USE MissionHostAssumption
<1>0. Types /\ WorkInv /\ runtime' = runtime
  BY FailedSteps DEF Inv, sessions
<1>1. \A e \in Dispatches \ {d} : Pending(e)' <=> Pending(e)
  <2>1. record' = record \/ record' = [record EXCEPT !.op[d] = "failed"]
    BY FailedSteps DEF FailsFor
  <2> QED BY <1>0, <2>1 DEF Pending, Types, RecordTypes
<1>2. Pending(d)
  BY FailedSteps DEF Inv, WorkInv, PendingInv
<1>3. JobsGoOn
  BY <1>0, <1>1, <1>2, FailedSteps DEF JobsGoOn, WorkInv, PendingInv
<1>4. CASE UNCHANGED turn
  BY <1>0, <1>3, <1>4, WorkGoesOnPreserves DEF WorkGoesOn, NoTurnBegins, turn
<1>5. CASE FailsFor(d) /\ live[SessionOf[d]] = d
  <2>1. Forgets(d) /\ runtime[SessionOf[d]] # "turn"
    BY <1>5, FailedSteps, StoppedSession DEF FailsFor
  <2>2. job'[d] # "crossing"
    BY FailedSteps
  <2> QED BY <1>0, <1>3, <1>5, <2>1, <2>2, ForgetsPreserves
<1> QED BY <1>4, <1>5, FailedSteps DEF FailsFor

(* The turn that the pump settles has an end, a quiet session and no job left. *)
LEMMA SettledTurn ==
  ASSUME Inv, NEW d \in Dispatches, Settles(d)
  PROVE  /\ live[SessionOf[d]] = d /\ ended[d] # "no" /\ Pending(d)
         /\ job[d] \notin Active \cup {"stopping"} /\ runtime[SessionOf[d]] \in {"off", "up"}
         /\ record'.op \in [Dispatches -> Operations] /\ record'.status = record.status
         /\ \A e \in Dispatches : record'.op[e] = IF e = d THEN IF ended[d] = "completed" THEN "succeeded"
                                                                ELSE "failed"
                                                  ELSE record.op[e]
         /\ \A e \in Dispatches : Pending(e)' <=> Pending(e) /\ e # d
<1> DEFINE o == IF ended[d] = "completed" THEN "succeeded" ELSE "failed"
<1>1. live[SessionOf[d]] = d /\ ended[d] # "no" /\ Pending(d) /\ d \notin broken
      /\ Quiescent(SessionOf[d])
  BY DEF Settles, Over, Current
<1>2. job[d] \notin Active \cup {"stopping"}
  BY <1>1 DEF Inv, WorkInv, TurnInv, StoppingInv
<1>3. record' = [record EXCEPT !.op[d] = o] /\ o \in {"succeeded", "failed"}
  BY DEF Settles, Writes
<1> HIDE DEF o
<1>4. record'.op \in [Dispatches -> Operations] /\ record'.status = record.status
      /\ \A e \in Dispatches : record'.op[e] = IF e = d THEN o ELSE record.op[e]
  BY <1>3 DEF Inv, Types, RecordTypes, Operations
<1>5. \A e \in Dispatches : Pending(e)' <=> Pending(e) /\ e # d
  BY <1>3, <1>4 DEF Pending, Open
<1> QED BY <1>1, <1>2, <1>4, <1>5 DEF o, Quiescent

LEMMA PumpWork ==
  ASSUME Inv, (\E d \in Dispatches : Settles(d)) \/ PumpSteps \/ FailurePauses \/ Looks
  PROVE  WorkInv'
<1> USE MissionHostAssumption
<1>0. Types /\ WorkInv
  BY DEF Inv
<1>1. ASSUME NEW d \in Dispatches, Settles(d) PROVE WorkInv'
  <2>1. UNCHANGED <<job, lease, live, ended, runtime>>
    BY <1>1 DEF Settles, work, turn, sessions
  <2>2. JobsGoOn
    BY <1>0, <1>1, <2>1, SettledTurn DEF JobsGoOn, WorkInv, PendingInv
  <2> QED BY <1>0, <2>1, <2>2, WorkGoesOnPreserves DEF WorkGoesOn, NoTurnBegins
<1>2. CASE Releases
  <2> DEFINE d == pump.of
  <2>1. d \in Dispatches /\ record' = record /\ runtime' = runtime
    BY <1>2 DEF Releases, Inv, PumpInv, sessions
  <2>2. job' \in {job, Turned(job)}
    BY <1>2 DEF Releases, PausesItself, Fences
  <2>3. JobsGoOn
    BY <1>0, <2>1, <2>2, JobsUntouched, SameOperations
  <2>4. CASE live[SessionOf[d]] # d
    <3>1. UNCHANGED turn
      BY <1>2, <2>4 DEF Releases
    <3> QED BY <1>0, <2>1, <2>3, <3>1, WorkGoesOnPreserves DEF WorkGoesOn, NoTurnBegins, turn
  <2>5. CASE live[SessionOf[d]] = d
    <3>1. Forgets(d)
      BY <1>2, <2>5 DEF Releases
    <3>2. ended[d] # "no" /\ runtime[SessionOf[d]] # "turn"
      BY <1>2, <2>5 DEF Releases, Inv, PumpInv
    <3>3. job'[d] # "crossing"
      <4>1. job[d] \notin Active
        BY <1>0, <2>1, <3>2 DEF WorkInv, TurnInv
      <4>2. job'[d] = job[d] \/ job'[d] = "failing"
        BY <1>0, <2>1, <2>2, TurnedTypes DEF Types, WorkTypes
      <4> QED BY <4>1, <4>2 DEF Active, Moving
    <3> HIDE DEF d
    <3> QED BY <1>0, <2>1, <2>3, <2>5, <3>1, <3>2, <3>3, ForgetsPreserves
  <2> QED BY <2>4, <2>5
<1>3. CASE PumpBlocks \/ Notes \/ Stalls \/ PumpGoesOn \/ FailurePauses \/ Looks
  <2>1. UNCHANGED <<lease, live, ended, runtime>> /\ job' \in {job, Turned(job)}
    BY <1>3 DEF PumpBlocks, Notes, Fences, Stalls, PumpGoesOn, FailurePauses, Looks, mission, work,
                turn, sessions
  <2>2. record'.op = record.op \/ record'.op = Recovered(record).op
    BY <1>0, <1>3, BlockedOperations
       DEF PumpBlocks, Notes, Stalls, PumpGoesOn, FailurePauses, Looks, mission, Writes, Types, RecordTypes
  <2>3. \A d \in Dispatches : Pending(d)' <=> Pending(d)
    BY <2>2, SameOperations, RecoveredOperations DEF Pending, Open
  <2>4. JobsGoOn
    BY <1>0, <2>1, <2>3, JobsUntouched
  <2> QED BY <1>0, <2>1, <2>4, WorkGoesOnPreserves DEF WorkGoesOn, NoTurnBegins
<1> QED BY <1>1, <1>2, <1>3 DEF PumpSteps

(* A session that a reconciliation finds quiet: a turn that ended is a success, and it is forgotten. *)
LEMMA StoppedTurn ==
  ASSUME Inv, NEW s \in Sessions, RecStopped(s)
  PROVE  /\ UNCHANGED <<job, runtime, tearing, pump, joins, unknown, ghosts, due, unproven, crashes>>
         /\ record'.status = record.status
         /\ \A c \in Calls : calls'[c].at = calls[c].at
         /\ s \in rec.todo /\ s \notin tearing
         /\ rec.at = "stopping" /\ rec'.at = "stopping" /\ rec'.todo = rec.todo \ {s}
         /\ \/ UNCHANGED <<record, turn>> /\ (rec'.failed \/ (Quiescent(s) /\ live[s] = None))
            \/ /\ live[s] \in Dispatches /\ SessionOf[live[s]] = s /\ Forgets(live[s]) /\ Quiescent(s)
               /\ rec'.failed = rec.failed
               /\ job[live[s]] \notin {"sending", "crossing"}
               /\ \/ UNCHANGED record /\ ~Settled(live[s])
                  \/ /\ Settled(live[s]) /\ job[live[s]] \notin Active \cup {"stopping"}
                     /\ Pending(live[s])
                     /\ record' = [record EXCEPT !.op[live[s]] = "succeeded"]
<1> DEFINE d == live[s]
<1>0. Types /\ rec \in RecType /\ d \in Dispatches \cup {None}
  BY DEF Inv, Types, HostTypes, WorkTypes
<1>1. /\ UNCHANGED <<job, runtime, tearing, pump, joins, unknown, ghosts, due, unproven, crashes>>
      /\ s \in rec.todo /\ s \notin tearing /\ rec.at = "stopping"
  BY DEF RecStopped, sessions, world
<1>2. rec'.at = "stopping" /\ rec'.todo = rec.todo \ {s}
  BY <1>0, <1>1 DEF RecStopped, RecType
<1>3. CASE ~Quiescent(s)
  BY <1>0, <1>1, <1>2, <1>3 DEF RecStopped, RecType
<1>4. CASE Quiescent(s) /\ d = None
  BY <1>0, <1>1, <1>2, <1>4 DEF RecStopped, RecType
<1>5. CASE Quiescent(s) /\ d # None
  <2>1. d \in Dispatches /\ SessionOf[d] = s /\ Forgets(d)
    BY <1>0, <1>5 DEF RecStopped, Inv, WorkInv, LeaseInv
  <2>2. rec'.failed = rec.failed
    BY <1>0, <1>5 DEF RecStopped, RecType
  <2>3. job[d] \notin {"sending", "crossing"}
    BY <1>0, <1>5, <2>1, QuietSession
  <2>4. CASE Settled(d)
    <3>1. Writes([record EXCEPT !.op[d] = "succeeded"])
      BY <1>5, <2>4 DEF RecStopped
    <3>2. record' = [record EXCEPT !.op[d] = "succeeded"] /\ \A c \in Calls : calls'[c].at = calls[c].at
      BY <1>0, <3>1, WritesTypes
    <3>3. job[d] \notin Active \cup {"stopping"} /\ Pending(d)
      BY <2>1, <2>4 DEF Settled, Current, Inv, WorkInv, TurnInv, StoppingInv
    <3>4. record'.status = record.status
      BY <1>0, <3>2 DEF Types, RecordTypes
    <3> QED BY <1>1, <1>2, <1>5, <2>1, <2>2, <2>3, <2>4, <3>2, <3>3, <3>4
  <2>5. CASE ~Settled(d)
    <3>1. UNCHANGED <<record, calls>>
      BY <1>5, <2>5 DEF RecStopped
    <3> QED BY <1>1, <1>2, <1>5, <2>1, <2>2, <2>3, <2>5, <3>1
  <2> QED BY <2>4, <2>5
<1> QED BY <1>3, <1>4, <1>5

LEMMA RecWork == ASSUME Inv, RecSteps PROVE WorkInv'
<1> USE MissionHostAssumption
<1>0. Types /\ WorkInv
  BY DEF Inv
<1>1. CASE RecDrains \/ RecBegins \/ RecProves \/ RecGivesUp \/ RecQuiets
  <2>1. UNCHANGED <<lease, live, ended, runtime>> /\ job' \in {job, Turned(job)}
    BY <1>1 DEF RecDrains, RecBegins, RecProves, RecGivesUp, RecQuiets, mission, work, turn, sessions
  <2>2. record'.op = record.op
    BY <1>0, <1>1 DEF RecDrains, RecBegins, RecProves, RecGivesUp, RecQuiets, mission, Writes,
                      Types, RecordTypes
  <2>3. JobsGoOn
    BY <1>0, <2>1, <2>2, JobsUntouched, SameOperations
  <2> QED BY <1>0, <2>1, <2>3, WorkGoesOnPreserves DEF WorkGoesOn, NoTurnBegins
<1>2. CASE RecUnproven
  <2>1. \A d \in Dispatches : job[d] = "none"
    BY <1>2 DEF RecUnproven, Inv, ClosingInv, UnknownInv
  <2>2. UNCHANGED <<lease, live, ended, runtime>> /\ job' \in {job, Turned(job)}
    BY <1>2 DEF RecUnproven, turn, sessions
  <2>3. \A d \in Dispatches : job'[d] = "none"
    BY <2>1, <2>2 DEF Turned
  <2>4. \A d \in Dispatches : Pending(d)' => Pending(d)
    <3>1. record' = record \/ record'.op = Quit(record.op)
      BY <1>0, <1>2 DEF RecUnproven, Writes, Types, RecordTypes
    <3> QED BY <3>1 DEF Quit, Pending, Open
  <2>5. JobsGoOn
    BY <2>1, <2>3, <2>4 DEF JobsGoOn, Active, Moving
  <2> QED BY <1>0, <2>2, <2>5, WorkGoesOnPreserves DEF WorkGoesOn, NoTurnBegins
<1>3. CASE RecWaits
  <2>1. UNCHANGED <<job, lease, live, ended, runtime>>
    BY <1>3 DEF RecWaits, work, turn, sessions
  <2>2. \A d \in Dispatches : job[d] \notin Active \cup {"stopping"}
    BY <1>0, <1>3 DEF RecWaits, WorkInv, PendingInv, Active, Moving
  <2>3. \A d \in Dispatches : Pending(d)' => Pending(d)
    <3>1. record'.op = Quit(record.op)
      BY <1>0, <1>3 DEF RecWaits, Writes, Types, RecordTypes
    <3> QED BY <3>1 DEF Quit, Pending, Open
  <2>4. JobsGoOn
    BY <2>1, <2>2, <2>3 DEF JobsGoOn
  <2> QED BY <1>0, <2>1, <2>4, WorkGoesOnPreserves DEF WorkGoesOn, NoTurnBegins
<1>4. ASSUME NEW s \in Sessions, RecStopped(s) PROVE WorkInv'
  <2> DEFINE d == live[s]
  <2>1. UNCHANGED <<job, runtime>>
    BY <1>4, StoppedTurn
  <2>2. CASE UNCHANGED <<record, turn>>
    <3>1. JobsGoOn
      BY <1>0, <2>1, <2>2, JobsUntouched, SameOperations
    <3> QED BY <1>0, <2>1, <2>2, <3>1, WorkGoesOnPreserves DEF WorkGoesOn, NoTurnBegins, turn
  <2>3. CASE d \in Dispatches /\ Forgets(d)
    <3>1. /\ SessionOf[d] = s /\ runtime[s] # "turn" /\ job'[d] # "crossing"
      <4>1. Quiescent(s) \/ UNCHANGED <<record, turn>>
        BY <1>4, StoppedTurn
      <4>2. CASE UNCHANGED <<record, turn>>
        <5>1. SessionOf[d] = s /\ d # None
          BY <1>0, <2>3 DEF WorkInv, LeaseInv
        <5>2. live' = live /\ live'[s] = None
          BY <1>0, <2>3, <4>2, <5>1 DEF Forgets, turn, Types, WorkTypes
        <5> QED BY <5>1, <5>2
      <4>3. CASE ~UNCHANGED <<record, turn>>
        BY <1>0, <1>4, <2>1, <4>1, <4>3, StoppedTurn, QuietSession
      <4> QED BY <4>2, <4>3
    <3>2. JobsGoOn
      <4>1. UNCHANGED record \/ (/\ job[d] \notin Active \cup {"stopping"}
                                 /\ record' = [record EXCEPT !.op[d] = "succeeded"])
        BY <1>4, StoppedTurn
      <4>2. \A e \in Dispatches : Pending(e)' <=> Pending(e) /\ (record' = record \/ e # d)
        BY <1>0, <2>3, <4>1 DEF Pending, Types, RecordTypes, Open
      <4> QED BY <1>0, <2>1, <4>1, <4>2 DEF JobsGoOn, WorkInv, PendingInv
    <3> HIDE DEF d
    <3>3. live[SessionOf[d]] = d
      BY <3>1 DEF d
    <3> QED BY <1>0, <2>1, <2>3, <3>1, <3>2, <3>3, ForgetsPreserves
  <2> QED BY <1>4, <2>2, <2>3, StoppedTurn
<1> QED BY <1>1, <1>2, <1>3, <1>4 DEF RecSteps

LEMMA UserWork == ASSUME Inv, NEW c \in Calls, UserSteps(c) PROVE WorkInv'
<1>0. Types /\ WorkInv
  BY DEF Inv
<1>1. UNCHANGED <<lease, live, ended, runtime>> /\ job' \in {job, Turned(job)}
  BY DEF UserSteps, CallSteps, CloseCall, ResumeCall, ResumeReconciles, Commit, CloseGoesOn, ResumeGoesOn,
         Refuse, Fences, work, turn, sessions
<1>2. record'.op = record.op
  BY <1>0 DEF UserSteps, CallSteps, CloseCall, ResumeCall, ResumeReconciles, Commit, CloseGoesOn,
              ResumeGoesOn, Refuse, Types, RecordTypes
<1>3. JobsGoOn
  BY <1>0, <1>1, <1>2, JobsUntouched, SameOperations
<1> QED BY <1>0, <1>1, <1>3, WorkGoesOnPreserves DEF WorkGoesOn, NoTurnBegins

WholeNext ==
  \/ \E d \in Dispatches : Intend(d) \/ JobSteps(d)
  \/ \E s \in Sessions : DisposeEnds(s) \/ Starts(s) \/ TurnEnds(s) \/ Dies(s) \/ GhostEnds(s)
  \/ (\E d \in Dispatches : Settles(d)) \/ PumpSteps \/ FailurePauses \/ Looks
  \/ RecSteps
  \/ \E c \in Calls : UserSteps(c)
  \/ Crash

LEMMA NextParts == Next <=> WholeNext
BY DEF Next, WholeNext, UserSteps

LEMMA TypesStep == ASSUME Inv, Next PROVE Types'
<1>1. Types /\ PumpInv /\ WholeNext
  BY NextParts DEF Inv
<1> QED BY <1>1, JobTypes, TurnTypes, PumpTypes, RecTypes, UserTypes DEF WholeNext

LEMMA WorkStep == ASSUME Inv, Next PROVE WorkInv'
<1>0. Types /\ WorkInv /\ WholeNext
  BY NextParts DEF Inv
<1>1. ASSUME NEW d \in Dispatches, Intend(d) \/ JobSteps(d) PROVE WorkInv'
  BY <1>0, <1>1, IntendPreserves, AdmitPreserves, PreparedPreserves, DeliversPreserves,
     JobThrowsPreserves, FailedWork, SmallJobStepsWork, WorkGoesOnPreserves DEF JobSteps
<1>2. ASSUME NEW s \in Sessions, DisposeEnds(s) \/ Starts(s) \/ TurnEnds(s) \/ Dies(s) \/ GhostEnds(s)
      PROVE  WorkInv'
  BY <1>0, <1>2, TurnEndsPreserves, SessionStepsWork, WorkGoesOnPreserves
<1>3. CASE (\E d \in Dispatches : Settles(d)) \/ PumpSteps \/ FailurePauses \/ Looks
  BY <1>3, PumpWork
<1> QED BY <1>0, <1>1, <1>2, <1>3, RecWork, UserWork, CrashPreserves DEF WholeNext


-----------------------------------------------------------------------------
(* What the steps of jobs, sessions, pump, reconciliation and user leave alone. *)

HostMoves == (\E d \in Dispatches : Settles(d)) \/ PumpSteps \/ FailurePauses \/ Looks \/ RecSteps
             \/ \E c \in Calls : UserSteps(c)

LEMMA HostJobs ==
  ASSUME Types, HostMoves
  PROVE  /\ \A d \in Dispatches : job'[d] = job[d] \/ (job[d] = "queued" /\ job'[d] = "failing")
         /\ UNCHANGED <<runtime, ghosts, crashes>> /\ tearing \subseteq tearing'
<1>1. job' \in {job, Turned(job)}
  <2>1. CASE (\E d \in Dispatches : Settles(d)) \/ PumpSteps \/ FailurePauses \/ Looks
    BY <2>1 DEF PumpSteps, Settles, Releases, PausesItself, Fences, PumpBlocks, Notes, Stalls, PumpGoesOn,
                FailurePauses, Looks, work
  <2>2. CASE RecSteps
    BY <2>2 DEF RecSteps, RecDrains, RecBegins, RecProves, RecUnproven, RecGivesUp, RecWaits, RecQuiets,
                RecStopped, work
  <2>3. CASE \E c \in Calls : UserSteps(c)
    BY <2>3 DEF UserSteps, CallSteps, CloseCall, ResumeCall, ResumeReconciles, Commit, CloseGoesOn,
                ResumeGoesOn, Refuse, Fences, work
  <2> QED BY <2>1, <2>2, <2>3 DEF HostMoves
<1>2. UNCHANGED <<runtime, ghosts, crashes>> /\ tearing \subseteq tearing'
  <2>1. CASE (\E d \in Dispatches : Settles(d)) \/ PumpSteps \/ FailurePauses \/ Looks
    BY <2>1 DEF PumpSteps, Settles, Releases, PumpBlocks, Notes, Stalls, PumpGoesOn,
                FailurePauses, Looks, sessions, world
  <2>2. CASE RecSteps
    BY <2>2 DEF RecSteps, RecDrains, RecBegins, RecStops, Stops, RecProves, RecUnproven, RecGivesUp, RecWaits,
                RecQuiets, RecStopped, sessions, world
  <2>3. CASE \E c \in Calls : UserSteps(c)
    BY <2>3 DEF UserSteps, CallSteps, CloseCall, ResumeCall, ResumeReconciles, Commit, CloseGoesOn,
                ResumeGoesOn, Refuse, sessions, world
  <2> QED BY <2>1, <2>2, <2>3 DEF HostMoves
<1>3. job \in [Dispatches -> Places]
  BY DEF Types, WorkTypes
<1> QED BY <1>1, <1>2, <1>3, TurnedTypes

(* A turn is left to its owner, or forgotten by the pump or the reconciliation. *)
LEMMA HostTurns ==
  ASSUME Inv, HostMoves
  PROVE  UNCHANGED turn \/ \E d \in Dispatches : live[SessionOf[d]] = d /\ Forgets(d)
<1>1. CASE Releases
  BY <1>1 DEF Releases, Inv, PumpInv
<1>2. ASSUME NEW s \in Sessions, RecStopped(s)
      PROVE  UNCHANGED turn \/ \E d \in Dispatches : live[SessionOf[d]] = d /\ Forgets(d)
  BY <1>2, StoppedTurn
<1>3. CASE (\E d \in Dispatches : Settles(d)) \/ PumpBlocks \/ Notes \/ Stalls \/ PumpGoesOn \/ FailurePauses \/ Looks
  BY <1>3 DEF Settles, PumpBlocks, Notes, Stalls, PumpGoesOn, FailurePauses, Looks, work
<1>4. CASE RecDrains \/ RecBegins \/ RecProves \/ RecUnproven \/ RecGivesUp \/ RecWaits \/ RecQuiets
  BY <1>4 DEF RecDrains, RecBegins, RecProves, RecUnproven, RecGivesUp, RecWaits, RecQuiets, work
<1>5. CASE \E c \in Calls : UserSteps(c)
  BY <1>5 DEF UserSteps, CallSteps, CloseCall, ResumeCall, ResumeReconciles, Commit, CloseGoesOn,
              ResumeGoesOn, Refuse, work
<1> QED BY <1>1, <1>2, <1>3, <1>4, <1>5 DEF HostMoves, PumpSteps, RecSteps

LEMMA JobsLeave ==
  ASSUME NEW d \in Dispatches, Intend(d) \/ JobSteps(d)
  PROVE  /\ UNCHANGED <<unknown, pump, rec, joins, ghosts, unproven, crashes>>
         /\ Intend(d) \/ job[d] \in Active \cup {"failing", "stopping", "blocking"}
BY DEF JobSteps, Intend, Admit, Prepared, Marks, Sends, Crosses, Delivers, SendStopped, JobThrows, Fails,
       Failed, Blocks, mission, host, world, Active, Moving

SessionMoves == \E s \in Sessions : DisposeEnds(s) \/ Starts(s) \/ TurnEnds(s) \/ Dies(s) \/ GhostEnds(s)

LEMMA SessionsLeave ==
  ASSUME SessionMoves
  PROVE  /\ UNCHANGED <<record, unknown, lease, live, pump, rec, joins, due, calls, unproven, crashes>>
         /\ ghosts' \subseteq ghosts
BY DEF SessionMoves, DisposeEnds, Starts, TurnEnds, Dies, GhostEnds, mission, work, turn, host, world

LEMMA Moves ==
  ASSUME Next
  PROVE  \/ \E d \in Dispatches : Intend(d) \/ JobSteps(d)
         \/ SessionMoves \/ HostMoves \/ Crash
BY NextParts DEF WholeNext, SessionMoves, HostMoves

LEMMA UnknownStep == ASSUME Inv, Next PROVE UnknownInv'
<1>0. Types /\ WorkInv /\ UnknownInv
  BY DEF Inv
<1>1. CASE Crash
  BY <1>0, <1>1 DEF Crash, UnknownInv, Recovered, IdlePump
<1>2. CASE ~Crash
  <2>1. /\ ghosts' \subseteq ghosts /\ (unknown' => unknown)
        /\ unknown' = unknown \/ ghosts = {}
    <3>1. CASE \E d \in Dispatches : Intend(d) \/ JobSteps(d)
      BY <3>1, JobsLeave
    <3>2. CASE SessionMoves
      BY <3>2, SessionsLeave
    <3>3. CASE HostMoves
      <4>1. unknown' = unknown \/ (unknown' = FALSE /\ ghosts = {})
        BY <3>3 DEF HostMoves, PumpSteps, RecSteps, UserSteps, CallSteps, Settles, Releases, PumpBlocks, Notes,
           Stalls, PumpGoesOn, FailurePauses, Looks, RecDrains, RecBegins, RecProves, RecUnproven, RecGivesUp,
           RecWaits, RecQuiets, RecStopped, CloseCall, ResumeCall, ResumeReconciles, Commit, CloseGoesOn,
           ResumeGoesOn, Refuse, mission
      <4> QED BY <1>0, <3>3, <4>1, HostJobs
    <3> QED BY <1>2, <3>1, <3>2, <3>3, Moves
  <2>2. CASE ~unknown
    BY <1>0, <2>1, <2>2 DEF UnknownInv
  <2>3. CASE unknown /\ ~unknown'
    BY <1>0, <2>1, <2>3 DEF UnknownInv
  <2>4. CASE unknown /\ unknown'
    <3>0. /\ record.status \in {"stopping", "recovering", "stopped"}
          /\ \A d \in Dispatches : job[d] = "none" /\ lease[d] = "none" /\ ended[d] = "no"
          /\ \A s \in Sessions : live[s] = None /\ runtime[s] = "off"
          /\ tearing = {} /\ pump.at = "idle" /\ ~due
      BY <1>0, <2>4 DEF UnknownInv
    <3>1. ~\E d \in Dispatches : Intend(d) \/ JobSteps(d)
      BY <3>0, JobsLeave DEF Intend, Active, Moving
    <3>2. CASE SessionMoves
      <4>1. UNCHANGED <<record, job, lease, live, ended, runtime, tearing, pump, due>>
        BY <3>0, <3>2 DEF SessionMoves, DisposeEnds, Starts, TurnEnds, Dies, GhostEnds,
                          mission, work, turn, sessions, host
      <4> QED BY <3>0, <4>1, <2>1, <2>4 DEF UnknownInv
    <3>3. CASE HostMoves
      <4>0. ~PumpSteps /\ ~FailurePauses /\ ~\E d \in Dispatches : Settles(d)
        <5>1. ~\E d \in Dispatches : Settles(d)
          <6>1. ~\E d \in Dispatches : live[SessionOf[d]] = d
            BY MissionHostAssumption, <3>0
          <6> QED BY <6>1 DEF Settles
        <5> QED BY <3>0, <5>1 DEF PumpSteps, Releases, PumpBlocks, Notes, Stalls, PumpGoesOn, FailurePauses
      <4>1. \A d \in Dispatches : job'[d] = "none"
        BY <1>0, <3>0, <3>3, HostJobs
      <4>2. UNCHANGED turn /\ runtime' = runtime
        <5>1. ~\E d \in Dispatches : live[SessionOf[d]] = d
          BY MissionHostAssumption, <3>0
        <5> QED BY <1>0, <3>3, <5>1, HostJobs, HostTurns
      <4>3. record'.status \in {"stopping", "recovering", "stopped"}
        <5>1. CASE Looks
          BY <3>0, <5>1 DEF Looks, mission
        <5>2. CASE RecSteps
          <6>1. ~AllQuiet
            BY <2>4 DEF AllQuiet
          <6>2. record' \in {record, [record EXCEPT !.op = Quit(@)],
                             [record EXCEPT !.status = "stopped", !.op = Quit(@)]}
                \/ \E d \in Dispatches : record' = [record EXCEPT !.op[d] = "succeeded"]
            <7>1. ASSUME NEW s \in Sessions, RecStopped(s)
                  PROVE  record' = record \/ \E d \in Dispatches : record' = [record EXCEPT !.op[d] = "succeeded"]
              BY <7>1, StoppedTurn
            <7> QED BY <5>2, <6>1, <7>1 DEF RecSteps, RecDrains, RecBegins, RecProves, RecUnproven, RecGivesUp,
                       RecWaits, RecQuiets, mission, Writes
          <6> QED BY <1>0, <3>0, <6>2 DEF Types, RecordTypes
        <5>3. ASSUME NEW c \in Calls, UserSteps(c) PROVE record'.status \in {"stopping", "recovering", "stopped"}
          <6>1. record' = record \/ (/\ calls[c].action \in {"pause", "stop", "resume"}
                                     /\ calls[c].action = "stop"
                                     /\ record' = [record EXCEPT !.status = "stopping", !.own = {}])
            BY <1>0, <3>0, <5>3 DEF UserSteps, CallSteps, CloseCall, ResumeCall, ResumeReconciles, Commit, CloseGoesOn,
                ResumeGoesOn, Refuse, After, Types, HostTypes, CallType
          <6> QED BY <1>0, <3>0, <6>1 DEF Types, RecordTypes
        <5> QED BY <3>3, <4>0, <5>1, <5>2, <5>3 DEF HostMoves
      <4>4. UNCHANGED <<tearing, pump, due>>
        <5>1. CASE Looks
          BY <3>0, <5>1 DEF Looks, sessions
        <5>2. CASE RecSteps
          BY <2>4, <3>0, <5>2 DEF RecSteps, RecDrains, RecBegins, RecProves, RecUnproven, RecGivesUp,
             RecWaits, RecQuiets, RecStopped, sessions
        <5>3. CASE \E c \in Calls : UserSteps(c)
          BY <3>0, <5>3 DEF UserSteps, CallSteps, CloseCall, ResumeCall, ResumeReconciles, Commit, CloseGoesOn,
             ResumeGoesOn, Refuse, sessions, host
        <5> QED BY <3>3, <4>0, <5>1, <5>2, <5>3 DEF HostMoves
      <4>5. \A d \in Dispatches : lease'[d] = "none" /\ ended'[d] = "no"
        BY <3>0, <4>2 DEF turn
      <4>6. \A s \in Sessions : live'[s] = None /\ runtime'[s] = "off"
        BY <3>0, <4>2 DEF turn
      <4> QED BY <2>1, <2>4, <3>0, <4>1, <4>3, <4>4, <4>5, <4>6 DEF UnknownInv
    <3> QED BY <1>2, <3>1, <3>2, <3>3, Moves
  <2> QED BY <2>2, <2>3, <2>4
<1> QED BY <1>1, <1>2

(* Only an open operation goes on, and only a new one is begun. *)
LEMMA SettledStays ==
  ASSUME Inv, Next, NEW e \in Dispatches, ~Pending(e), ~Intend(e)
  PROVE  record'.op[e] = record.op[e]
<1> USE MissionHostAssumption
<1>0. /\ Types /\ record.op[e] \notin Open
      /\ \A d \in Dispatches : job[d] \in Active \cup {"stopping"} => Pending(d)
  BY DEF Inv, WorkInv, PendingInv, Pending
<1>1. ASSUME NEW d \in Dispatches, Intend(d) \/ JobSteps(d) PROVE record'.op[e] = record.op[e]
  <2>1. CASE Failed(d)
    BY <1>0, <2>1, FailedSteps DEF FailsFor, Current, Pending, Types, RecordTypes
  <2>2. CASE Blocks(d)
    BY <1>0, <2>2, BlockedOperations DEF Blocks, Writes
  <2>3. CASE Intend(d)
    <3>1. d # e /\ record' = [record EXCEPT !.op[d] = "intent", !.own = @ \cup {d}]
      BY <2>3 DEF Intend, Writes
    <3> QED BY <1>0, <3>1 DEF Types, RecordTypes
  <2>4. CASE Admit(d) \/ Prepared(d)
    <3>1. record' = record \/ (record.op[d] = "intent" /\ record' = [record EXCEPT !.op[d] = "in_flight"])
      BY <2>4 DEF Admit, Prepared, Writes
    <3> QED BY <1>0, <3>1 DEF Types, RecordTypes, Open
  <2>5. CASE Marks(d) \/ Sends(d) \/ Crosses(d) \/ Delivers(d) \/ SendStopped(d) \/ JobThrows(d) \/ Fails(d)
    BY <2>5 DEF Marks, Sends, Crosses, Delivers, SendStopped, JobThrows, Fails, Writes, mission
  <2> QED BY <1>1, <2>1, <2>2, <2>3, <2>4, <2>5 DEF JobSteps
<1>2. CASE SessionMoves
  BY <1>2, SessionsLeave
<1>3. CASE HostMoves
  <2>1. ASSUME NEW d \in Dispatches, Settles(d) PROVE record'.op[e] = record.op[e]
    BY <2>1, SettledTurn DEF Pending
  <2>2. ASSUME NEW s \in Sessions, RecStopped(s) PROVE record'.op[e] = record.op[e]
    <3>1. record' = record \/ (/\ live[s] \in Dispatches /\ Pending(live[s])
                               /\ record' = [record EXCEPT !.op[live[s]] = "succeeded"])
      BY <2>2, StoppedTurn
    <3> QED BY <1>0, <3>1 DEF Types, RecordTypes, Pending
  <2>3. CASE PumpSteps \/ FailurePauses \/ Looks
    <3>1. record'.op = record.op \/ record'.op = Recovered(record).op
      BY <1>0, <2>3, BlockedOperations
         DEF PumpSteps, Releases, PumpBlocks, Notes, Stalls, PumpGoesOn, FailurePauses, Looks, mission, Writes,
             Types, RecordTypes
    <3> QED BY <1>0, <3>1, RecoveredOperations
  <2>4. CASE RecDrains \/ RecBegins \/ RecProves \/ RecUnproven \/ RecGivesUp \/ RecWaits \/ RecQuiets
    <3>1. record'.op = record.op \/ record'.op = Quit(record.op)
      BY <1>0, <2>4 DEF RecDrains, RecBegins, RecProves, RecUnproven, RecGivesUp, RecWaits, RecQuiets,
                        mission, Writes, Types, RecordTypes
    <3> QED BY <1>0, <3>1 DEF Quit
  <2>5. CASE \E c \in Calls : UserSteps(c)
    BY <1>0, <2>5 DEF UserSteps, CallSteps, CloseCall, ResumeCall, ResumeReconciles, Commit, CloseGoesOn,
                      ResumeGoesOn, Refuse, Types, RecordTypes
  <2> QED BY <1>3, <2>1, <2>2, <2>3, <2>4, <2>5 DEF HostMoves, RecSteps
<1>4. CASE Crash
  <2>1. record'.op = record.op \/ record'.op = Recovered(record).op
    BY <1>4 DEF Crash, Recovered
  <2> QED BY <1>0, <2>1, RecoveredOperations
<1> QED BY <1>1, <1>2, <1>3, <1>4, Moves

(* A session's turn is entered by its job, and keeps its end and its mark until it is forgotten. *)
Kept(e) == /\ live[SessionOf[e]] = e
           /\ ended[e] # "no" => ended'[e] = ended[e]
           /\ e \in broken => e \in broken'

LEMMA ForgottenKeeps ==
  ASSUME Types, NEW d \in Dispatches, live[SessionOf[d]] = d, Forgets(d),
         NEW e \in Dispatches, live'[SessionOf[e]] = e
  PROVE  Kept(e)
<1> USE MissionHostAssumption
<1>1. SessionOf[e] # SessionOf[d]
  BY DEF Forgets, Types, WorkTypes
<1> QED BY <1>1 DEF Kept, Forgets, Types, WorkTypes

LEMMA TurnKept ==
  ASSUME Inv, Next, ~Crash, NEW e \in Dispatches, live'[SessionOf[e]] = e
  PROVE  Kept(e) \/ Prepared(e)
<1> USE MissionHostAssumption
<1>0. Types
  BY DEF Inv
<1>1. ASSUME NEW d \in Dispatches, Intend(d) \/ JobSteps(d) PROVE Kept(e) \/ Prepared(e)
  <2>1. CASE Failed(d)
    <3>1. UNCHANGED turn \/ (live[SessionOf[d]] = d /\ Forgets(d))
      BY <2>1, FailedSteps DEF FailsFor, turn
    <3> QED BY <1>0, <3>1, ForgottenKeeps DEF Kept, turn
  <2>2. CASE Prepared(d)
    BY <1>0, <2>2 DEF Prepared, Kept, Types, WorkTypes
  <2>3. CASE Fails(d)
    BY <2>3 DEF Fails, Kept
  <2>4. CASE Intend(d) \/ Admit(d) \/ Marks(d) \/ Sends(d) \/ Crosses(d) \/ Delivers(d) \/ SendStopped(d)
             \/ JobThrows(d) \/ Blocks(d)
    BY <2>4 DEF Intend, Admit, Marks, Sends, Crosses, Delivers, SendStopped, JobThrows, Blocks, Kept, turn
  <2> QED BY <1>1, <2>1, <2>2, <2>3, <2>4 DEF JobSteps
<1>2. CASE SessionMoves
  BY <1>0, <1>2 DEF SessionMoves, DisposeEnds, Starts, TurnEnds, Dies, GhostEnds, work, turn, Kept,
                    Types, WorkTypes
<1>3. CASE HostMoves
  BY <1>0, <1>3, HostTurns, ForgottenKeeps DEF Kept, turn
<1> QED BY <1>1, <1>2, <1>3, Moves

LEMMA TurnBegins ==
  ASSUME Inv, Next, NEW s \in Sessions, runtime'[s] = "turn"
  PROVE  runtime[s] = "turn" \/ \E d \in Dispatches : Delivers(d) /\ SessionOf[d] = s
<1>0. Types
  BY DEF Inv
<1>1. ASSUME NEW d \in Dispatches, Intend(d) \/ JobSteps(d)
      PROVE  runtime[s] = "turn" \/ (Delivers(d) /\ SessionOf[d] = s)
  BY <1>0, <1>1, MissionHostAssumption
     DEF JobSteps, Intend, Admit, Prepared, Marks, Sends, Crosses, Delivers, SendStopped, JobThrows, Fails,
         Failed, Blocks, sessions, Types, SessionTypes
<1>2. CASE SessionMoves
  BY <1>0, <1>2 DEF SessionMoves, DisposeEnds, Starts, TurnEnds, Dies, GhostEnds, sessions, Types, SessionTypes
<1>3. CASE HostMoves
  BY <1>0, <1>3, HostJobs
<1>4. CASE Crash
  BY <1>4 DEF Crash
<1> QED BY <1>1, <1>2, <1>3, <1>4, Moves

LEMMA PumpStep == ASSUME Inv, Next PROVE PumpInv'
<1> USE MissionHostAssumption
<1>0. Types /\ WorkInv /\ PumpInv
  BY DEF Inv
<1>1. ASSUME NEW d \in Dispatches, Settles(d) PROVE PumpInv'
  <2>1. /\ pump' = [at |-> "settled", of |-> d] /\ UNCHANGED <<live, ended, runtime>>
        /\ ended[d] # "no" /\ runtime[SessionOf[d]] # "turn"
        /\ ~Pending(d)' /\ record'.op[d] \in {"succeeded", "failed"}
    <3>1. pump' = [at |-> "settled", of |-> d] /\ UNCHANGED <<live, ended, runtime>>
      BY <1>1 DEF Settles, work, turn, sessions
    <3> QED BY <1>1, <3>1, SettledTurn
  <2> QED BY <2>1 DEF PumpInv
<1>2. ASSUME ~\E d \in Dispatches : Settles(d), pump'.at = "settled" PROVE PumpInv'
  <2>0. ~Crash
    <3>1. Crash => pump' = IdlePump
      BY DEF Crash
    <3> QED BY <1>2, <3>1 DEF IdlePump
  <2>1. pump' = pump
    <3>1. CASE \E d \in Dispatches : Intend(d) \/ JobSteps(d)
      BY <3>1, JobsLeave
    <3>2. CASE SessionMoves
      BY <3>2, SessionsLeave
    <3>3. CASE PumpSteps
      <4>1. pump' \in {IdlePump} \cup {[pump EXCEPT !.at = at] : at \in {"blocking", "noting", "stalled", "waiting"}}
        BY <3>3 DEF PumpSteps, Releases, PumpBlocks, Notes, Stalls, PumpGoesOn
      <4>2. pump'.at # "settled"
        BY <1>0, <4>1 DEF IdlePump, Types, HostTypes
      <4> QED BY <1>2, <4>2
    <3>4. CASE FailurePauses \/ Looks \/ RecSteps \/ \E c \in Calls : UserSteps(c)
      BY <3>4 DEF FailurePauses, Looks, RecSteps, RecDrains, RecBegins, RecProves, RecUnproven, RecGivesUp,
         RecWaits, RecQuiets, RecStopped, UserSteps, CallSteps, CloseCall, ResumeCall, ResumeReconciles, Commit,
         CloseGoesOn, ResumeGoesOn, Refuse, host
    <3> QED BY <1>2, <2>0, <3>1, <3>2, <3>3, <3>4, Moves DEF HostMoves
  <2>2. PICK d \in Dispatches :
        /\ d = pump.of /\ ~Pending(d) /\ record.op[d] # "none"
        /\ live[SessionOf[d]] = d => ended[d] # "no" /\ runtime[SessionOf[d]] # "turn"
    BY <1>0, <1>2, <2>1 DEF PumpInv
  <2>3. record'.op[d] = record.op[d] /\ ~Pending(d)'
    <3>1. ~Intend(d)
      BY <2>2 DEF Intend
    <3>2. record'.op[d] = record.op[d]
      BY <2>2, <3>1, SettledStays
    <3> QED BY <2>2, <3>2 DEF Pending
  <2>4. ASSUME live'[SessionOf[d]] = d PROVE ended'[d] # "no" /\ runtime'[SessionOf[d]] # "turn"
    <3>1. ~Prepared(d)
      BY <1>0, <2>2 DEF Prepared, WorkInv, PendingInv, Active
    <3>2. Kept(d)
      BY <2>0, <2>2, <2>4, <3>1, TurnKept
    <3>3. ended[d] # "no" /\ runtime[SessionOf[d]] # "turn" /\ live[SessionOf[d]] = d /\ ended'[d] = ended[d]
      BY <2>2, <3>2 DEF Kept
    <3>4. ASSUME NEW e \in Dispatches, Delivers(e), SessionOf[e] = SessionOf[d] PROVE FALSE
      <4>1. e = d /\ job[d] = "crossing"
        BY <1>0, <3>3, <3>4 DEF Delivers, WorkInv, JobInv
      <4> QED BY <1>0, <2>2, <3>3, <4>1 DEF WorkInv, TurnInv, Active, Moving
    <3> QED BY <2>2, <3>3, <3>4, TurnBegins
  <2>5. pump'.of = d
    BY <2>1, <2>2
  <2> QED BY <2>2, <2>3, <2>4, <2>5 DEF PumpInv
<1>3. CASE pump'.at # "settled"
  BY <1>3 DEF PumpInv
<1> QED BY <1>1, <1>2, <1>3

(* A session stays stopped for a failure, until the teardown has ended. *)
DownGoesOn ==
  \A d \in Dispatches : job'[d] = "stopping" =>
    /\ job[d] = "stopping"
    /\ live'[SessionOf[d]] = d => live[SessionOf[d]] = d /\ (d \in broken => d \in broken')
    /\ SessionOf[d] \notin tearing' =>
         \/ SessionOf[d] \in tearing /\ runtime'[SessionOf[d]] \in {"off", "stuck"}
         \/ /\ SessionOf[d] \notin tearing
            /\ runtime[SessionOf[d]] \in {"off", "stuck"} => runtime'[SessionOf[d]] \in {"off", "stuck"}

LEMMA DownStep == ASSUME StoppingInv, DownGoesOn PROVE StoppingInv'
BY DEF StoppingInv, DownGoesOn

LEMMA StoppingStep == ASSUME Inv, Next PROVE StoppingInv'
<1> USE MissionHostAssumption
<1>0. Types /\ WorkInv /\ StoppingInv
  BY DEF Inv
<1>1. ASSUME NEW e \in Dispatches, ~Crash, job[e] = "stopping", live'[SessionOf[e]] = e
      PROVE  live[SessionOf[e]] = e /\ (e \in broken => e \in broken')
  <2>1. ~Prepared(e)
    BY <1>1 DEF Prepared
  <2> QED BY <1>1, <2>1, TurnKept DEF Kept
<1>2. ASSUME ~Crash, ~\E d \in Dispatches : Fails(d), NEW e \in Dispatches, job'[e] = "stopping"
      PROVE  job[e] = "stopping"
  <2>1. ASSUME NEW d \in Dispatches, Intend(d) \/ JobSteps(d) PROVE job[e] = "stopping"
    <3>1. CASE Failed(d)
      BY <1>2, <3>1, FailedSteps
    <3>2. CASE Blocks(d)
      BY <1>0, <1>2, <3>2 DEF Blocks, Fences, Turned, Types, WorkTypes
    <3>3. CASE Intend(d) \/ Admit(d) \/ Prepared(d) \/ Marks(d) \/ Sends(d) \/ Crosses(d) \/ Delivers(d)
               \/ SendStopped(d) \/ JobThrows(d)
      BY <1>0, <1>2, <3>3 DEF Intend, Admit, Prepared, Marks, Sends, Crosses, Delivers, SendStopped, JobThrows,
                              GivesUp, Goes, Types, WorkTypes
    <3> QED BY <1>2, <2>1, <3>1, <3>2, <3>3 DEF JobSteps
  <2>2. CASE SessionMoves
    BY <1>0, <1>2, <2>2 DEF SessionMoves, DisposeEnds, Starts, TurnEnds, Dies, GhostEnds, Goes, work,
                            Types, WorkTypes
  <2>3. CASE HostMoves
    BY <1>0, <1>2, <2>3, HostJobs
  <2> QED BY <1>2, <2>1, <2>2, <2>3, Moves
<1>3. ASSUME ~Crash, ~\E d \in Dispatches : Fails(d), NEW e \in Dispatches, job[e] = "stopping",
             SessionOf[e] \notin tearing'
      PROVE  \/ SessionOf[e] \in tearing /\ runtime'[SessionOf[e]] \in {"off", "stuck"}
             \/ /\ SessionOf[e] \notin tearing
                /\ runtime[SessionOf[e]] \in {"off", "stuck"} => runtime'[SessionOf[e]] \in {"off", "stuck"}
  <2>1. ASSUME NEW d \in Dispatches, Intend(d) \/ JobSteps(d)
        PROVE  /\ SessionOf[e] \notin tearing
               /\ runtime[SessionOf[e]] \in {"off", "stuck"} => runtime'[SessionOf[e]] \in {"off", "stuck"}
    <3>1. CASE Sends(d)
      <4>1. SessionOf[d] # SessionOf[e]
        BY <1>0, <1>3, <3>1 DEF Sends, WorkInv, PendingInv, Active, Moving
      <4> QED BY <1>0, <1>3, <3>1, <4>1 DEF Sends, Types, SessionTypes
    <3>2. CASE Prepared(d)
      BY <1>3, <3>2 DEF Prepared, Stops
    <3>3. CASE Delivers(d)
      BY <1>0, <1>3, <3>3 DEF Delivers, MaySend, Types, SessionTypes
    <3>4. CASE Intend(d) \/ Admit(d) \/ Marks(d) \/ Crosses(d) \/ SendStopped(d) \/ JobThrows(d) \/ Failed(d) \/ Blocks(d)
      BY <1>3, <3>4 DEF Intend, Admit, Marks, Crosses, SendStopped, JobThrows, Failed, Blocks, sessions
    <3> QED BY <1>3, <2>1, <3>1, <3>2, <3>3, <3>4 DEF JobSteps
  <2>2. ASSUME NEW s \in Sessions, DisposeEnds(s)
        PROVE  \/ SessionOf[e] \in tearing /\ runtime'[SessionOf[e]] \in {"off", "stuck"}
               \/ SessionOf[e] \notin tearing /\ runtime'[SessionOf[e]] = runtime[SessionOf[e]]
    BY <1>0, <1>3, <2>2 DEF DisposeEnds, Types, SessionTypes
  <2>3. ASSUME NEW s \in Sessions, Starts(s) \/ TurnEnds(s) \/ Dies(s) \/ GhostEnds(s)
        PROVE  /\ SessionOf[e] \notin tearing
               /\ runtime[SessionOf[e]] \in {"off", "stuck"} => runtime'[SessionOf[e]] \in {"off", "stuck"}
    BY <1>0, <1>3, <2>3 DEF Starts, TurnEnds, Dies, GhostEnds, sessions, Types, SessionTypes
  <2>4. CASE HostMoves
    BY <1>0, <1>3, <2>4, HostJobs
  <2> QED BY <1>3, <2>1, <2>2, <2>3, <2>4, Moves DEF SessionMoves
<1>4. ASSUME ~Crash, ~\E d \in Dispatches : Fails(d) PROVE StoppingInv'
  <2>1. DownGoesOn
    BY <1>1, <1>2, <1>3, <1>4 DEF DownGoesOn
  <2> QED BY <1>0, <2>1, DownStep
<1>5. ASSUME ~Crash, NEW d \in Dispatches, Fails(d) PROVE StoppingInv'
  <2>1. /\ UNCHANGED <<live, runtime>> /\ broken \subseteq broken' /\ tearing \subseteq tearing'
        /\ job[d] = "failing"
        /\ \A e \in Dispatches : job'[e] = job[e] \/ e = d
    BY <1>0, <1>5 DEF Fails, Stops, Goes, Types, WorkTypes
  <2>2. ASSUME job'[d] = "stopping"
        PROVE  /\ live[SessionOf[d]] = d => d \in broken'
               /\ SessionOf[d] \notin tearing' => runtime[SessionOf[d]] = "off"
    BY <1>0, <1>5, <2>2 DEF Fails, Stops, Goes, Types, WorkTypes
  <2> QED BY <1>0, <2>1, <2>2 DEF StoppingInv
<1>6. CASE Crash
  BY <1>6 DEF Crash, StoppingInv
<1> QED BY <1>4, <1>5, <1>6

-----------------------------------------------------------------------------
(* Reconciliations and the status they work on. *)

(* The status changes only while no committed control call is on its way. *)
CallsGoOn ==
  /\ \A c \in Calls : calls'[c].at = calls[c].at
  /\ record'.status = record.status \/ \A c \in Calls : calls[c].at \notin Committed

LEMMA WritesGoOn == ASSUME Types, NEW r, Writes(r) PROVE CallsGoOn
BY WritesTypes DEF CallsGoOn

LEMMA CallsStay == ASSUME UNCHANGED calls, record'.status = record.status PROVE CallsGoOn
BY DEF CallsGoOn

LEMMA CommittedStays ==
  ASSUME ClosingInv, CallsGoOn
  PROVE  \A c \in Calls : calls'[c].at \in {"pausing", "stopping"} => record'.status = calls'[c].at
BY DEF ClosingInv, CallsGoOn, Committed

LEMMA JobCalls == ASSUME Inv, NEW d \in Dispatches, Intend(d) \/ JobSteps(d) PROVE CallsGoOn
<1>0. Types
  BY DEF Inv
<1>1. (\E r : Writes(r)) \/ (UNCHANGED calls /\ record'.status = record.status)
  <2>1. CASE Failed(d)
    BY <2>1 DEF Failed
  <2>2. CASE Intend(d) \/ Admit(d) \/ Prepared(d) \/ Marks(d) \/ Crosses(d) \/ Blocks(d)
    <3>1. (\E r : Writes(r)) \/ UNCHANGED <<record, calls>>
      BY <2>2 DEF Intend, Admit, Prepared, Marks, Crosses, Blocks
    <3> QED BY <3>1
  <2>3. CASE Sends(d) \/ Delivers(d) \/ SendStopped(d) \/ JobThrows(d) \/ Fails(d)
    BY <2>3 DEF Sends, Delivers, SendStopped, JobThrows, Fails, mission
  <2> QED BY <2>1, <2>2, <2>3 DEF JobSteps
<1> QED BY <1>0, <1>1, WritesGoOn, CallsStay

LEMMA JobStatus ==
  ASSUME Inv, NEW d \in Dispatches, Intend(d) \/ JobSteps(d)
  PROVE  record'.status = record.status \/ (Blocks(d) /\ record' = Blocked)
<1>0. Types
  BY DEF Inv
<1>1. CASE Failed(d)
  <2>1. record' = record \/ record' = [record EXCEPT !.op[d] = "failed"]
    BY <1>1, FailedSteps DEF FailsFor
  <2> QED BY <1>0, <2>1 DEF Types, RecordTypes
<1>2. CASE Blocks(d)
  BY <1>2 DEF Blocks, Writes
<1>3. CASE Intend(d)
  BY <1>0, <1>3 DEF Intend, Writes, Types, RecordTypes
<1>4. CASE Admit(d) \/ Prepared(d)
  <2>1. record' = record \/ record' = [record EXCEPT !.op[d] = "in_flight"]
    BY <1>4 DEF Admit, Prepared, Writes
  <2> QED BY <1>0, <2>1 DEF Types, RecordTypes
<1>5. CASE Marks(d) \/ Sends(d) \/ Crosses(d) \/ Delivers(d) \/ SendStopped(d) \/ JobThrows(d) \/ Fails(d)
  BY <1>5 DEF Marks, Sends, Crosses, Delivers, SendStopped, JobThrows, Fails, Writes, mission
<1> QED BY <1>1, <1>2, <1>3, <1>4, <1>5 DEF JobSteps

LEMMA BlockedStatus ==
  ASSUME Types
  PROVE  /\ Blocked.status = IF record.status \in Closed THEN record.status ELSE "blocked"
BY DEF Blocked, Types, RecordTypes

LEMMA ClosingStays ==
  ASSUME ClosingInv, CallsGoOn, UNCHANGED <<rec, joins>>, rec.at = "asking" => unknown',
         pump'.at = pump.at \/ (pump.at # "waiting" /\ pump'.at # "stalled"),
         \/ record'.status = record.status
         \/ record'.status = "pausing" /\ record.status \in {"running", "blocked", "pausing", "paused"}
         \/ record'.status = "blocked" /\ record.status \notin Closed
  PROVE  ClosingInv'
<1>1. rec.at # "none" => record'.status \in Closing \cup {"stopped", "blocked"} \/ pump'.at = "waiting"
  BY DEF ClosingInv, Closing, Closed
<1>2. /\ rec.at = "begin" => pump'.at # "stalled"
      /\ rec.at \in Deep => record'.status \in Closing /\ pump'.at # "stalled"
      /\ joins # {} => rec.at # "none"
  BY DEF ClosingInv, Closing, Closed
<1>3. \A j \in joins : ~j.drain => pump'.at = "waiting"
  BY DEF ClosingInv
<1>4. \A c \in Calls : calls'[c].at \in {"pausing", "stopping"} => record'.status = calls'[c].at
  BY CommittedStays
<1> QED BY <1>1, <1>2, <1>3, <1>4 DEF ClosingInv

LEMMA ReconcilesGoes ==
  ASSUME NEW restart \in BOOLEAN, NEW drain \in BOOLEAN, Reconciles(restart, drain)
  PROVE  \/ rec.at = "none" /\ rec'.at = (IF drain THEN "drain" ELSE "begin") /\ UNCHANGED joins
         \/ rec.at # "none" /\ UNCHANGED rec /\ joins' # {} /\ \A j \in joins' : j \in joins \/ j.drain = drain
<1> DEFINE j == [status |-> record'.status, restart |-> restart, drain |-> drain]
<1>1. CASE rec.at = "none"
  BY <1>1, RecOfTypes DEF Reconciles
<1>2. CASE rec.at # "none"
  <2>1. joins' = joins \cup {j} /\ UNCHANGED rec
    BY <1>2 DEF Reconciles
  <2>2. j.drain = drain
    OBVIOUS
  <2> HIDE DEF j
  <2> QED BY <1>2, <2>1, <2>2
<1> QED BY <1>1, <1>2

(* A reconciliation starts on a closing Mission, or the pump waits for it. *)
LEMMA ClosingStarts ==
  ASSUME ClosingInv, NEW restart \in BOOLEAN, NEW drain \in BOOLEAN, Reconciles(restart, drain),
         drain \/ pump'.at = "waiting", pump'.at = pump.at \/ (pump.at = "stalled" /\ pump'.at = "waiting"),
         record'.status \in Closing \cup {"stopped"} \/ pump'.at = "waiting",
         record.status \in Closing => record'.status \in Closing \/ pump.at = "stalled",
         unknown' = unknown,
         \A c \in Calls : calls'[c].at \in {"pausing", "stopping"} => record'.status = calls'[c].at
  PROVE  ClosingInv'
<1>1. CASE rec.at = "none"
  <2>1. joins' = {} /\ rec'.at = IF drain THEN "drain" ELSE "begin"
    BY <1>1, ReconcilesGoes DEF ClosingInv
  <2> QED BY <2>1 DEF ClosingInv, Deep
<1>2. CASE rec.at # "none"
  <2>1. UNCHANGED rec /\ \A j \in joins' : j \in joins \/ j.drain = drain
    BY <1>2, ReconcilesGoes
  <2>2. \A j \in joins' : ~j.drain => pump'.at = "waiting"
    BY <2>1 DEF ClosingInv
  <2>3. rec.at \in Deep => record'.status \in Closing /\ pump'.at # "stalled"
    BY DEF ClosingInv
  <2>4. /\ rec.at = "begin" => pump'.at # "stalled"
        /\ rec.at = "asking" => unknown'
    BY DEF ClosingInv
  <2> QED BY <1>2, <2>1, <2>2, <2>3, <2>4 DEF ClosingInv
<1> QED BY <1>1, <1>2

LEMMA ClosingEnds ==
  ASSUME Types, ClosingInv, RecEnds, CallsGoOn, UNCHANGED pump
  PROVE  ClosingInv'
<1>1. rec'.at = "begin" => pump.at = "waiting"
  BY RecEndsTypes DEF ClosingInv
<1>2. /\ joins' = {}
      /\ rec'.at = "none" \/ (rec'.at \in {"drain", "begin"} /\ record'.status \in Closing)
  BY RecEndsTypes
<1> QED BY <1>1, <1>2, CommittedStays DEF ClosingInv, Deep

LEMMA ClosingPump ==
  ASSUME Inv, (\E d \in Dispatches : Settles(d)) \/ PumpSteps \/ FailurePauses \/ Looks
  PROVE  ClosingInv'
<1>0. Types /\ ClosingInv
  BY DEF Inv
<1>1. ASSUME NEW d \in Dispatches, Settles(d) PROVE ClosingInv'
  <2>1. /\ UNCHANGED <<rec, joins, unknown>> /\ pump.at = "idle" /\ pump'.at = "settled"
        /\ record'.status = record.status
    <3>1. record'.status = record.status
      BY <1>1, SettledTurn
    <3> QED BY <1>1, <3>1 DEF Settles
  <2>2. CallsGoOn
    BY <1>0, <1>1, WritesGoOn DEF Settles
  <2> QED BY <1>0, <2>1, <2>2, ClosingStays DEF ClosingInv
<1>2. CASE Releases
  <2>1. UNCHANGED <<rec, joins, unknown, record, calls>> /\ pump.at = "settled"
    BY <1>2 DEF Releases
  <2>2. pump'.at \in {"idle", "blocking", "noting"}
    BY <1>0, <1>2 DEF Releases, IdlePump, Types, HostTypes
  <2> QED BY <1>0, <2>1, <2>2, ClosingStays, CallsStay DEF ClosingInv
<1>3. CASE PumpBlocks
  <2>1. /\ UNCHANGED <<rec, joins, unknown>> /\ pump.at = "blocking" /\ pump'.at = "idle"
        /\ record' = Blocked
    BY <1>3 DEF PumpBlocks, IdlePump, Writes
  <2>2. CallsGoOn
    BY <1>0, <1>3, WritesGoOn DEF PumpBlocks
  <2>3. record'.status = record.status \/ (record'.status = "blocked" /\ record.status \notin Closed)
    BY <1>0, <2>1, BlockedStatus
  <2> QED BY <1>0, <2>1, <2>2, <2>3, ClosingStays DEF ClosingInv
<1>4. CASE Notes
  <2>1. UNCHANGED <<rec, joins, unknown, record, calls>> /\ pump.at = "noting"
    BY <1>4 DEF Notes
  <2>2. pump'.at = "idle" \/ (pump'.at = "stalled" /\ record.status = "running")
    BY <1>0, <1>4 DEF Notes, IdlePump, Types, HostTypes
  <2>3. CASE pump'.at = "idle"
    BY <1>0, <2>1, <2>3, ClosingStays, CallsStay DEF ClosingInv
  <2>4. CASE pump'.at = "stalled" /\ record.status = "running"
    <3>1. rec.at = "none" /\ joins = {}
      BY <1>0, <2>1, <2>4 DEF ClosingInv, Closing
    <3> QED BY <1>0, <2>1, <3>1 DEF ClosingInv, Deep
  <2> QED BY <2>2, <2>3, <2>4
<1>5. CASE Stalls
  <2>1. Reconciles(FALSE, FALSE) /\ pump.at = "stalled" /\ pump'.at = "waiting" /\ unknown' = unknown
    BY <1>0, <1>5 DEF Stalls, Types, HostTypes
  <2>2. \A c \in Calls : calls'[c].at \in {"pausing", "stopping"} => record'.status = calls'[c].at
    BY <1>0, <1>5, WritesGoOn, CommittedStays DEF Stalls
  <2> QED BY <1>0, <2>1, <2>2, ClosingStarts
<1>6. CASE PumpGoesOn
  <2>1. /\ UNCHANGED <<rec, joins, record, calls>> /\ rec.at = "none" /\ joins = {}
    BY <1>0, <1>6 DEF PumpGoesOn, mission, ClosingInv
  <2> QED BY <1>0, <2>1 DEF ClosingInv, Deep
<1>7. CASE FailurePauses
  <2> DEFINE r == [record EXCEPT !.status = IF @ \in {"stopped", "stopping", "recovering"} THEN @ ELSE "pausing"]
  <2>1. Writes(r) /\ Reconciles(FALSE, TRUE) /\ UNCHANGED <<pump, unknown>>
    BY <1>7 DEF FailurePauses
  <2>2. r.status = (IF record.status \in {"stopped", "stopping", "recovering"} THEN record.status ELSE "pausing")
    BY <1>0 DEF Types, RecordTypes
  <2>3. r.status \in Closing \cup {"stopped"} /\ (record.status \in Closing => r.status \in Closing)
    BY <2>2 DEF Closing
  <2> HIDE DEF r
  <2>4. record' = r
    BY <2>1 DEF Writes
  <2>5. \A c \in Calls : calls'[c].at \in {"pausing", "stopping"} => record'.status = calls'[c].at
    BY <1>0, <2>1, WritesGoOn, CommittedStays
  <2> QED BY <1>0, <2>1, <2>3, <2>4, <2>5, ClosingStarts
<1>8. CASE Looks
  <2>1. /\ rec' = Rec(record.status = "recovering", TRUE) /\ rec.at = "none"
        /\ UNCHANGED <<record, joins, pump, calls>> /\ record.status \in Closing
    BY <1>8 DEF Looks, mission
  <2>2. rec'.at = "drain"
    BY <2>1 DEF Rec, IdleRec
  <2> QED BY <1>0, <2>1, <2>2 DEF ClosingInv, Deep
<1> QED BY <1>1, <1>2, <1>3, <1>4, <1>5, <1>6, <1>7, <1>8 DEF PumpSteps

LEMMA RecCalls == ASSUME Inv, RecSteps PROVE CallsGoOn
<1>0. Types
  BY DEF Inv
<1>1. ASSUME NEW s \in Sessions, RecStopped(s) PROVE CallsGoOn
  BY <1>1, StoppedTurn DEF CallsGoOn
<1>2. CASE RecDrains \/ RecBegins \/ RecGivesUp
  BY <1>2, CallsStay DEF RecDrains, RecBegins, RecGivesUp, mission
<1>3. CASE RecProves \/ RecUnproven \/ RecWaits \/ RecQuiets
  <2>1. (\E r : Writes(r)) \/ UNCHANGED <<record, calls>>
    BY <1>3 DEF RecProves, RecUnproven, RecWaits, RecQuiets
  <2> QED BY <1>0, <2>1, WritesGoOn, CallsStay
<1> QED BY <1>1, <1>2, <1>3 DEF RecSteps

LEMMA ClosingRec == ASSUME Inv, RecSteps PROVE ClosingInv'
<1>0. Types /\ ClosingInv /\ CallsGoOn /\ UNCHANGED pump /\ rec \in RecType
  <2>1. UNCHANGED pump
    BY DEF RecSteps, RecDrains, RecBegins, RecProves, RecUnproven, RecGivesUp, RecWaits, RecQuiets, RecStopped
  <2> QED BY <2>1, RecCalls DEF Inv, Types, HostTypes
<1>1. ASSUME RecEnds PROVE ClosingInv'
  BY <1>0, <1>1, ClosingEnds
<1>2. ASSUME UNCHANGED joins, rec.at # "none", rec.at = "begin" \/ rec.at \in Deep, rec'.at \in Deep,
             record.status \in Closing, record'.status = record.status, rec'.at = "asking" => unknown'
      PROVE ClosingInv'
  <2>1. pump.at # "stalled"
    BY <1>0, <1>2 DEF ClosingInv
  <2>2. \A j \in joins : ~j.drain => pump.at = "waiting"
    BY <1>0 DEF ClosingInv
  <2>3. rec'.at \notin {"none", "begin"}
    BY <1>2 DEF Deep
  <2> QED BY <1>0, <1>2, <2>1, <2>2, <2>3, CommittedStays DEF ClosingInv
<1>3. CASE RecDrains
  <2>1. UNCHANGED joins /\ rec.at = "drain" /\ rec'.at = "begin" /\ pump.at = "idle" /\ record' = record
    BY <1>0, <1>3 DEF RecDrains, RecType, mission
  <2> QED BY <1>0, <2>1, CommittedStays DEF ClosingInv, Deep
<1>4. CASE RecBegins
  <2>1. rec.at = "begin" /\ record' = record /\ unknown' = unknown
    BY <1>4 DEF RecBegins
  <2>2. CASE NothingToClose
    BY <1>1, <1>4, <2>2 DEF RecBegins
  <2>3. CASE ~NothingToClose
    <3>1. UNCHANGED joins /\ rec'.at \in Deep /\ (rec'.at = "asking" => unknown)
      BY <1>0, <1>4, <2>3 DEF RecBegins, RecStops, RecType, Deep
    <3> QED BY <1>2, <2>1, <2>3, <3>1 DEF NothingToClose
  <2> QED BY <2>2, <2>3
<1>5. CASE RecProves
  <2>1. rec.at = "asking" /\ record' = record /\ UNCHANGED joins /\ rec'.at = "stopping"
    BY <1>0, <1>5 DEF RecProves, RecStops, RecType, Writes
  <2> QED BY <1>0, <1>2, <2>1 DEF ClosingInv, Deep
<1>6. CASE RecUnproven \/ RecGivesUp \/ RecQuiets
  BY <1>1, <1>6 DEF RecUnproven, RecGivesUp, RecQuiets
<1>7. CASE RecWaits
  <2>1. rec.at = "stopping" /\ record'.status = record.status /\ UNCHANGED joins /\ rec'.at = "quiet"
    BY <1>0, <1>7 DEF RecWaits, RecType, Writes, Types, RecordTypes
  <2> QED BY <1>0, <1>2, <2>1 DEF ClosingInv, Deep
<1>8. ASSUME NEW s \in Sessions, RecStopped(s) PROVE ClosingInv'
  <2>1. rec.at = "stopping" /\ record'.status = record.status /\ UNCHANGED joins /\ rec'.at = "stopping"
    BY <1>8, StoppedTurn
  <2> QED BY <1>0, <1>2, <2>1 DEF ClosingInv, Deep
<1> QED BY <1>3, <1>4, <1>5, <1>6, <1>7, <1>8 DEF RecSteps

LEMMA ClosingUser == ASSUME Inv, NEW c \in Calls, UserSteps(c) PROVE ClosingInv'
<1>0. Types /\ ClosingInv /\ UNCHANGED <<pump, unknown>> /\ calls \in [Calls -> CallType]
  <2>1. UNCHANGED <<pump, unknown>>
    BY DEF UserSteps, CallSteps, CloseCall, ResumeCall, ResumeReconciles, Commit, CloseGoesOn, ResumeGoesOn,
           Refuse, host
  <2> QED BY <2>1 DEF Inv, Types, HostTypes
<1>1. CASE \/ \E a \in {"pause", "stop"}, fresh \in BOOLEAN : CloseCall(c, a, fresh)
           \/ \E fresh \in BOOLEAN : ResumeCall(c, fresh)
           \/ ResumeGoesOn(c) \/ Refuse(c)
  <2>1. UNCHANGED <<record, rec, joins>>
    BY <1>1 DEF CloseCall, ResumeCall, ResumeGoesOn, Refuse, host
  <2>2. \A e \in Calls : calls'[e].at = calls[e].at \/ calls'[e].at \in {"asked", "done"}
    <3>1. CASE ResumeGoesOn(c) \/ Refuse(c)
      BY <1>0, <3>1 DEF ResumeGoesOn, Refuse, CallType
    <3>2. ASSUME NEW a \in {"pause", "stop"}, NEW fresh \in BOOLEAN, CloseCall(c, a, fresh)
          PROVE  \A e \in Calls : calls'[e].at = calls[e].at \/ calls'[e].at = "asked"
      BY <1>0, <3>2 DEF CloseCall, NoCall
    <3>3. ASSUME NEW fresh \in BOOLEAN, ResumeCall(c, fresh)
          PROVE  \A e \in Calls : calls'[e].at = calls[e].at \/ calls'[e].at = "asked"
      BY <1>0, <3>3 DEF ResumeCall, NoCall
    <3> QED BY <1>1, <3>1, <3>2, <3>3
  <2> QED BY <1>0, <2>1, <2>2 DEF ClosingInv
<1>2. CASE ResumeReconciles(c)
  <2>1. Reconciles(record.status = "recovering", TRUE) /\ record' = record /\ record.status \in Closing
    BY <1>2 DEF ResumeReconciles, Closing
  <2>2. \A e \in Calls : calls'[e].at = calls[e].at \/ calls'[e].at = "done"
    BY <1>0, <1>2 DEF ResumeReconciles, CallType
  <2>3. \A e \in Calls : calls'[e].at \in {"pausing", "stopping"} => record'.status = calls'[e].at
    BY <1>0, <2>1, <2>2 DEF ClosingInv
  <2> QED BY <1>0, <2>1, <2>3, ClosingStarts
<1>3. CASE CloseGoesOn(c)
  <2>1. \A e \in Calls : calls'[e].at = calls[e].at \/ calls'[e].at = "done"
    BY <1>0, <1>3 DEF CloseGoesOn, CallType
  <2>2. record' = record /\ \A e \in Calls : calls'[e].at \in {"pausing", "stopping"} => record'.status = calls'[e].at
    BY <1>0, <1>3, <2>1 DEF ClosingInv, CloseGoesOn
  <2>3. CASE calls[c].at = "paused"
    <3>1. UNCHANGED <<rec, joins>>
      BY <1>3, <2>3 DEF CloseGoesOn
    <3> QED BY <1>0, <2>2, <3>1 DEF ClosingInv
  <2>4. CASE calls[c].at # "paused"
    <3>1. Reconciles(calls[c].restart, TRUE) /\ calls[c].restart \in BOOLEAN /\ record.status \in Closing
      BY <1>0, <1>3, <2>4 DEF CloseGoesOn, ClosingInv, CallType, Closing
    <3> QED BY <1>0, <2>2, <3>1, ClosingStarts
  <2> QED BY <2>3, <2>4
<1>4. CASE Commit(c)
  <2> DEFINE a == calls[c].action
  <2>1. /\ UNCHANGED <<rec, joins>> /\ record.status # "stopped"
        /\ a = "pause" => record.status \notin {"stopping", "recovering"}
        /\ a = "resume" => record.status = "paused"
        /\ \A e \in Calls : calls[e].at \notin Committed
        /\ a \in {"pause", "stop", "resume"}
    BY <1>0, <1>4 DEF Commit, host, Answered, CallType
  <2>2. record'.status = After(a)
    BY <1>0, <1>4 DEF Commit, Types, RecordTypes
  <2>3. \A e \in Calls : calls'[e].at = IF e = c THEN After(a) ELSE calls[e].at
    BY <1>0, <1>4 DEF Commit, CallType
  <2>4. \A e \in Calls : calls'[e].at \in {"pausing", "stopping"} => record'.status = calls'[e].at
    BY <2>1, <2>2, <2>3 DEF Committed
  <2>5. \/ After(a) = "paused" /\ record.status = "paused"
        \/ After(a) = "pausing" \/ After(a) = "stopping"
        \/ After(a) = "running" /\ record.status = "paused"
    BY <2>1 DEF After
  <2> HIDE DEF a
  <2>6. /\ rec.at # "none" => record'.status \in Closing \cup {"stopped", "blocked"} \/ pump'.at = "waiting"
        /\ rec.at \in Deep => record'.status \in Closing
    BY <1>0, <2>2, <2>5 DEF ClosingInv, Closing
  <2> QED BY <1>0, <2>1, <2>4, <2>6 DEF ClosingInv
<1> QED BY <1>1, <1>2, <1>3, <1>4 DEF UserSteps, CallSteps

LEMMA ClosingStep == ASSUME Inv, Next PROVE ClosingInv'
<1>0. Types /\ ClosingInv
  BY DEF Inv
<1>1. ASSUME NEW d \in Dispatches, Intend(d) \/ JobSteps(d) PROVE ClosingInv'
  <2>1. UNCHANGED <<rec, joins, pump, unknown>> /\ CallsGoOn
    BY <1>1, JobsLeave, JobCalls
  <2>2. record'.status = record.status \/ (record'.status = "blocked" /\ record.status \notin Closed)
    BY <1>0, <1>1, JobStatus, BlockedStatus
  <2> QED BY <1>0, <2>1, <2>2, ClosingStays DEF ClosingInv
<1>2. CASE SessionMoves
  BY <1>0, <1>2, SessionsLeave, CallsStay, ClosingStays DEF ClosingInv
<1>3. CASE HostMoves
  BY <1>3, ClosingPump, ClosingRec, ClosingUser DEF HostMoves
<1>4. CASE Crash
  <2>1. joins' = {} /\ \A c \in Calls : calls'[c].at \in {"new", "done"}
    BY <1>4 DEF Crash, NoCall
  <2>2. rec'.at = "none" \/ (rec'.at = "drain" /\ record'.status \in Closing)
    <3>1. CASE record.status = "stopped"
      BY <1>4, <3>1 DEF Crash, IdleRec
    <3>2. CASE record.status # "stopped"
      <4>1. rec'.at = "drain"
        BY <1>4, <3>2 DEF Crash, Rec, IdleRec
      <4>2. record' = [Recovered(record) EXCEPT !.status = IF @ = "paused" THEN "recovering" ELSE @]
        BY <1>4, <3>2 DEF Crash
      <4>3. record'.status \in Closing
        BY <4>2 DEF Recovered, Closing
      <4> QED BY <4>1, <4>3
    <3> QED BY <3>1, <3>2
  <2> QED BY <2>1, <2>2 DEF ClosingInv, Deep
<1> QED BY <1>1, <1>2, <1>3, <1>4, Moves

-----------------------------------------------------------------------------
(* What is not of a pending dispatch is on its way out. *)

LeftGoesOn ==
  /\ \A s \in Sessions : Busy(s)' => Busy(s) \/ Closes' \/ \E d \in Dispatches : SessionOf[d] = s /\ Pending(d)'
  /\ Closes => Closes'
  /\ \A d \in Dispatches :
       /\ live'[SessionOf[d]] = d => live[SessionOf[d]] = d \/ Pending(d)'
       /\ \/ ~Pending(d) \/ Pending(d)' \/ Closes'
          \/ /\ ~Busy(SessionOf[d])'
             /\ live'[SessionOf[d]] = d => pump'.at = "settled" /\ pump'.of = d
       /\ pump.at = "settled" /\ pump.of = d /\ live'[SessionOf[d]] = d => pump'.at = "settled" /\ pump'.of = d

LEMMA LeftStays == ASSUME LeftInv, LeftGoesOn PROVE LeftInv'
<1>1. ASSUME NEW s \in Sessions, Busy(s)'
      PROVE  Closes' \/ \E d \in Dispatches : SessionOf[d] = s /\ Pending(d)'
  <2>1. CASE Busy(s)
    <3>1. Closes \/ \E d \in Dispatches : SessionOf[d] = s /\ Pending(d)
      BY <2>1 DEF LeftInv
    <3>2. ASSUME NEW d \in Dispatches, SessionOf[d] = s, Pending(d) PROVE Closes' \/ Pending(d)'
      BY <1>1, <3>2 DEF LeftGoesOn
    <3> QED BY <3>1, <3>2 DEF LeftGoesOn
  <2>2. CASE ~Busy(s)
    BY <1>1, <2>2 DEF LeftGoesOn
  <2> QED BY <2>1, <2>2
<1>2. ASSUME NEW d \in Dispatches, live'[SessionOf[d]] = d
      PROVE  Pending(d)' \/ Closes' \/ (pump'.at = "settled" /\ pump'.of = d)
  BY <1>2 DEF LeftInv, LeftGoesOn
<1> QED BY <1>1, <1>2 DEF LeftInv

LEMMA NothingLeft ==
  ASSUME Types', \A s \in Sessions : live'[s] = None /\ runtime'[s] \in {"off", "up"} /\ s \notin tearing'
  PROVE  LeftInv'
BY MissionHostAssumption DEF LeftInv, Busy

LEMMA PreparedPends == ASSUME Inv, NEW d \in Dispatches, Prepared(d) PROVE Pending(d)'
<1>1. Pending(d) /\ Types
  BY DEF Prepared, Inv, WorkInv, PendingInv, Active
<1>2. record' = record \/ record' = [record EXCEPT !.op[d] = "in_flight"]
  BY DEF Prepared, Writes
<1> QED BY <1>1, <1>2 DEF Pending, Open, Types, RecordTypes

LEMMA TurnPends ==
  ASSUME Inv, Next, ~Crash, NEW e \in Dispatches, live'[SessionOf[e]] = e
  PROVE  live[SessionOf[e]] = e \/ Pending(e)'
BY TurnKept, PreparedPends DEF Kept

(* Only its own failure takes a dispatch out of what is pending while its job is at work. *)
LEMMA JobPends ==
  ASSUME Inv, NEW d \in Dispatches, Intend(d) \/ JobSteps(d), NEW e \in Dispatches, Pending(e)
  PROVE  Pending(e)' \/ (e = d /\ FailsFor(d) /\ Failed(d))
<1>0. Types
  BY DEF Inv
<1>1. CASE Failed(d)
  BY <1>0, <1>1, FailedSteps DEF FailsFor, Pending, Types, RecordTypes
<1>2. CASE Blocks(d)
  BY <1>0, <1>2, BlockedOperations DEF Blocks, Writes, Pending
<1>3. CASE Intend(d)
  BY <1>0, <1>3 DEF Intend, Writes, Pending, Open, Types, RecordTypes
<1>4. CASE Admit(d) \/ Prepared(d)
  <2>1. record' = record \/ record' = [record EXCEPT !.op[d] = "in_flight"]
    BY <1>4 DEF Admit, Prepared, Writes
  <2> QED BY <1>0, <2>1 DEF Pending, Open, Types, RecordTypes
<1>5. CASE Marks(d) \/ Sends(d) \/ Crosses(d) \/ Delivers(d) \/ SendStopped(d) \/ JobThrows(d) \/ Fails(d)
  <2>1. record' = record
    BY <1>5 DEF Marks, Sends, Crosses, Delivers, SendStopped, JobThrows, Fails, Writes, mission
  <2> QED BY <2>1 DEF Pending
<1> QED BY <1>1, <1>2, <1>3, <1>4, <1>5 DEF JobSteps

(* A job makes a session busy for a dispatch that is pending, and is so after its step. *)
LEMMA JobBusy ==
  ASSUME Inv, NEW d \in Dispatches, Intend(d) \/ JobSteps(d), NEW s \in Sessions, Busy(s)', ~Busy(s)
  PROVE  SessionOf[d] = s /\ Pending(d)'
<1> USE MissionHostAssumption
<1>0. Types /\ \A e \in Dispatches : job[e] \in Active => Pending(e)
  BY DEF Inv, WorkInv, PendingInv
<1>1. CASE Prepared(d)
  BY <1>0, <1>1, PreparedPends DEF Prepared, Stops, Busy
<1>2. CASE Fails(d)
  <2>1. runtime' = runtime /\ record' = record /\ (tearing' # tearing => Current(d) /\ Stops({SessionOf[d]}))
    BY <1>2 DEF Fails, mission
  <2>2. tearing' # tearing
    BY <2>1 DEF Busy
  <2> QED BY <2>1, <2>2 DEF Busy, Stops, Current, Pending
<1>3. CASE Sends(d)
  <2>1. job[d] = "starting" /\ record' = record /\ \A r \in Sessions : r # SessionOf[d] => runtime'[r] = runtime[r]
    BY <1>0, <1>3 DEF Sends, mission, Types, SessionTypes
  <2>2. tearing' = tearing
    BY <1>3 DEF Sends
  <2> QED BY <1>0, <2>1, <2>2 DEF Busy, Active, Moving, Pending
<1>4. CASE Delivers(d)
  <2>1. job[d] = "crossing" /\ record' = record /\ \A r \in Sessions : r # SessionOf[d] => runtime'[r] = runtime[r]
    BY <1>0, <1>4 DEF Delivers, mission, Types, SessionTypes
  <2>2. tearing' = tearing
    BY <1>4 DEF Delivers
  <2> QED BY <1>0, <2>1, <2>2 DEF Busy, Active, Moving, Pending
<1>5. CASE Intend(d) \/ Admit(d) \/ Marks(d) \/ Crosses(d) \/ SendStopped(d) \/ JobThrows(d) \/ Failed(d) \/ Blocks(d)
  <2>1. UNCHANGED <<runtime, tearing>>
    BY <1>5 DEF Intend, Admit, Marks, Crosses, SendStopped, JobThrows, Failed, Blocks, sessions
  <2> QED BY <2>1 DEF Busy
<1> QED BY <1>1, <1>2, <1>3, <1>4, <1>5 DEF JobSteps

LEMMA LeftJobs == ASSUME Inv, Next, ~Crash, NEW d \in Dispatches, Intend(d) \/ JobSteps(d) PROVE LeftInv'
<1> USE MissionHostAssumption
<1>0. Types /\ LeftInv /\ UNCHANGED pump
  BY JobsLeave DEF Inv
<1>1. Closes => Closes'
  BY <1>0, JobStatus, BlockedStatus DEF Closes, Closed
<1>2. \A s \in Sessions : Busy(s)' => Busy(s) \/ \E e \in Dispatches : SessionOf[e] = s /\ Pending(e)'
  BY JobBusy
<1>3. ASSUME NEW e \in Dispatches, Pending(e), ~Pending(e)'
      PROVE  ~Busy(SessionOf[e])' /\ live'[SessionOf[e]] # e
  <2>1. e = d /\ FailsFor(d) /\ Failed(d)
    BY <1>3, JobPends
  <2>2. runtime[SessionOf[d]] = "off" /\ SessionOf[d] \notin tearing /\ UNCHANGED <<runtime, tearing>>
    BY <2>1, FailedSteps, StoppedSession DEF FailsFor, sessions
  <2>3. live'[SessionOf[d]] # d
    BY <1>0, <2>1 DEF FailsFor, Forgets, turn, Types, WorkTypes
  <2> QED BY <2>1, <2>2, <2>3 DEF Busy
<1>4. \A e \in Dispatches : live'[SessionOf[e]] = e => live[SessionOf[e]] = e \/ Pending(e)'
  BY TurnPends
<1>5. LeftGoesOn
  BY <1>0, <1>1, <1>2, <1>3, <1>4 DEF LeftGoesOn
<1> QED BY <1>0, <1>5, LeftStays

LEMMA LeftSessions == ASSUME Inv, Next, ~Crash, SessionMoves PROVE LeftInv'
<1> USE MissionHostAssumption
<1>0. Types /\ LeftInv /\ UNCHANGED <<record, pump, live>>
  BY SessionsLeave DEF Inv
<1>1. \A s \in Sessions : Busy(s)' => Busy(s)
  BY <1>0 DEF SessionMoves, DisposeEnds, Starts, TurnEnds, Dies, GhostEnds, sessions, Busy, Types, SessionTypes
<1>2. \A d \in Dispatches : Pending(d)' <=> Pending(d)
  BY <1>0 DEF Pending
<1>3. Closes' <=> Closes
  BY <1>0 DEF Closes
<1>4. LeftGoesOn
  BY <1>0, <1>1, <1>2, <1>3 DEF LeftGoesOn
<1> QED BY <1>0, <1>4, LeftStays

(* Pump, reconciliation and user, when they leave the sessions as they are. *)
LEMMA LeftHost ==
  ASSUME Inv, Next, ~Crash, HostMoves, \A s \in Sessions : Busy(s)' => Busy(s) \/ Closes',
         Closes => Closes', \A d \in Dispatches : Pending(d) => Pending(d)' \/ Closes',
         UNCHANGED pump \/ pump.at # "settled"
  PROVE  LeftInv'
<1>1. \A e \in Dispatches : live'[SessionOf[e]] = e => live[SessionOf[e]] = e \/ Pending(e)'
  BY TurnPends
<1>2. LeftGoesOn
  BY <1>1 DEF LeftGoesOn
<1> QED BY <1>2, LeftStays DEF Inv

LEMMA SameSessions == ASSUME UNCHANGED sessions PROVE \A s \in Sessions : Busy(s)' => Busy(s)
BY DEF sessions, Busy

LEMMA LeftPump ==
  ASSUME Inv, Next, ~Crash, (\E d \in Dispatches : Settles(d)) \/ PumpSteps \/ FailurePauses \/ Looks
  PROVE  LeftInv'
<1> USE MissionHostAssumption
<1>0. Types /\ WorkInv /\ LeftInv /\ HostMoves
  BY DEF Inv, HostMoves
<1>s. UNCHANGED sessions
  BY DEF Settles, PumpSteps, Releases, PumpBlocks, Notes, Stalls, PumpGoesOn, FailurePauses, Looks
<1>b. \A s \in Sessions : Busy(s)' => Busy(s)
  BY <1>s, SameSessions
<1>t. \A e \in Dispatches : live'[SessionOf[e]] = e => live[SessionOf[e]] = e \/ Pending(e)'
  BY TurnPends
<1>1. ASSUME NEW d \in Dispatches, Settles(d) PROVE LeftInv'
  <2>1. /\ pump.at = "idle" /\ pump' = [at |-> "settled", of |-> d] /\ SessionOf[d] \notin tearing
        /\ runtime[SessionOf[d]] \in {"off", "up"} /\ record'.status = record.status
        /\ \A e \in Dispatches : Pending(e)' <=> Pending(e) /\ e # d
    <3>1. pump.at = "idle" /\ pump' = [at |-> "settled", of |-> d] /\ SessionOf[d] \notin tearing
      BY <1>1 DEF Settles, Over, Quiescent
    <3> QED BY <1>1, <3>1, SettledTurn
  <2>2. ~Busy(SessionOf[d])' /\ (Closes => Closes')
    BY <1>s, <2>1 DEF Busy, Closes, sessions
  <2>3. LeftGoesOn
    BY <1>b, <1>t, <2>1, <2>2 DEF LeftGoesOn
  <2> QED BY <1>0, <2>3, LeftStays
<1>2. CASE Releases
  <2>1. record' = record /\ pump.at = "settled"
    BY <1>2 DEF Releases
  <2>2. pump.of \in Dispatches /\ live'[SessionOf[pump.of]] # pump.of
    <3>1. pump.of \in Dispatches
      BY <2>1 DEF Inv, PumpInv
    <3>2. (UNCHANGED live /\ live[SessionOf[pump.of]] # pump.of) \/ Forgets(pump.of)
      BY <1>2 DEF Releases, turn
    <3> QED BY <1>0, <3>1, <3>2 DEF Forgets, Types, WorkTypes
  <2>3. pump'.at # "stalled"
    BY <1>0, <1>2 DEF Releases, IdlePump, Types, HostTypes
  <2>4. (Closes => Closes') /\ \A d \in Dispatches : Pending(d)' <=> Pending(d)
    BY <2>1, <2>3 DEF Closes, Pending
  <2>5. LeftGoesOn
    BY <1>b, <1>t, <2>2, <2>4 DEF LeftGoesOn
  <2> QED BY <1>0, <2>5, LeftStays
<1>3. CASE Notes \/ PumpGoesOn \/ Looks
  <2>1. record' = record /\ pump.at # "settled"
    BY <1>3 DEF Notes, PumpGoesOn, Looks, mission
  <2>2. pump'.at # "stalled" \/ pump'.at = pump.at \/ record.status = "running"
    <3>1. CASE Notes
      BY <1>0, <3>1 DEF Notes, IdlePump, Types, HostTypes
    <3>2. CASE PumpGoesOn \/ Looks
      <4>1. pump' = IdlePump \/ pump' = pump
        BY <3>2 DEF PumpGoesOn, Looks
      <4> QED BY <4>1 DEF IdlePump
    <3> QED BY <1>3, <3>1, <3>2
  <2>3. (Closes => Closes') /\ \A d \in Dispatches : Pending(d)' <=> Pending(d)
    BY <2>1, <2>2 DEF Closes, Closing, Pending
  <2> QED BY <1>0, <1>b, <2>1, <2>3, LeftHost
<1>4. CASE PumpBlocks
  <2>1. record' = Blocked /\ pump.at = "blocking" /\ pump'.at = "idle"
    BY <1>4 DEF PumpBlocks, Writes, IdlePump
  <2>2. (Closes => Closes') /\ \A d \in Dispatches : Pending(d)' <=> Pending(d)
    BY <1>0, <2>1, BlockedOperations, BlockedStatus DEF Closes, Closed, Pending
  <2> QED BY <1>0, <1>b, <2>1, <2>2, LeftHost
<1>5. CASE Stalls
  <2>1. record' = Recovered(record) /\ pump.at = "stalled"
    BY <1>5 DEF Stalls, Writes
  <2>2. ~Closes /\ \A d \in Dispatches : Pending(d) => Pending(d)'
    BY <2>1, RecoveredOperations DEF Closes, Pending, Open
  <2> QED BY <1>0, <1>b, <2>1, <2>2, LeftHost
<1>6. CASE FailurePauses
  <2> DEFINE r == [record EXCEPT !.status = IF @ \in {"stopped", "stopping", "recovering"} THEN @ ELSE "pausing"]
  <2>1. record' = r /\ UNCHANGED pump
    BY <1>6 DEF FailurePauses, Writes
  <2>2. r.op = record.op /\ (record.status \in Closing => r.status \in Closing)
    BY <1>0 DEF Types, RecordTypes, Closing
  <2> HIDE DEF r
  <2>3. (Closes => Closes') /\ \A d \in Dispatches : Pending(d)' <=> Pending(d)
    BY <2>1, <2>2 DEF Closes, Pending
  <2> QED BY <1>0, <1>b, <2>1, <2>3, LeftHost
<1> QED BY <1>1, <1>2, <1>3, <1>4, <1>5, <1>6 DEF PumpSteps

LEMMA LeftRec == ASSUME Inv, Next, ~Crash, RecSteps PROVE LeftInv'
<1> USE MissionHostAssumption
<1>0. Types /\ Types' /\ LeftInv /\ HostMoves /\ UNCHANGED <<pump, runtime>>
  <2>1. UNCHANGED <<pump, runtime>>
    BY DEF RecSteps, RecDrains, RecBegins, RecProves, RecUnproven, RecGivesUp, RecWaits, RecQuiets, RecStopped,
           sessions
  <2> QED BY <2>1, TypesStep DEF Inv, HostMoves
<1>1. ASSUME record' = record, \A s \in Sessions : Busy(s)' => Busy(s) \/ Closes PROVE LeftInv'
  <2>1. (Closes' <=> Closes) /\ \A d \in Dispatches : Pending(d)' <=> Pending(d)
    BY <1>0, <1>1 DEF Closes, Pending
  <2> QED BY <1>0, <1>1, <2>1, LeftHost
<1>2. ASSUME Closes, Closes' PROVE LeftInv'
  BY <1>0, <1>2, LeftHost
<1>3. rec.at \in Deep => Closes
  BY DEF Inv, ClosingInv, Closes
<1>4. CASE RecDrains \/ RecGivesUp
  <2>1. record' = record /\ UNCHANGED sessions
    BY <1>4 DEF RecDrains, RecGivesUp, mission
  <2> QED BY <1>1, <2>1, SameSessions
<1>5. CASE RecBegins
  <2>1. record' = record /\ (Closes \/ UNCHANGED tearing)
    BY <1>5 DEF RecBegins, NothingToClose, Inv, ClosingInv, Closes
  <2> QED BY <1>0, <1>1, <2>1 DEF Busy
<1>6. CASE RecProves
  <2>1. record' = record /\ Closes
    BY <1>3, <1>6 DEF RecProves, Writes, Deep
  <2> QED BY <1>1, <2>1
<1>7. CASE RecUnproven
  <2>1. \A s \in Sessions : live[s] = None /\ runtime[s] = "off" /\ s \notin tearing
    BY <1>7 DEF RecUnproven, Inv, ClosingInv, UnknownInv
  <2>2. UNCHANGED <<live, tearing>>
    BY <1>7 DEF RecUnproven, turn, sessions
  <2> QED BY <1>0, <2>1, <2>2, NothingLeft
<1>8. CASE RecWaits
  <2>1. Closes /\ record'.status = record.status
    BY <1>0, <1>3, <1>8 DEF RecWaits, Deep, Writes, Types, RecordTypes
  <2> QED BY <1>0, <1>2, <2>1 DEF Closes
<1>9. CASE RecQuiets
  <2>1. UNCHANGED <<live, tearing>>
    BY <1>9 DEF RecQuiets, turn, sessions
  <2>2. CASE AllQuiet
    BY <1>0, <2>1, <2>2, NothingLeft DEF AllQuiet, Quiescent
  <2>3. CASE ~AllQuiet
    BY <1>0, <1>1, <1>9, <2>1, <2>3 DEF RecQuiets, Busy
  <2> QED BY <2>2, <2>3
<1>10. ASSUME NEW s \in Sessions, RecStopped(s) PROVE LeftInv'
  <2>1. Closes /\ record'.status = record.status
    BY <1>3, <1>10, StoppedTurn DEF Deep
  <2> QED BY <1>0, <1>2, <2>1 DEF Closes
<1> QED BY <1>4, <1>5, <1>6, <1>7, <1>8, <1>9, <1>10 DEF RecSteps

(* A control call leaves the operations and the sessions, and closes the Mission or leaves it paused. *)
LEMMA UserLeaves ==
  ASSUME Inv, NEW c \in Calls, UserSteps(c)
  PROVE  /\ UNCHANGED <<pump, unknown, unproven, turn, sessions>> /\ record'.op = record.op
         /\ \/ record'.status = record.status
            \/ record'.status \in {"pausing", "stopping"} /\ record.status # "stopped"
            \/ record'.status = "running" /\ record.status = "paused"
<1>0. Types /\ calls \in [Calls -> CallType]
  BY DEF Inv, Types, HostTypes
<1>1. UNCHANGED <<pump, unknown, unproven, turn, sessions>>
  BY DEF UserSteps, CallSteps, CloseCall, ResumeCall, ResumeReconciles, Commit, CloseGoesOn, ResumeGoesOn,
         Refuse, work, host, world
<1>2. CASE ~Commit(c)
  BY <1>1, <1>2 DEF UserSteps, CallSteps, CloseCall, ResumeCall, ResumeReconciles, CloseGoesOn, ResumeGoesOn,
         Refuse
<1>3. CASE Commit(c)
  <2> DEFINE a == calls[c].action
  <2>1. /\ record.status # "stopped"
        /\ a = "resume" => record.status = "paused"
        /\ a \in {"pause", "stop", "resume"}
    BY <1>0, <1>3 DEF Commit, CallType
  <2>2. record'.status = After(a) /\ record'.op = record.op
    BY <1>0, <1>3 DEF Commit, Types, RecordTypes
  <2>3. \/ After(a) = "paused" /\ record.status = "paused"
        \/ After(a) = "pausing" \/ After(a) = "stopping"
        \/ After(a) = "running" /\ record.status = "paused"
    BY <2>1 DEF After
  <2> HIDE DEF a
  <2> QED BY <1>1, <2>1, <2>2, <2>3
<1> QED BY <1>2, <1>3

LEMMA LeftUser == ASSUME Inv, Next, ~Crash, NEW c \in Calls, UserSteps(c) PROVE LeftInv'
<1>1. (Closes => Closes') /\ \A d \in Dispatches : Pending(d)' <=> Pending(d)
  BY UserLeaves DEF Closes, Closing, Pending
<1>2. HostMoves /\ UNCHANGED <<pump, sessions>>
  BY UserLeaves DEF HostMoves
<1> QED BY <1>1, <1>2, SameSessions, LeftHost

LEMMA LeftStep == ASSUME Inv, Next PROVE LeftInv'
<1>1. CASE ~Crash
  BY <1>1, Moves, LeftJobs, LeftSessions, LeftPump, LeftRec, LeftUser DEF HostMoves
<1>2. CASE Crash
  <2>1. \A s \in Sessions : live'[s] = None /\ runtime'[s] = "off" /\ s \notin tearing'
    BY <1>2 DEF Crash
  <2> QED BY <2>1, TypesStep, NothingLeft
<1> QED BY <1>1, <1>2

-----------------------------------------------------------------------------
(* A Mission at rest stays at rest. *)

LEMMA NoneOwned == ASSUME Types, \A s \in Sessions : live[s] = None PROVE ~\E d \in Dispatches : live[SessionOf[d]] = d
BY MissionHostAssumption

LEMMA RestsStays ==
  ASSUME Inv, Next, Rests, record.status \in {"paused", "stopped"}, record'.status \in {"paused", "stopped"}
  PROVE  Rests'
<1> USE MissionHostAssumption
<1>0. /\ Types /\ ~unknown /\ tearing = {} /\ ghosts = {}
      /\ \A d \in Dispatches : ~Pending(d) /\ job[d] \notin Active \cup {"stopping"}
      /\ \A s \in Sessions : live[s] = None /\ runtime[s] \in {"off", "up"}
  BY DEF Inv, WorkInv, PendingInv, UnknownInv, Rests
<1>1. \A d \in Dispatches : ~Intend(d)
  BY DEF Intend
<1>2. \A d \in Dispatches : ~Pending(d)'
  BY <1>0, <1>1, SettledStays DEF Pending
<1>3. ASSUME UNCHANGED <<unknown, live, runtime, tearing>> PROVE Rests'
  BY <1>0, <1>2, <1>3 DEF Rests
<1>4. ASSUME NEW d \in Dispatches, JobSteps(d) PROVE Rests'
  <2>1. Fails(d) \/ Blocks(d)
    BY <1>0, <1>4 DEF JobSteps, Admit, Prepared, Marks, Sends, Crosses, Delivers, SendStopped, JobThrows, Failed,
                      Active, Moving
  <2>2. UNCHANGED <<unknown, live, runtime, tearing>>
    BY <1>0, <2>1 DEF Fails, Blocks, Current, mission, turn, sessions
  <2> QED BY <1>3, <2>2
<1>5. CASE SessionMoves
  <2>1. UNCHANGED <<unknown, live, runtime, tearing>>
    BY <1>0, <1>5 DEF SessionMoves, DisposeEnds, Starts, TurnEnds, Dies, GhostEnds, mission, work, turn, sessions
  <2> QED BY <1>3, <2>1
<1>6. CASE HostMoves
  <2>1. UNCHANGED live
    BY <1>0, <1>6, NoneOwned, HostTurns DEF turn
  <2>2. UNCHANGED runtime
    BY <1>0, <1>6, HostJobs
  <2>3. rec.at \notin Deep
    BY DEF Inv, ClosingInv, Closing
  <2>4. UNCHANGED <<unknown, tearing>>
    <3>1. CASE (\E d \in Dispatches : Settles(d)) \/ PumpSteps \/ FailurePauses \/ Looks
      BY <3>1 DEF Settles, PumpSteps, Releases, PumpBlocks, Notes, Stalls, PumpGoesOn, FailurePauses, Looks,
                  mission, sessions
    <3>2. CASE RecBegins
      BY <3>2 DEF RecBegins, NothingToClose, Closing
    <3>3. CASE RecSteps /\ ~RecBegins
      BY <2>3, <3>3 DEF RecSteps, RecDrains, RecProves, RecUnproven, RecGivesUp, RecWaits, RecQuiets, RecStopped,
                        Deep, mission, sessions
    <3>4. CASE \E c \in Calls : UserSteps(c)
      BY <3>4, UserLeaves DEF sessions
    <3> QED BY <1>6, <3>1, <3>2, <3>3, <3>4 DEF HostMoves
  <2> QED BY <1>3, <2>1, <2>2, <2>4
<1>7. CASE Crash
  <2>1. record.status = "stopped"
    <3>1. ASSUME record.status # "stopped" PROVE FALSE
      <4>1. record' = [Recovered(record) EXCEPT !.status = IF @ = "paused" THEN "recovering" ELSE @]
        BY <1>7, <3>1 DEF Crash
      <4>2. record'.status \in {"stopping", "recovering"}
        BY <4>1 DEF Recovered
      <4> QED BY <4>2
    <3> QED BY <3>1
  <2>2. ghosts' = {}
    <3>1. PICK S \in SUBSET {s \in Sessions : runtime[s] \in {"turn", "stuck"}} : ghosts' = ghosts \cup S
      BY <1>7 DEF Crash
    <3>2. S = {}
      BY <1>0
    <3> QED BY <1>0, <3>1, <3>2
  <2>3. ~unknown'
    BY <1>7, <2>1, <2>2 DEF Crash
  <2>4. /\ tearing' = {}
        /\ \A s \in Sessions : live'[s] = None /\ runtime'[s] = "off"
    BY <1>7 DEF Crash
  <2> QED BY <1>2, <2>3, <2>4 DEF Rests
<1> QED BY <1>1, <1>4, <1>5, <1>6, <1>7, Moves

(* It comes to rest when all is seen quiet, or when a recovery finds nothing that is not done. *)
LEMMA RestsBegins ==
  ASSUME Inv, Next, record.status \notin {"paused", "stopped"}, record'.status \in {"paused", "stopped"}, ~unproven'
  PROVE  Rests'
<1> USE MissionHostAssumption
<1>0. Types
  BY DEF Inv
<1>1. ASSUME NEW d \in Dispatches, Intend(d) \/ JobSteps(d) PROVE FALSE
  BY <1>0, <1>1, JobStatus, BlockedStatus DEF Closed
<1>2. ~SessionMoves
  BY SessionsLeave
<1>3. ASSUME NEW d \in Dispatches, Settles(d) PROVE FALSE
  BY <1>3, SettledTurn
<1>4. CASE Stalls
  <2>1. pump.at = "stalled" /\ record' = Recovered(record) /\ UNCHANGED <<unknown, live, runtime, tearing>>
    BY <1>4 DEF Stalls, Writes, work, turn, sessions
  <2>2. \A d \in Dispatches : record.op[d] \notin Open
    BY <2>1 DEF Recovered
  <2>3. \A d \in Dispatches : ~Pending(d) /\ ~Pending(d)'
    BY <2>1, <2>2, RecoveredOperations DEF Pending
  <2>4. ~unknown
    BY <2>1 DEF Inv, UnknownInv
  <2>5. \A s \in Sessions : ~Busy(s)
    BY <2>1, <2>3 DEF Inv, LeftInv, Closes
  <2>6. \A s \in Sessions : live[s] = None
    <3>1. \A d \in Dispatches : live[SessionOf[d]] # d
      BY <2>1, <2>3 DEF Inv, LeftInv, Closes
    <3> QED BY <1>0, <3>1 DEF Inv, WorkInv, LeaseInv, Types, WorkTypes
  <2>7. tearing = {} /\ \A s \in Sessions : runtime[s] \in {"off", "up"}
    BY <1>0, <2>5 DEF Busy, Types, SessionTypes
  <2> QED BY <2>1, <2>3, <2>4, <2>6, <2>7 DEF Rests
<1>5. CASE (PumpSteps /\ ~Stalls) \/ FailurePauses \/ Looks
  <2>1. record' \in {record, Blocked,
                     [record EXCEPT !.status = IF @ \in {"stopped", "stopping", "recovering"} THEN @ ELSE "pausing"]}
    BY <1>5 DEF PumpSteps, Releases, PumpBlocks, Notes, PumpGoesOn, FailurePauses, Looks, mission, Writes
  <2>2. record'.status \notin {"paused", "stopped"}
    BY <1>0, <2>1, BlockedStatus DEF Closed, Types, RecordTypes
  <2> QED BY <2>2
<1>6. CASE RecQuiets
  <2>1. AllQuiet
    BY <1>6 DEF RecQuiets
  <2>2. record'.op = record.op /\ UNCHANGED <<unknown, live, runtime, tearing>>
    BY <1>0, <1>6 DEF RecQuiets, Writes, turn, sessions, Types, RecordTypes
  <2>3. tearing = {}
    BY <1>0, <2>1 DEF AllQuiet, Quiescent, Types, SessionTypes
  <2> QED BY <2>1, <2>2, <2>3 DEF AllQuiet, Quiescent, Rests, Pending
<1>7. CASE RecSteps /\ ~RecQuiets
  <2>1. record'.status = record.status \/ unproven'
    <3>1. ASSUME NEW s \in Sessions, RecStopped(s) PROVE record'.status = record.status
      BY <3>1, StoppedTurn
    <3>2. CASE RecDrains \/ RecBegins \/ RecProves \/ RecGivesUp \/ RecWaits
      BY <1>0, <3>2 DEF RecDrains, RecBegins, RecProves, RecGivesUp, RecWaits, Writes, mission, Types, RecordTypes
    <3>3. CASE RecUnproven
      BY <3>3 DEF RecUnproven
    <3> QED BY <1>7, <3>1, <3>2, <3>3 DEF RecSteps
  <2> QED BY <2>1
<1>8. ASSUME NEW c \in Calls, UserSteps(c) PROVE FALSE
  BY <1>8, UserLeaves
<1>9. CASE Crash
  <2>1. record' = [Recovered(record) EXCEPT !.status = IF @ = "paused" THEN "recovering" ELSE @]
    BY <1>9 DEF Crash
  <2>2. record'.status \in {"stopping", "recovering"}
    BY <2>1 DEF Recovered
  <2> QED BY <2>2
<1> QED BY <1>1, <1>2, <1>3, <1>4, <1>5, <1>6, <1>7, <1>8, <1>9, Moves DEF HostMoves

LEMMA UnprovenStays == ASSUME Inv, Next, unproven PROVE unproven'
<1>1. CASE (\E d \in Dispatches : Settles(d)) \/ PumpSteps \/ FailurePauses \/ Looks
  BY <1>1 DEF Settles, PumpSteps, Releases, PumpBlocks, Notes, Stalls, PumpGoesOn, FailurePauses, Looks, world
<1>2. CASE RecSteps
  BY <1>2 DEF RecSteps, RecDrains, RecBegins, RecProves, RecUnproven, RecGivesUp, RecWaits, RecQuiets, RecStopped,
              world
<1>3. CASE Crash
  BY <1>3 DEF Crash
<1> QED BY <1>1, <1>2, <1>3, Moves, JobsLeave, SessionsLeave, UserLeaves DEF HostMoves

LEMMA RestStep == ASSUME Inv, Next PROVE RestInv'
<1>1. ASSUME record'.status \in {"paused", "stopped"}, ~unproven' PROVE Rests'
  <2>1. ~unproven
    BY <1>1, UnprovenStays
  <2>2. CASE record.status \in {"paused", "stopped"}
    BY <1>1, <2>1, <2>2, RestsStays DEF Inv, RestInv
  <2>3. CASE record.status \notin {"paused", "stopped"}
    BY <1>1, <2>3, RestsBegins
  <2> QED BY <2>2, <2>3
<1> QED BY <1>1 DEF RestInv

-----------------------------------------------------------------------------
(* Nothing begins or ends in a session that a reconciliation has stopped. *)

LEMMA CrossingBegins ==
  ASSUME Inv, Next, NEW e \in Dispatches, job'[e] = "crossing", job[e] # "crossing"
  PROVE  record.status = "running"
<1>0. Types
  BY DEF Inv
<1>1. ASSUME NEW d \in Dispatches, Intend(d) \/ JobSteps(d) PROVE record.status = "running"
  <2>1. CASE Failed(d)
    BY <2>1, FailedSteps
  <2>2. CASE Blocks(d)
    BY <1>0, <2>2 DEF Blocks, Fences, Turned, Types, WorkTypes
  <2>3. CASE Crosses(d)
    BY <1>0, <2>3 DEF Crosses, MayCross, Admitting, Goes, Types, WorkTypes
  <2>4. CASE Intend(d) \/ Admit(d) \/ Prepared(d) \/ Marks(d) \/ Sends(d) \/ Delivers(d)
             \/ SendStopped(d) \/ JobThrows(d) \/ Fails(d)
    BY <1>0, <2>4 DEF Intend, Admit, Prepared, Marks, Sends, Delivers, SendStopped, JobThrows, Fails,
                            GivesUp, Goes, Types, WorkTypes
  <2> QED BY <1>1, <2>1, <2>2, <2>3, <2>4 DEF JobSteps
<1>2. CASE SessionMoves
  BY <1>0, <1>2 DEF SessionMoves, DisposeEnds, Starts, TurnEnds, Dies, GhostEnds, Goes, work, Types, WorkTypes
<1>3. CASE HostMoves
  BY <1>0, <1>3, HostJobs
<1>4. CASE Crash
  BY <1>4 DEF Crash
<1> QED BY <1>1, <1>2, <1>3, <1>4, Moves

LEMMA EndsInTurn ==
  ASSUME Inv, Next, NEW e \in Dispatches, ended'[e] # "no", ended[e] = "no"
  PROVE  runtime[SessionOf[e]] = "turn"
<1> USE MissionHostAssumption
<1>0. Types
  BY DEF Inv
<1>1. ASSUME NEW d \in Dispatches, Forgets(d) PROVE FALSE
  BY <1>0, <1>1 DEF Forgets, Types, WorkTypes
<1>2. ASSUME NEW d \in Dispatches, Intend(d) \/ JobSteps(d) PROVE FALSE
  <2>1. CASE Failed(d)
    BY <1>1, <2>1, FailedSteps DEF FailsFor, turn
  <2>2. CASE ~Failed(d)
    BY <1>2, <2>2 DEF JobSteps, Intend, Admit, Prepared, Marks, Sends, Crosses, Delivers, SendStopped, JobThrows,
                      Fails, Blocks, turn
  <2> QED BY <2>1, <2>2
<1>3. ASSUME NEW s \in Sessions, TurnEnds(s) PROVE runtime[SessionOf[e]] = "turn"
  <2>1. runtime[s] = "turn" /\ live[s] # None /\ e = live[s]
    BY <1>0, <1>3 DEF TurnEnds, Owner, Types, WorkTypes
  <2> QED BY <2>1 DEF Inv, WorkInv, LeaseInv
<1>4. CASE \E s \in Sessions : DisposeEnds(s) \/ Starts(s) \/ Dies(s) \/ GhostEnds(s)
  BY <1>4 DEF DisposeEnds, Starts, Dies, GhostEnds, work, turn
<1>5. CASE HostMoves
  BY <1>1, <1>5, HostTurns DEF turn
<1>6. CASE Crash
  BY <1>6 DEF Crash
<1> QED BY <1>2, <1>3, <1>4, <1>5, <1>6, Moves DEF SessionMoves

LEMMA RecGoesOn ==
  ASSUME Inv, Next, rec'.at = "stopping"
  PROVE  rec' = rec \/ rec'.todo = Sessions \/ \E s \in Sessions : RecStopped(s)
<1>0. Types /\ rec \in RecType
  BY DEF Inv, Types, HostTypes
<1>1. ASSUME NEW restart \in BOOLEAN, NEW drain \in BOOLEAN, Reconciles(restart, drain) PROVE rec' = rec
  BY <1>1, ReconcilesGoes
<1>2. ~RecEnds
  BY <1>0, RecEndsTypes
<1>3. CASE RecSteps
  <2>1. CASE RecDrains
    BY <1>0, <2>1 DEF RecDrains, RecType
  <2>2. CASE RecBegins
    BY <1>0, <1>2, <2>2 DEF RecBegins, RecStops, RecType
  <2>3. CASE RecProves
    BY <1>0, <2>3 DEF RecProves, RecStops, RecType
  <2>4. CASE RecWaits
    BY <1>0, <2>4 DEF RecWaits, RecType
  <2> QED BY <1>2, <1>3, <2>1, <2>2, <2>3, <2>4 DEF RecSteps, RecUnproven, RecGivesUp, RecQuiets
<1>4. CASE Looks
  BY <1>4 DEF Looks, Rec, IdleRec
<1>5. CASE FailurePauses \/ Stalls
  BY <1>1, <1>5 DEF FailurePauses, Stalls
<1>6. CASE (\E d \in Dispatches : Settles(d)) \/ Releases \/ PumpBlocks \/ Notes \/ PumpGoesOn
  BY <1>6 DEF Settles, Releases, PumpBlocks, Notes, PumpGoesOn
<1>7. ASSUME NEW c \in Calls, UserSteps(c) PROVE rec' = rec
  <2>1. calls[c].restart \in BOOLEAN
    BY <1>0 DEF Types, HostTypes, CallType
  <2>2. CASE ResumeReconciles(c) \/ CloseGoesOn(c)
    BY <1>1, <2>1, <2>2 DEF ResumeReconciles, CloseGoesOn
  <2>3. CASE ~(ResumeReconciles(c) \/ CloseGoesOn(c))
    BY <1>7, <2>3 DEF UserSteps, CallSteps, CloseCall, ResumeCall, Commit, ResumeGoesOn, Refuse, host
  <2> QED BY <2>2, <2>3
<1>8. CASE Crash
  <2>1. rec' = IdleRec \/ rec' = Rec(TRUE, TRUE)
    BY <1>8 DEF Crash
  <2> QED BY <2>1, RecOfTypes
<1> QED BY <1>3, <1>4, <1>5, <1>6, <1>7, <1>8, Moves, JobsLeave, SessionsLeave DEF HostMoves, PumpSteps

LEMMA StoppedStep == ASSUME Inv, Next PROVE StoppedInv'
<1> USE MissionHostAssumption
<1>0. Types /\ WorkInv /\ StoppedInv
  BY DEF Inv
<1>1. ASSUME rec' = rec PROVE StoppedInv'
  <2>1. ASSUME rec.at = "stopping", ~rec.failed, NEW d \in Dispatches, SessionOf[d] \notin rec.todo
        PROVE  runtime'[SessionOf[d]] # "turn" /\ job'[d] # "crossing" /\ ended'[d] = "no"
    <3>1. \A e \in Dispatches : SessionOf[e] = SessionOf[d] =>
             runtime[SessionOf[e]] # "turn" /\ job[e] # "crossing" /\ ended[e] = "no"
      BY <1>0, <2>1 DEF StoppedInv
    <3>2. record.status # "running"
      BY <2>1 DEF Inv, ClosingInv, Deep, Closing
    <3>3. runtime'[SessionOf[d]] # "turn"
      BY <3>1, TurnBegins DEF Delivers
    <3>4. job'[d] # "crossing"
      BY <3>1, <3>2, CrossingBegins
    <3>5. ended'[d] = "no"
      BY <3>1, EndsInTurn
    <3> QED BY <3>3, <3>4, <3>5
  <2> QED BY <1>1, <2>1 DEF StoppedInv
<1>2. ASSUME rec'.todo = Sessions PROVE StoppedInv'
  BY <1>2 DEF StoppedInv
<1>3. ASSUME NEW s \in Sessions, RecStopped(s), ~rec'.failed PROVE StoppedInv'
  <2>1. /\ UNCHANGED <<job, runtime>> /\ rec.at = "stopping" /\ rec'.todo = rec.todo \ {s}
        /\ Quiescent(s)
        /\ \/ UNCHANGED turn /\ live[s] = None
           \/ live[s] \in Dispatches /\ SessionOf[live[s]] = s /\ Forgets(live[s])
    BY <1>3, StoppedTurn
  <2>2. ~rec.failed
    BY <1>0, <1>3 DEF RecStopped, Types, HostTypes, RecType
  <2>3. ASSUME NEW d \in Dispatches, SessionOf[d] \notin rec.todo
        PROVE  runtime'[SessionOf[d]] # "turn" /\ job'[d] # "crossing" /\ ended'[d] = "no"
    <3>1. runtime[SessionOf[d]] # "turn" /\ job[d] # "crossing" /\ ended[d] = "no"
      BY <1>0, <2>1, <2>2, <2>3 DEF StoppedInv
    <3>2. ended'[d] = "no"
      BY <1>0, <2>1, <3>1 DEF Forgets, turn, Types, WorkTypes
    <3> QED BY <2>1, <3>1, <3>2
  <2>4. ASSUME NEW d \in Dispatches, SessionOf[d] = s
        PROVE  runtime'[SessionOf[d]] # "turn" /\ job'[d] # "crossing" /\ ended'[d] = "no"
    <3>1. runtime[s] # "turn" /\ job[d] # "crossing"
      BY <1>0, <2>1, <2>4, QuietSession
    <3>2. ended[d] # "no" => live[s] = d
      BY <1>0, <2>4 DEF WorkInv, TurnInv
    <3>3. ended'[d] = "no"
      BY <1>0, <2>1, <3>2 DEF Forgets, turn, Types, WorkTypes
    <3> QED BY <2>1, <2>4, <3>1, <3>3
  <2> QED BY <2>1, <2>3, <2>4 DEF StoppedInv
<1>4. CASE rec'.at # "stopping" \/ rec'.failed
  BY <1>4 DEF StoppedInv
<1> QED BY <1>1, <1>2, <1>3, <1>4, RecGoesOn

-----------------------------------------------------------------------------
LEMMA InvInit == ASSUME Init PROVE Inv
<1> USE MissionHostAssumption
<1>1. Types
  <2>1. IdlePump \in PumpType /\ IdleRec \in RecType /\ NoCall \in CallType
    BY DEF IdlePump, PumpType, IdleRec, RecType, NoCall, CallType
  <2>2. calls \in [Calls -> CallType] /\ pump \in PumpType /\ rec \in RecType /\ joins \subseteq JoinType
    BY <2>1 DEF Init
  <2>3. RecordTypes
    BY DEF Init, RecordTypes, Statuses, Operations
  <2>4. WorkTypes /\ SessionTypes
    BY DEF Init, WorkTypes, SessionTypes, Places
  <2> QED BY <2>2, <2>3, <2>4 DEF Types, HostTypes, PumpType
<1>2. WorkInv
  <2>1. /\ \A d \in Dispatches : job[d] = "none" /\ lease[d] = "none" /\ ended[d] = "no" /\ ~Pending(d)
        /\ \A s \in Sessions : live[s] = None /\ runtime[s] = "off"
    BY DEF Init, Pending, Open
  <2>2. LeaseInv /\ PendingInv
    BY <2>1 DEF LeaseInv, PendingInv, Active, Moving
  <2>3. JobInv /\ TurnInv
    BY <2>1 DEF JobInv, TurnInv, Moving
  <2> QED BY <2>2, <2>3 DEF WorkInv
<1>3. StoppingInv /\ UnknownInv /\ RestInv
  BY DEF Init, StoppingInv, UnknownInv, RestInv
<1>4. PumpInv /\ ClosingInv /\ StoppedInv
  <2>1. rec.at = "none" /\ pump.at = "idle" /\ joins = {} /\ \A c \in Calls : calls[c].at = "new"
    BY DEF Init, IdleRec, IdlePump, NoCall
  <2> QED BY <2>1 DEF PumpInv, ClosingInv, StoppedInv, Deep
<1>5. LeftInv
  BY DEF Init, LeftInv, Busy
<1>6. crashes \in Nat
  BY DEF Init
<1> QED BY <1>1, <1>2, <1>3, <1>4, <1>5, <1>6 DEF Inv

LEMMA CountStep == ASSUME Inv, Next PROVE crashes' \in Nat
<1>1. Types /\ crashes \in Nat
  BY DEF Inv
<1>2. CASE Crash
  BY <1>1, <1>2 DEF Crash
<1>3. CASE ~Crash
  BY <1>1, <1>3, Moves, JobsLeave, SessionsLeave, HostJobs
<1> QED BY <1>2, <1>3

LEMMA InvStep == ASSUME Inv, [Next]_vars PROVE Inv'
<1>1. CASE Next
  BY <1>1, TypesStep, WorkStep, StoppingStep, PumpStep, UnknownStep, ClosingStep, LeftStep, RestStep, StoppedStep,
     CountStep DEF Inv
<1>2. CASE UNCHANGED vars
  <2>1. UNCHANGED <<record, fenced, slot, unknown, job, lease, live, ended, broken, runtime, tearing, pump, rec,
                    joins, due, calls, ghosts, unproven, crashes>>
    BY <1>2 DEF vars, mission, work, turn, sessions, host, world
  <2>2. Types' /\ WorkInv' /\ StoppingInv' /\ PumpInv'
    BY <2>1 DEF Inv, Types, RecordTypes, WorkTypes, SessionTypes, HostTypes, WorkInv, LeaseInv, PendingInv,
                JobInv, TurnInv, StoppingInv, PumpInv, Pending
  <2>3. UnknownInv' /\ ClosingInv' /\ LeftInv' /\ RestInv' /\ StoppedInv' /\ crashes' \in Nat
    BY <2>1 DEF Inv, UnknownInv, ClosingInv, LeftInv, Closes, Busy, RestInv, Rests, StoppedInv, Pending
  <2> QED BY <2>2, <2>3 DEF Inv
<1> QED BY <1>1, <1>2

(* Whatever jobs, failures, restarts and control calls meet, a Mission's turns belong to its        *)
(* pending dispatches, or are about to be forgotten by the pump or the reconciliation.              *)
THEOREM MissionInvariant == Spec => []Inv
<1>1. Init => Inv
  BY InvInit
<1>2. Inv /\ [Next]_vars => Inv'
  BY InvStep
<1> QED BY <1>1, <1>2, PTL DEF Spec

LEMMA RestIsQuiet == ASSUME Inv PROVE QuietMeansQuiet
<1> USE MissionHostAssumption
<1>1. ASSUME record.status \in {"paused", "stopped"}, ~unproven
      PROVE  /\ ghosts = {} /\ Leaseless
             /\ \A d \in Dispatches : ~Pending(d)
             /\ \A s \in Sessions : runtime[s] \notin {"turn", "stuck"} /\ live[s] = None
  <2>1. Rests /\ Types
    BY <1>1 DEF Inv, RestInv
  <2>2. ghosts = {}
    BY <2>1 DEF Rests, Inv, UnknownInv
  <2>3. ASSUME NEW d \in Dispatches PROVE lease[d] = "none"
    <3>1. lease[d] # "turn"
      BY <2>1 DEF Rests, Inv, WorkInv, LeaseInv
    <3>2. lease[d] # "job"
      BY <2>1 DEF Rests, Inv, WorkInv, LeaseInv, PendingInv, Active
    <3> QED BY <2>1, <3>1, <3>2 DEF Types, WorkTypes
  <2> QED BY <2>1, <2>2, <2>3 DEF Rests, Leaseless
<1> QED BY <1>1 DEF QuietMeansQuiet

(* A Mission that says it is paused or stopped has nothing left that could still write: no turn, no *)
(* pending operation, no capacity and no process of an earlier app (performReconciliation()).       *)
THEOREM QuietIsProved == Spec => []QuietMeansQuiet
<1>1. Inv => QuietMeansQuiet
  BY RestIsQuiet
<1> QED BY <1>1, MissionInvariant, PTL

(* The capacity of a turn is not given away while the turn runs, whoever pauses, stops or fails. *)
THEOREM CapacityIsProved == Spec => []TurnsHoldCapacity
<1>1. ASSUME Inv PROVE TurnsHoldCapacity
  <2>1. ASSUME NEW s \in Sessions, runtime[s] = "turn" PROVE live[s] # None /\ lease[live[s]] = "turn"
    BY <1>1, <2>1 DEF Inv, Types, WorkTypes, WorkInv, TurnInv, LeaseInv
  <2> QED BY <2>1 DEF TurnsHoldCapacity
<1>2. Inv => TurnsHoldCapacity
  BY <1>1
<1> QED BY <1>2, MissionInvariant, PTL

(* What is seen complete and not broken is pending, and no job of its own is at work on it. *)
LEMMA Completed ==
  ASSUME Inv, NEW d \in Dispatches, ended[d] = "completed", d \notin broken, Current(d)
  PROVE  /\ Pending(d) /\ live[SessionOf[d]] = d /\ job[d] \notin Active \cup {"stopping"}
         /\ ~unknown /\ Settled(d) /\ Types
BY DEF Current, Settled, Inv, WorkInv, TurnInv, StoppingInv, UnknownInv

KeepsCompleted(d) == record'.op[d] # "failed" /\ (ended'[d] = "completed" \/ record'.op[d] = "succeeded")

LEMMA CompletionStep ==
  ASSUME Inv, Next, NEW d \in Dispatches, ended[d] = "completed", d \notin broken, Current(d), crashes' = crashes
  PROVE  KeepsCompleted(d)
<1> USE MissionHostAssumption
<1>0. /\ Pending(d) /\ live[SessionOf[d]] = d /\ job[d] \notin Active \cup {"stopping"}
      /\ ~unknown /\ Settled(d) /\ Types
  BY Completed
<1>1. ASSUME Pending(d)', ended'[d] = ended[d] PROVE KeepsCompleted(d)
  BY <1>1 DEF Pending, Open, KeepsCompleted
<1>2. ASSUME NEW e \in Dispatches, e # d, Forgets(e) PROVE ended'[d] = ended[d]
  BY <1>0, <1>2 DEF Forgets, Types, WorkTypes
<1>3. ASSUME NEW e \in Dispatches, Intend(e) \/ JobSteps(e) PROVE KeepsCompleted(d)
  <2>1. CASE Failed(e)
    <3>1. e # d
      BY <1>0, <2>1, FailedSteps
    <3>2. ended'[d] = ended[d]
      BY <1>2, <2>1, <3>1, FailedSteps DEF FailsFor, turn
    <3>3. Pending(d)'
      BY <1>0, <1>3, <3>1, JobPends
    <3> QED BY <1>1, <3>2, <3>3
  <2>2. CASE ~Failed(e)
    <3>1. ended' = ended
      BY <1>3, <2>2 DEF JobSteps, Intend, Admit, Prepared, Marks, Sends, Crosses, Delivers, SendStopped, JobThrows,
                        Fails, Blocks, turn
    <3>2. Pending(d)'
      BY <1>0, <1>3, <2>2, JobPends
    <3> QED BY <1>1, <3>1, <3>2
  <2> QED BY <2>1, <2>2
<1>4. CASE SessionMoves
  <2>1. ended'[d] = ended[d]
    BY <1>0, <1>4 DEF SessionMoves, DisposeEnds, Starts, TurnEnds, Dies, GhostEnds, work, turn, Types, WorkTypes
  <2>2. Pending(d)'
    BY <1>0, <1>4, SessionsLeave DEF Pending
  <2> QED BY <1>1, <2>1, <2>2
<1>5. ASSUME NEW e \in Dispatches, Settles(e) PROVE KeepsCompleted(d)
  <2>1. ended' = ended
    BY <1>5 DEF Settles, work, turn
  <2>2. CASE e = d
    BY <1>5, <2>1, <2>2, SettledTurn DEF KeepsCompleted
  <2>3. CASE e # d
    BY <1>0, <1>1, <1>5, <2>1, <2>3, SettledTurn
  <2> QED BY <2>2, <2>3
<1>6. CASE PumpSteps \/ FailurePauses \/ Looks
  <2>1. ended'[d] = ended[d]
    <3>1. CASE Releases
      <4>1. pump.of \in Dispatches /\ pump.of # d
        BY <1>0, <3>1 DEF Releases, Inv, PumpInv
      <4>2. UNCHANGED turn \/ Forgets(pump.of)
        BY <3>1 DEF Releases
      <4> QED BY <1>2, <4>1, <4>2 DEF turn
    <3>2. CASE ~Releases
      BY <1>6, <3>2 DEF PumpSteps, PumpBlocks, Notes, Stalls, PumpGoesOn, FailurePauses, Looks, work, turn
    <3> QED BY <3>1, <3>2
  <2>2. record'.op = record.op \/ record'.op = Recovered(record).op
    BY <1>0, <1>6, BlockedOperations
       DEF PumpSteps, Releases, PumpBlocks, Notes, Stalls, PumpGoesOn, FailurePauses, Looks, mission, Writes,
           Types, RecordTypes
  <2>3. Pending(d)'
    BY <1>0, <2>2, RecoveredOperations DEF Pending, Open
  <2> QED BY <1>1, <2>1, <2>3
<1>7. CASE RecSteps
  <2>1. ASSUME NEW s \in Sessions, RecStopped(s) PROVE KeepsCompleted(d)
    <3>1. CASE UNCHANGED <<record, turn>>
      BY <1>0, <1>1, <3>1 DEF Pending, turn
    <3>2. CASE ~UNCHANGED <<record, turn>>
      <4>1. /\ live[s] \in Dispatches /\ SessionOf[live[s]] = s /\ Forgets(live[s])
            /\ \/ UNCHANGED record /\ ~Settled(live[s])
               \/ record' = [record EXCEPT !.op[live[s]] = "succeeded"]
        BY <2>1, <3>2, StoppedTurn
      <4>2. CASE live[s] = d
        BY <1>0, <4>1, <4>2 DEF KeepsCompleted, Types, RecordTypes
      <4>3. CASE live[s] # d
        <5>1. ended'[d] = ended[d]
          BY <1>2, <4>1, <4>3
        <5>2. record'.op[d] = record.op[d]
          BY <1>0, <4>1, <4>3 DEF Types, RecordTypes
        <5> QED BY <1>0, <1>1, <5>1, <5>2 DEF Pending
      <4> QED BY <4>2, <4>3
    <3> QED BY <3>1, <3>2
  <2>2. CASE RecDrains \/ RecBegins \/ RecProves \/ RecGivesUp \/ RecQuiets
    <3>1. ended' = ended /\ record'.op = record.op
      BY <1>0, <2>2 DEF RecDrains, RecBegins, RecProves, RecGivesUp, RecQuiets, mission, work, turn, Writes,
                        Types, RecordTypes
    <3> QED BY <1>0, <1>1, <3>1 DEF Pending
  <2>3. ~RecUnproven
    BY <1>0 DEF RecUnproven, Inv, ClosingInv
  <2>4. ~RecWaits
    BY DEF RecWaits, Inv, StoppedInv
  <2> QED BY <1>7, <2>1, <2>2, <2>3, <2>4 DEF RecSteps
<1>8. ASSUME NEW c \in Calls, UserSteps(c) PROVE KeepsCompleted(d)
  BY <1>0, <1>1, <1>8, UserLeaves DEF Pending, turn
<1>9. ~Crash
  <2>1. crashes \in Nat /\ crashes' # crashes + 1
    BY DEF Inv
  <2> QED BY <2>1 DEF Crash
<1> QED BY <1>3, <1>4, <1>5, <1>6, <1>7, <1>8, <1>9, Moves DEF HostMoves

(* A turn that was seen to complete is on record as a success when it is forgotten, whether the pump *)
(* or a reconciliation is first, and no failure overwrites it.                                      *)
THEOREM CompletionIsProved == Spec => CompletionIsKept
<1> DEFINE A == \A d \in Dispatches :
                  ended[d] = "completed" /\ d \notin broken /\ Current(d) /\ crashes' = crashes
                    => record'.op[d] # "failed" /\ (ended'[d] = "completed" \/ record'.op[d] = "succeeded")
<1>1. ASSUME Inv, [Next]_vars PROVE [A]_vars
  <2>1. CASE Next
    BY <1>1, <2>1, CompletionStep DEF KeepsCompleted
  <2>2. CASE UNCHANGED vars
    BY <2>2
  <2> QED BY <1>1, <2>1, <2>2
<1>2. Inv /\ [Next]_vars => [A]_vars
  BY <1>1
<1> HIDE DEF A
<1>3. Spec => [][A]_vars
  BY <1>2, MissionInvariant, PTL DEF Spec
<1> QED BY <1>3 DEF A, CompletionIsKept
=============================================================================
