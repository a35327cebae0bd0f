------------------------- MODULE SessionTurnProofs -------------------------
(***************************************************************************)
(* What becomes of the prompts of a session: of a controller's input, and  *)
(* of its goal.                                                            *)
(*                                                                         *)
(* First the controlled run (ControlledTurn).  What a controller is told   *)
(* of its input is what became of it, and its run and the desktop leave    *)
(* each other alone, for any operations, any number of events and with or  *)
(* without workspace admission.  Five promises may settle while a run      *)
(* waits for one of its own.  The invariant therefore says for each await  *)
(* of runControlled() what the lease and its runtime may have become       *)
(* meanwhile, and that until the runtime is fenced nothing it did on its   *)
(* own account went unnoticed.                                             *)
(*                                                                         *)
(* Then the goal (GoalLoop).  It is prompted once for each reason and does *)
(* not stall, for any limits.  A check-in is timed at the end of a turn    *)
(* and sent at an idle moment, by then perhaps of another goal or beside   *)
(* another turn; the invariant therefore says what the timer, the reserved *)
(* kickoff and the turn under way have to do with the present goal, and    *)
(* what holds up an idle session.                                          *)
(***************************************************************************)
EXTENDS ControlledTurn, GoalLoop, TLAPS

(* The awaits of runControlled(): before it has a runtime, with one that has not been given the input, *)
(* with the input given, and when the runtime has been fenced.                                          *)
Early == {"compaction", "disposing", "reading"}
Ready == {"starting", "preamble", "saving", "parked", "admitted", "committing"}
Given == {"waiting", "accepting"}
Judged == {"retiring", "flushing"}
Fenced == Judged \cup {"closing"}

RunOutcomes == {"succeeded", "failed", "interrupted"}
InputOf(outcome) == IF outcome = "succeeded" THEN "completed" ELSE outcome

RuntimeType ==
  [proc : {"unborn", "starting", "up", "closing", "gone"}, fenced : BOOLEAN,
   turn : {"none", "input", "extra"}, input : {"none", "running"} \cup Ended,
   late : BOOLEAN, send : {"none", "open", "settled"}, work : BOOLEAN]

Types ==
  /\ lease \in Ops \cup {None} /\ (lease = None <=> stage = "none")
  /\ stage \in {"none"} \cup Early \cup Ready \cup Given \cup Fenced
  /\ {dispatched, started, canceled, uncertain, desk, compacting, killed} \subseteq BOOLEAN
  /\ terminal \in {"none", "unknown"} \cup RunOutcomes /\ turnId \in {"none", "input", "extra"}
  /\ active \in Runtimes \cup {None} /\ rt \in [Runtimes -> RuntimeType]
  /\ writes \in Nat /\ writeFailed \in BOOLEAN
  /\ interrupting \in Ops \cup {None} /\ stopping \in Runtimes \cup {None}
  /\ events \in Nat /\ given \in [Ops -> Nat]
  /\ result \in [Ops -> {"none", "threw", "unknown"} \cup RunOutcomes]
  /\ withdrawn \subseteq Ops /\ stained \subseteq Ops

(* The session's runtime is the one that has a process nobody ends; a turn of the input is not over. *)
RuntimesOK ==
  /\ \A r \in Runtimes : /\ rt[r].proc \in {"starting", "up"} <=> active = r
                         /\ rt[r].proc = "unborn" => rt[r] = Unborn
  /\ \A o \in Ops : rt[o].turn = "input" => rt[o].input = "running"

(* An operation that was not called has left no trace. *)
UncalledOK ==
  \A o \in Ops : result[o] = "none" /\ o # lease =>
                   rt[o] = Unborn /\ given[o] = 0 /\ o \notin withdrawn /\ o \notin stained

(* While a run has the session, what the session's runtime is at each of its awaits. *)
StageOK ==
  lease # None =>
    /\ ~desk /\ result[lease] = "none"
    /\ stage \in Early => rt[lease] = Unborn
    /\ stage = "compaction" => active = None \/ (active = Desk /\ rt[Desk].turn = "none")
    /\ stage \in {"disposing", "reading"} \cup Fenced => active = None
    /\ stage \in Ready \cup Given =>
         active \in {None, lease} /\ rt[lease].proc # "unborn" /\ ~rt[lease].fenced
    /\ rt[lease].proc = "starting" => stage = "starting"
    /\ stage \in Fenced => rt[lease].proc # "unborn" /\ rt[lease].fenced

(* The input is given once, and never after it was withdrawn. *)
GivenOK ==
  /\ lease # None =>
       /\ given[lease] = IF dispatched THEN 1 ELSE 0
       /\ stage \in Early \cup Ready => ~dispatched
       /\ stage \in Given \cup Judged => dispatched
       /\ ~dispatched => rt[lease].turn # "input" /\ rt[lease].input = "none"
       /\ lease \in withdrawn => canceled
  /\ \A o \in withdrawn : given[o] = 0

(* What the runtime did on its own account while it was heard has made the run uncertain. *)
StainsOK ==
  lease # None =>
    /\ lease \in stained => uncertain
    /\ stage \notin Fenced /\ (rt[lease].turn = "extra" \/ rt[lease].late) => lease \in stained

(* The end of the turn is that of the input, unless the run is uncertain. *)
EndOK ==
  lease # None =>
    /\ stage \in Given /\ terminal = "none" => rt[lease].turn = "input" /\ rt[lease].proc = "up"
    /\ terminal \in RunOutcomes /\ ~uncertain => rt[lease].input = InputOf(terminal)
    /\ stage \in {"accepting"} \cup Judged => terminal # "none"
    /\ stage = "flushing" /\ ~uncertain => rt[lease].proc = "gone"

TurnInv == /\ Types /\ RuntimesOK /\ UncalledOK /\ StageOK /\ GivenOK /\ StainsOK /\ EndOK
           /\ OutcomesAreTrue /\ RunsKeepApart
-----------------------------------------------------------------------------
(* Runtimes. *)

LEMMA RuntimeFields ==
  ASSUME Types, NEW r \in Runtimes
  PROVE  /\ rt[r] \in RuntimeType
         /\ rt[r].proc \in {"unborn", "starting", "up", "closing", "gone"} /\ rt[r].fenced \in BOOLEAN
         /\ rt[r].turn \in {"none", "input", "extra"} /\ rt[r].input \in {"none", "running"} \cup Ended
         /\ rt[r].late \in BOOLEAN /\ rt[r].send \in {"none", "open", "settled"} /\ rt[r].work \in BOOLEAN
<1>1. rt[r] \in RuntimeType
  BY DEF Types
<1> QED BY <1>1 DEF RuntimeType

LEMMA UnbornFields ==
  /\ Unborn \in RuntimeType
  /\ Unborn.proc = "unborn" /\ ~Unborn.fenced /\ Unborn.turn = "none" /\ Unborn.input = "none"
  /\ ~Unborn.late /\ Unborn.send = "none" /\ ~Unborn.work
BY DEF Unborn, RuntimeType, Ended

LEMMA RetiredRuntime ==
  ASSUME Types, NEW r \in Runtimes, NEW fence \in BOOLEAN, rt' = Retired(r, fence)
  PROVE  /\ rt' \in [Runtimes -> RuntimeType] /\ \A q \in Runtimes : q # r => rt'[q] = rt[q]
         /\ rt'[r].proc = "closing" /\ rt'[r].fenced = (rt[r].fenced \/ fence)
         /\ rt'[r].turn = rt[r].turn /\ rt'[r].input = rt[r].input
         /\ rt'[r].late = rt[r].late /\ rt'[r].send = rt[r].send /\ rt'[r].work = rt[r].work
<1> DEFINE rec == [rt[r] EXCEPT !.proc = "closing", !.fenced = rt[r].fenced \/ fence]
<1>1. rt \in [Runtimes -> RuntimeType]
  BY DEF Types
<1>2. rt' = [rt EXCEPT ![r] = rec]
  BY <1>1 DEF Retired
<1>3. /\ rec \in RuntimeType /\ rec.proc = "closing" /\ rec.fenced = (rt[r].fenced \/ fence)
      /\ rec.turn = rt[r].turn /\ rec.input = rt[r].input
      /\ rec.late = rt[r].late /\ rec.send = rt[r].send /\ rec.work = rt[r].work
  BY RuntimeFields DEF RuntimeType
<1> HIDE DEF rec
<1> QED BY <1>1, <1>2, <1>3

(* The desktop's runtime is none of the runs'. An operation of a run is one. *)
LEMMA Names == /\ Desk \in Runtimes /\ Ops \subseteq Runtimes /\ Runtimes = Ops \cup {Desk}
               /\ Desk \notin Ops /\ None \notin Runtimes
BY ControlledAssumption DEF Runtimes

(* A step in which one runtime goes on: it is neither made nor retired. *)
LEMMA RuntimeGoesOn ==
  ASSUME TurnInv, NEW r \in Runtimes, rt[r].proc # "unborn", rt' = [rt EXCEPT ![r] = rt'[r]], rt'[r] \in RuntimeType,
         rt'[r].proc = rt[r].proc \/ (rt[r].proc = "closing" /\ rt'[r].proc = "gone"),
         rt'[r].fenced = rt[r].fenced,
         rt'[r].turn \in {"none", rt[r].turn} \/ (r \in Ops /\ rt'[r].turn = "extra"),
         rt'[r].input = rt[r].input \/ (rt[r].turn = "input" /\ rt'[r].turn # "input"),
         UNCHANGED <<lease, stage, dispatched, canceled, active, desk, given, withdrawn, killed, result>>,
         stained' = stained \/ (r = lease /\ stained' = stained \cup {r})
  PROVE  /\ rt' \in [Runtimes -> RuntimeType]
         /\ RuntimesOK' /\ UncalledOK' /\ StageOK' /\ GivenOK' /\ OutcomesAreTrue' /\ RunsKeepApart'
<1>1. /\ rt \in [Runtimes -> RuntimeType] /\ rt' \in [Runtimes -> RuntimeType]
      /\ \A q \in Runtimes : q # r => rt'[q] = rt[q]
  BY DEF TurnInv, Types
<1>2. lease \in Runtimes \cup {None} /\ (lease # None => lease \in Ops)
  BY Names DEF TurnInv, Types
<1>3. rt'[r].proc # "unborn" /\ (rt'[r].proc \in {"starting", "up"} <=> rt[r].proc \in {"starting", "up"})
  BY RuntimeFields DEF TurnInv
<1>4. RuntimesOK'
  BY <1>1, <1>3, Names DEF TurnInv, RuntimesOK
<1>5. UncalledOK'
  <2>1. \A o \in Ops : result[o] = "none" /\ o # lease => o # r
    BY UnbornFields DEF TurnInv, UncalledOK
  <2> QED BY <1>1, <2>1, Names DEF TurnInv, UncalledOK
<1>6. StageOK'
  <2>1. lease # None /\ rt[lease] = Unborn => lease # r
    BY UnbornFields
  <2> QED BY <1>1, <1>2, <1>3, <2>1, Names DEF TurnInv, StageOK, Ready, Given
<1>7. GivenOK'
  BY <1>1, <1>2 DEF TurnInv, GivenOK
<1>8. OutcomesAreTrue'
  <2> SUFFICES ASSUME NEW o \in Ops, result[o] \in RunOutcomes
               PROVE  /\ given[o] = 1 /\ o \notin stained' /\ rt'[o].input = InputOf(result[o])
                      /\ result[o] = "succeeded" => rt'[o].proc = "gone"
    BY DEF OutcomesAreTrue, RunOutcomes, InputOf
  <2>1. /\ given[o] = 1 /\ o \notin stained /\ rt[o].input = InputOf(result[o])
        /\ result[o] = "succeeded" => rt[o].proc = "gone"
    BY DEF TurnInv, OutcomesAreTrue, RunOutcomes, InputOf
  <2>2. o # lease
    BY <1>2, Names DEF TurnInv, StageOK, RunOutcomes
  <2>3. o = r => rt[o].turn # "input"
    BY <2>1 DEF TurnInv, RuntimesOK, InputOf, RunOutcomes
  <2> QED BY <1>1, <2>1, <2>2, <2>3, Names
<1>9. RunsKeepApart'
  BY <1>1, Names DEF TurnInv, RunsKeepApart
<1> QED BY <1>1, <1>4, <1>5, <1>6, <1>7, <1>8, <1>9

(* A step in which the session's runtime is retired. *)
LEMMA ActiveRetires ==
  ASSUME TurnInv, active \in Runtimes, active' = None, NEW fence \in BOOLEAN, rt' = Retired(active, fence),
         UNCHANGED <<lease, result, given, stained, killed>>, withdrawn' = withdrawn \/ withdrawn' = withdrawn \cup {lease}
  PROVE  /\ rt' \in [Runtimes -> RuntimeType]
         /\ RuntimesOK' /\ UncalledOK' /\ OutcomesAreTrue' /\ RunsKeepApart'
<1>1. /\ rt' \in [Runtimes -> RuntimeType] /\ \A q \in Runtimes : q # active => rt'[q] = rt[q]
      /\ rt'[active].proc = "closing" /\ rt'[active].turn = rt[active].turn /\ rt'[active].input = rt[active].input
      /\ rt[active].fenced => rt'[active].fenced
  BY RetiredRuntime DEF TurnInv
<1>2. rt[active].proc \in {"starting", "up"}
  BY DEF TurnInv, RuntimesOK
<1>3. RuntimesOK'
  BY <1>1, <1>2, Names DEF TurnInv, RuntimesOK
<1>4. UncalledOK'
  <2>1. \A o \in Ops : result[o] = "none" /\ o # lease => o # active
    BY <1>2, UnbornFields DEF TurnInv, UncalledOK
  <2> QED BY <1>1, <2>1, Names DEF TurnInv, UncalledOK
<1>5. OutcomesAreTrue'
  BY <1>1, <1>2, Names DEF TurnInv, OutcomesAreTrue
<1>6. RunsKeepApart'
  BY <1>1, <1>2, Names DEF TurnInv, RunsKeepApart
<1> QED BY <1>1, <1>3, <1>4, <1>5, <1>6
-----------------------------------------------------------------------------
(* runControlled(). *)

(* The run goes on to its next await. *)
LEMMA RunGoesOn ==
  ASSUME TurnInv, lease # None,
         \/ stage = "disposing" /\ stage' = "reading"
         \/ stage \in Ready /\ stage' \in Ready
         \/ stage \in Given /\ stage' \in Given,
         stage = "starting" => rt[lease].proc # "starting", stage' = "accepting" => terminal # "none", writes' \in Nat,
         UNCHANGED <<lease, dispatched, started, canceled, uncertain, terminal, turnId, session, writeFailed,
                     calls, events, history>>
  PROVE  TurnInv'
<1> USE DEF session, calls, history
<1>1. Types'
  BY DEF TurnInv, Types, Ready, Given, Early
<1>2. StageOK'
  BY DEF TurnInv, StageOK, Ready, Given, Early, Fenced, Judged
<1>3. GivenOK'
  BY DEF TurnInv, GivenOK, Ready, Given, Early, Judged
<1>4. StainsOK'
  BY DEF TurnInv, StainsOK, Ready, Given, Fenced, Judged
<1>5. EndOK'
  BY DEF TurnInv, EndOK, Ready, Given, Judged
<1>6. RuntimesOK' /\ UncalledOK' /\ OutcomesAreTrue' /\ RunsKeepApart'
  BY DEF TurnInv, RuntimesOK, UncalledOK, OutcomesAreTrue, RunsKeepApart
<1> QED BY <1>1, <1>2, <1>3, <1>4, <1>5, <1>6 DEF TurnInv

(* What `finally` does to the run's runtime. *)
LEMMA FencedRuntime ==
  ASSUME TurnInv, lease # None, Throws
  PROVE  /\ rt' \in [Runtimes -> RuntimeType] /\ \A r \in Runtimes : r # lease => rt'[r] = rt[r]
         /\ rt[lease] = Unborn => rt'[lease] = Unborn
         /\ rt[lease].proc # "unborn" =>
              /\ rt'[lease].fenced /\ rt'[lease].proc = IF active = lease THEN "closing" ELSE rt[lease].proc
              /\ rt'[lease].turn = rt[lease].turn /\ rt'[lease].input = rt[lease].input
<1>1. lease \in Runtimes /\ rt \in [Runtimes -> RuntimeType] /\ rt[lease] \in RuntimeType
  BY Names DEF TurnInv, Types
<1>2. CASE rt[lease].proc = "unborn"
  <2>1. rt' = [r \in Runtimes |-> rt[r]]
    BY <1>2 DEF Throws
  <2> QED BY <1>1, <1>2, <2>1
<1>3. CASE rt[lease].proc # "unborn" /\ active = lease
  <2> DEFINE rec == [rt[lease] EXCEPT !.proc = "closing", !.fenced = rt[lease].fenced \/ TRUE]
  <2>1. Retired(active, TRUE)[active] = rec
    BY <1>1, <1>3 DEF Retired
  <2>2. rt' = [r \in Runtimes |-> IF r # lease THEN rt[r] ELSE rec]
    BY <1>3, <2>1 DEF Throws
  <2>3. /\ rec \in RuntimeType /\ rec.fenced /\ rec.proc = "closing"
        /\ rec.turn = rt[lease].turn /\ rec.input = rt[lease].input
    BY <1>1 DEF RuntimeType
  <2> HIDE DEF rec
  <2> QED BY <1>1, <1>3, <2>2, <2>3, UnbornFields
<1>4. CASE rt[lease].proc # "unborn" /\ active # lease
  <2> DEFINE rec == [rt[lease] EXCEPT !.fenced = TRUE]
  <2>1. rt' = [r \in Runtimes |-> IF r # lease THEN rt[r] ELSE rec]
    BY <1>4 DEF Throws
  <2>2. /\ rec \in RuntimeType /\ rec.fenced /\ rec.proc = rt[lease].proc
        /\ rec.turn = rt[lease].turn /\ rec.input = rt[lease].input
    BY <1>1 DEF RuntimeType
  <2> HIDE DEF rec
  <2> QED BY <1>1, <1>4, <2>1, <2>2, UnbornFields
<1> QED BY <1>2, <1>3, <1>4

(* `finally`, from any await. *)
LEMMA ThrowsKeeps ==
  ASSUME TurnInv, lease # None, Throws, stage \notin {"closing"}, events' \in Nat,
         UNCHANGED <<dispatched, started, canceled, uncertain, terminal, turnId, desk, compacting, saving, calls,
                     given, withdrawn, stained, killed>>
  PROVE  TurnInv'
<1> USE DEF saving, calls
<1>1. /\ rt' \in [Runtimes -> RuntimeType] /\ \A r \in Runtimes : r # lease => rt'[r] = rt[r]
      /\ rt[lease] = Unborn => rt'[lease] = Unborn
      /\ rt[lease].proc # "unborn" =>
           /\ rt'[lease].fenced /\ rt'[lease].proc = IF active = lease THEN "closing" ELSE rt[lease].proc
           /\ rt'[lease].turn = rt[lease].turn /\ rt'[lease].input = rt[lease].input
  BY FencedRuntime
<1>2. lease \in Ops /\ lease \in Runtimes /\ lease # Desk
  BY Names DEF TurnInv, Types
<1>3. \/ active = lease /\ active' = None /\ stage' = "closing" /\ lease' = lease /\ result' = result
      \/ /\ active # lease /\ active' = active /\ lease' = None /\ stage' = "none"
         /\ result' = [result EXCEPT ![lease] = "threw"]
  BY DEF Throws, Ends
<1>4. rt[lease] = Unborn \/ rt[lease].proc # "unborn"
  BY <1>2 DEF TurnInv, RuntimesOK
<1>5. active = lease => rt[lease].proc \in {"starting", "up"}
  BY <1>2 DEF TurnInv, RuntimesOK
<1>6. Types'
  BY <1>1, <1>3 DEF TurnInv, Types, Fenced
<1>7. RuntimesOK'
  BY <1>1, <1>2, <1>3, <1>4, <1>5, UnbornFields, Names DEF TurnInv, RuntimesOK
<1>8. \A o \in Ops : result'[o] = IF lease' = None /\ o = lease THEN "threw" ELSE result[o]
  BY <1>3, Names, <1>2 DEF TurnInv, Types
<1>9. UncalledOK'
  BY <1>1, <1>2, <1>3, <1>8, Names DEF TurnInv, UncalledOK
<1>10. StageOK'
  BY <1>1, <1>3, <1>5 DEF TurnInv, StageOK, Fenced, Early, Ready, Given, Judged
<1>11. GivenOK'
  BY <1>1, <1>3, <1>4, UnbornFields DEF TurnInv, GivenOK, Early, Ready, Given, Judged
<1>12. StainsOK'
  BY <1>3 DEF TurnInv, StainsOK, Fenced
<1>13. EndOK'
  BY <1>1, <1>3, <1>5 DEF TurnInv, EndOK, Given, Judged
<1>14. OutcomesAreTrue'
  <2>1. result[lease] = "none"
    BY <1>2, Names DEF TurnInv, StageOK
  <2> QED BY <1>1, <1>2, <1>8, <2>1, Names DEF TurnInv, OutcomesAreTrue
<1>15. RunsKeepApart'
  BY <1>1, <1>2, <1>3, <1>4, <1>8, Names, UnbornFields DEF TurnInv, RunsKeepApart, StageOK
<1> QED BY <1>6, <1>7, <1>9, <1>10, <1>11, <1>12, <1>13, <1>14, <1>15 DEF TurnInv
LEMMA RunBeginsKeeps == ASSUME TurnInv, NEW o \in Ops, RunBegins(o) PROVE TurnInv'
<1> USE DEF calls
<1>1. /\ lease = None /\ o \in Uncalled /\ stage = "none"
      /\ UNCHANGED <<desk, compacting, calls, events, given, withdrawn, stained, killed>>
  <2>1. Uncalled # {} => NextOp \in Uncalled
    BY DEF NextOp
  <2> QED BY <2>1 DEF RunBegins, TurnInv, Types
<1>2. /\ result[o] = "none" /\ rt[o] = Unborn /\ given[o] = 0 /\ o \notin withdrawn /\ o \notin stained
      /\ o \in Runtimes /\ o # Desk /\ o # None /\ active # o
  BY <1>1, Names, UnbornFields DEF Uncalled, TurnInv, UncalledOK, RuntimesOK
<1>3. CASE Busy
  <2>1. result' = [result EXCEPT ![o] = "threw"] /\ UNCHANGED <<leaseVars, active, rt, writes, writeFailed>>
    BY <1>3 DEF RunBegins
  <2>2. \A p \in Ops : result'[p] = IF p = o THEN "threw" ELSE result[p]
    BY <2>1 DEF TurnInv, Types
  <2> USE DEF leaseVars
  <2>3. Types'
    BY <1>1, <2>1 DEF TurnInv, Types
  <2>4. RuntimesOK' /\ UncalledOK'
    BY <1>1, <2>1, <2>2 DEF TurnInv, RuntimesOK, UncalledOK
  <2>5. StageOK' /\ GivenOK' /\ StainsOK' /\ EndOK'
    BY <1>1, <2>1 DEF TurnInv, StageOK, GivenOK, StainsOK, EndOK
  <2>6. OutcomesAreTrue' /\ RunsKeepApart'
    BY <1>1, <1>2, <2>1, <2>2, UnbornFields DEF TurnInv, OutcomesAreTrue, RunsKeepApart
  <2> QED BY <2>3, <2>4, <2>5, <2>6 DEF TurnInv
<1>4. CASE ~Busy
  <2>1. /\ lease' = o /\ ~dispatched' /\ ~started' /\ ~canceled' /\ ~uncertain'
        /\ terminal' = "none" /\ turnId' = "none" /\ writes' = 0 /\ writeFailed' = FALSE
        /\ stage' = IF compacting THEN "compaction" ELSE IF active = Desk THEN "disposing" ELSE "reading"
        /\ dispatched' = FALSE /\ started' = FALSE /\ canceled' = FALSE /\ uncertain' = FALSE
        /\ result' = result
    BY <1>4 DEF RunBegins
  <2>2. \/ active = Desk /\ ~compacting /\ active' = None /\ rt' = Retired(Desk, TRUE)
        \/ ~(active = Desk /\ ~compacting) /\ UNCHANGED <<active, rt>>
    BY <1>4 DEF RunBegins
  <2>3. ~desk /\ (active = Desk => rt[Desk].turn = "none")
    BY <1>4, Names DEF Busy, TurnInv, Types
  <2>4. active \in {None, Desk}
    <3>1. ASSUME active \in Ops PROVE FALSE
      <4>1. result[active] = "none"
        BY <3>1 DEF TurnInv, RunsKeepApart
      <4>2. rt[active] = Unborn
        BY <1>1, <3>1, <4>1, Names DEF TurnInv, UncalledOK
      <4> QED BY <3>1, <4>2, Names, UnbornFields DEF TurnInv, RuntimesOK
    <3> QED BY <3>1, Names DEF TurnInv, Types
  <2>5. /\ rt' \in [Runtimes -> RuntimeType] /\ \A q \in Ops : rt'[q] = rt[q]
        /\ RuntimesOK' /\ active' \in {None, Desk}
        /\ active' = Desk => rt'[Desk].turn = "none"
    <3>1. CASE active = Desk /\ ~compacting
      <4>1. active' = None /\ rt' = Retired(Desk, TRUE)
        BY <2>2, <3>1
      <4>2. /\ rt' \in [Runtimes -> RuntimeType] /\ \A q \in Runtimes : q # Desk => rt'[q] = rt[q]
            /\ rt'[Desk].proc = "closing"
        BY <4>1, Names, RetiredRuntime DEF TurnInv
      <4> QED BY <3>1, <4>1, <4>2, Names DEF TurnInv, RuntimesOK
    <3>2. CASE ~(active = Desk /\ ~compacting)
      <4>1. UNCHANGED <<active, rt>>
        BY <2>2, <3>2
      <4> QED BY <2>3, <2>4, <4>1 DEF TurnInv, Types, RuntimesOK
    <3> QED BY <3>1, <3>2
  <2>6. Types'
    BY <1>1, <1>2, <2>1, <2>5 DEF TurnInv, Types, Early, Runtimes
  <2>7. UncalledOK'
    BY <1>1, <2>1, <2>5, Names DEF TurnInv, UncalledOK
  <2>8. StageOK'
    <3>1. ~compacting => active' = None
      BY <2>2, <2>4
    <3> QED BY <1>1, <1>2, <2>1, <2>3, <2>5, <3>1, UnbornFields DEF StageOK, Fenced, Judged, Early, Ready, Given
  <2>9. GivenOK' /\ StainsOK' /\ EndOK'
    BY <1>1, <1>2, <2>1, <2>5, UnbornFields
       DEF TurnInv, GivenOK, StainsOK, EndOK, Early, Ready, Given, Judged, RunOutcomes
  <2>10. OutcomesAreTrue' /\ RunsKeepApart'
    BY <1>1, <2>1, <2>5, Names DEF TurnInv, OutcomesAreTrue, RunsKeepApart
  <2> QED BY <2>5, <2>6, <2>7, <2>8, <2>9, <2>10 DEF TurnInv
<1> QED BY <1>3, <1>4

LEMMA AfterCompactionKeeps == ASSUME TurnInv, AfterCompaction PROVE TurnInv'
<1> USE DEF saving, calls
<1>1. /\ lease # None /\ stage = "compaction"
      /\ UNCHANGED <<dispatched, started, canceled, uncertain, terminal, turnId, desk, compacting, saving, calls, events,
                     given, withdrawn, stained>>
  BY DEF AfterCompaction, TurnInv, Types
<1>2. rt[lease] = Unborn /\ active \in {None, Desk} /\ (active = Desk => rt[Desk].turn = "none")
  BY <1>1, Names DEF TurnInv, StageOK, Early
<1>3. CASE Current
  <2>1. /\ stage' = IF active = Desk THEN "disposing" ELSE "reading"
        /\ rt' = IF active = Desk THEN Retired(Desk, TRUE) ELSE rt
        /\ active' = None /\ killed' = killed /\ UNCHANGED <<lease, result>>
    BY <1>2, <1>3 DEF AfterCompaction, TurnInv, Types
  <2>2. rt' \in [Runtimes -> RuntimeType] /\ RuntimesOK' /\ UncalledOK' /\ OutcomesAreTrue' /\ RunsKeepApart'
    <3>1. CASE active = Desk
      BY <1>1, <2>1, <3>1, Names, ActiveRetires
    <3>2. CASE active = None
      <4>1. UNCHANGED <<lease, active, rt, result, given, withdrawn, stained, killed>>
        BY <1>1, <2>1, <3>2, Names
      <4> QED BY <4>1 DEF TurnInv, Types, RuntimesOK, UncalledOK, OutcomesAreTrue, RunsKeepApart
    <3> QED BY <1>2, <3>1, <3>2
  <2>3. rt'[lease] = rt[lease]
    <3>1. lease \in Runtimes /\ lease # Desk
      BY <1>1, Names DEF TurnInv, Types
    <3> QED BY <2>1, <3>1, Names, RetiredRuntime DEF TurnInv
  <2>4. Types'
    BY <1>1, <2>1, <2>2 DEF TurnInv, Types, Early
  <2>5. StageOK'
    BY <1>1, <2>1, <2>3 DEF TurnInv, StageOK, Early, Ready, Given, Fenced, Judged
  <2>6. GivenOK' /\ StainsOK' /\ EndOK'
    BY <1>1, <1>2, <2>1, <2>3, UnbornFields
       DEF TurnInv, GivenOK, StainsOK, EndOK, Early, Ready, Given, Fenced, Judged
  <2> QED BY <2>2, <2>4, <2>5, <2>6 DEF TurnInv
<1>4. CASE ~Current
  BY <1>1, <1>4, ThrowsKeeps DEF AfterCompaction, TurnInv, Types
<1> QED BY <1>3, <1>4

LEMMA AfterDisposalKeeps == ASSUME TurnInv, AfterDisposal PROVE TurnInv'
<1>1. /\ lease # None /\ stage = "disposing"
      /\ UNCHANGED <<dispatched, started, canceled, uncertain, terminal, turnId, desk, compacting, saving, calls, events,
                     given, withdrawn, stained, killed>>
  BY DEF AfterDisposal, TurnInv, Types
<1>2. CASE Closing = {} /\ Current
  <2>1. stage' = "reading" /\ UNCHANGED <<lease, result, active, rt>>
    BY <1>2 DEF AfterDisposal
  <2> QED BY <1>1, <2>1, RunGoesOn DEF session, history, saving, TurnInv, Types
<1>3. CASE ~(Closing = {} /\ Current)
  <2>1. Throws
    BY <1>3 DEF AfterDisposal
  <2> QED BY <1>1, <2>1, ThrowsKeeps DEF TurnInv, Types
<1> QED BY <1>2, <1>3

LEMMA MakesKeeps == ASSUME TurnInv, Makes PROVE TurnInv'
<1> USE DEF saving, calls
<1>1. /\ lease # None /\ stage = "reading"
      /\ UNCHANGED <<dispatched, started, canceled, uncertain, terminal, turnId, desk, compacting, saving, calls,
                     given, withdrawn, stained, killed>>
  BY DEF Makes, TurnInv, Types
<1>2. lease \in Ops /\ lease \in Runtimes /\ lease # Desk /\ rt[lease] = Unborn /\ active = None
  BY <1>1, Names DEF TurnInv, StageOK, Early, Types
<1>3. CASE /\ stage' = "starting" /\ active' = lease
           /\ rt' = [rt EXCEPT ![lease].proc = "starting"]
           /\ UNCHANGED <<lease, result, events>>
  <2> DEFINE rec == [Unborn EXCEPT !.proc = "starting"]
  <2>1. /\ rec \in RuntimeType /\ rec.proc = "starting" /\ ~rec.fenced /\ rec.turn = "none" /\ ~rec.late
        /\ rec.input = "none"
    BY DEF Unborn, RuntimeType
  <2>2. rt' = [rt EXCEPT ![lease] = rec] /\ rt \in [Runtimes -> RuntimeType]
    BY <1>2, <1>3 DEF TurnInv, Types
  <2> HIDE DEF rec
  <2>3. /\ rt' \in [Runtimes -> RuntimeType] /\ rt'[lease] = rec
        /\ \A r \in Runtimes : r # lease => rt'[r] = rt[r]
    BY <1>2, <2>1, <2>2
  <2>4. Types'
    BY <1>1, <1>2, <1>3, <2>3 DEF TurnInv, Types, Ready
  <2>5. RuntimesOK'
    BY <1>2, <1>3, <2>1, <2>3, Names DEF TurnInv, RuntimesOK
  <2>6. UncalledOK'
    BY <1>1, <1>3, <2>3, Names DEF TurnInv, UncalledOK
  <2>7. StageOK'
    BY <1>1, <1>3, <2>1, <2>3 DEF TurnInv, StageOK, Early, Ready, Given, Fenced, Judged
  <2>9. GivenOK' /\ StainsOK' /\ EndOK'
    BY <1>1, <1>2, <1>3, <2>1, <2>3, UnbornFields
       DEF TurnInv, GivenOK, StainsOK, EndOK, Early, Ready, Given, Judged, RunOutcomes, InputOf
  <2>8. OutcomesAreTrue' /\ RunsKeepApart'
    BY <1>1, <1>2, <1>3, <2>3, Names DEF TurnInv, OutcomesAreTrue, RunsKeepApart, StageOK
  <2> QED BY <2>4, <2>5, <2>6, <2>7, <2>8, <2>9 DEF TurnInv
<1>4. CASE Throws /\ events' \in Nat
  BY <1>1, <1>4, ThrowsKeeps
<1> QED BY <1>3, <1>4 DEF Makes, Event, TurnInv, Types
LEMMA StartSucceedsKeeps == ASSUME TurnInv, StartSucceeds PROVE TurnInv'
<1> USE DEF leaseVars, saving, calls, history
<1>1. /\ lease \in Ops /\ lease \in Runtimes /\ stage = "starting" /\ rt[lease].proc = "starting"
      /\ rt' = [rt EXCEPT ![lease].proc = "up"] /\ rt \in [Runtimes -> RuntimeType] /\ rt[lease] \in RuntimeType
      /\ UNCHANGED <<leaseVars, active, desk, compacting, saving, calls, events, history>>
  BY Names DEF StartSucceeds, TurnInv, Types
<1> DEFINE rec == [rt[lease] EXCEPT !.proc = "up"]
<1>2. /\ rec \in RuntimeType /\ rec.proc = "up" /\ rec.fenced = rt[lease].fenced /\ rec.turn = rt[lease].turn
      /\ rec.input = rt[lease].input /\ rec.late = rt[lease].late
  BY <1>1 DEF RuntimeType
<1>3. rt' = [rt EXCEPT ![lease] = rec]
  BY <1>1
<1> HIDE DEF rec
<1>4. rt' \in [Runtimes -> RuntimeType] /\ rt'[lease] = rec /\ \A r \in Runtimes : r # lease => rt'[r] = rt[r]
  BY <1>1, <1>2, <1>3
<1>5. Types'
  BY <1>1, <1>4 DEF TurnInv, Types
<1>6. RuntimesOK'
  BY <1>1, <1>2, <1>4, Names DEF TurnInv, RuntimesOK
<1>7. UncalledOK'
  BY <1>1, <1>4, Names DEF TurnInv, UncalledOK
<1>8. StageOK' /\ GivenOK' /\ StainsOK' /\ EndOK'
  BY <1>1, <1>2, <1>4, Names
     DEF TurnInv, StageOK, GivenOK, StainsOK, EndOK, Early, Ready, Given, Fenced, Judged, InputOf
<1>9. OutcomesAreTrue' /\ RunsKeepApart'
  BY <1>1, <1>4, Names DEF TurnInv, OutcomesAreTrue, RunsKeepApart, StageOK
<1> QED BY <1>5, <1>6, <1>7, <1>8, <1>9 DEF TurnInv

(* The awaits between the start and the hand-over: the run goes on, or throws. *)
LEMMA PreparesKeeps == ASSUME TurnInv, Prepares PROVE TurnInv'
<1>1. lease # None /\ stage = "starting"
  BY DEF Prepares, TurnInv, Types
<1>2. CASE stage' = "preamble" /\ UNCHANGED <<lease, result, active, rt>>
  BY <1>1, <1>2, RunGoesOn DEF Prepares, Current, session, saving, history, Ready, TurnInv, Types
<1>3. CASE Throws
  BY <1>1, <1>3, ThrowsKeeps DEF Prepares, TurnInv, Types
<1> QED BY <1>2, <1>3 DEF Prepares

LEMMA AnnouncesKeeps == ASSUME TurnInv, Announces PROVE TurnInv'
<1>1. lease # None /\ stage = "preamble" /\ writes \in Nat
  BY DEF Announces, TurnInv, Types
<1>2. CASE stage' = "saving" /\ writes' = writes + 1 /\ UNCHANGED <<lease, result, active, rt>>
  BY <1>1, <1>2, RunGoesOn DEF Announces, session, history, Ready
<1>3. CASE Throws /\ writes' = writes
  BY <1>1, <1>3, ThrowsKeeps DEF Announces, saving, TurnInv, Types
<1> QED BY <1>2, <1>3 DEF Announces

LEMMA AdmittedKeeps == ASSUME TurnInv, Admitted PROVE TurnInv'
<1>1. lease # None /\ stage = "saving"
  BY DEF Admitted, TurnInv, Types
<1>2. CASE stage' = (IF Admits THEN "parked" ELSE "admitted") /\ UNCHANGED <<lease, result, active, rt>>
  BY <1>1, <1>2, RunGoesOn DEF Admitted, session, saving, history, Ready, TurnInv, Types
<1>3. CASE Throws
  BY <1>1, <1>3, ThrowsKeeps DEF Admitted, TurnInv, Types
<1> QED BY <1>2, <1>3 DEF Admitted, Saved

LEMMA UnparkedKeeps == ASSUME TurnInv, Unparked PROVE TurnInv'
<1>1. lease # None /\ stage = "parked"
  BY DEF Unparked, TurnInv, Types
<1> QED BY <1>1, RunGoesOn DEF Unparked, saving, Ready, TurnInv, Types

LEMMA CommitsKeeps == ASSUME TurnInv, Commits PROVE TurnInv'
<1>1. lease # None /\ stage = "admitted"
  BY DEF Commits, TurnInv, Types
<1>2. CASE stage' = "committing" /\ UNCHANGED <<lease, result, active, rt>>
  BY <1>1, <1>2, RunGoesOn DEF Commits, session, saving, history, Ready, TurnInv, Types
<1>3. CASE Throws
  BY <1>1, <1>3, ThrowsKeeps DEF Commits, TurnInv, Types
<1> QED BY <1>2, <1>3 DEF Commits

(* The hand-over: what is current was not withdrawn, and its runtime did nothing on its own account. *)
LEMMA DispatchesKeeps == ASSUME TurnInv, Dispatches PROVE TurnInv'
<1> USE DEF saving, calls
<1>1. /\ lease \in Ops /\ lease \in Runtimes /\ stage = "committing" /\ lease # None
      /\ rt \in [Runtimes -> RuntimeType] /\ rt[lease] \in RuntimeType
      /\ UNCHANGED <<canceled, uncertain, terminal, turnId, desk, compacting, saving, calls,
                     withdrawn, stained, killed>>
  BY Names DEF Dispatches, TurnInv, Types
<1>2. CASE /\ Current /\ rt[lease].turn = "none" /\ ~rt[lease].work
           /\ stage' = "waiting" /\ dispatched' = TRUE /\ started' = TRUE
           /\ given' = [given EXCEPT ![lease] = @ + 1]
           /\ rt' = [rt EXCEPT ![lease].turn = "input", ![lease].input = "running", ![lease].send = "open"]
           /\ UNCHANGED <<lease, active, result, events>>
  <2> DEFINE rec == [rt[lease] EXCEPT !.turn = "input", !.input = "running", !.send = "open"]
  <2>1. /\ rec \in RuntimeType /\ rec.turn = "input" /\ rec.input = "running"
        /\ rec.proc = rt[lease].proc /\ rec.fenced = rt[lease].fenced /\ rec.late = rt[lease].late
    BY <1>1 DEF RuntimeType
  <2>2. rt' = [rt EXCEPT ![lease] = rec]
    BY <1>1, <1>2
  <2> HIDE DEF rec
  <2>3. rt' \in [Runtimes -> RuntimeType] /\ rt'[lease] = rec /\ \A r \in Runtimes : r # lease => rt'[r] = rt[r]
    BY <1>1, <2>1, <2>2
  <2>4. /\ ~canceled /\ ~uncertain /\ active = lease /\ rt[lease].proc \in {"starting", "up"}
        /\ ~dispatched /\ given[lease] = 0
    BY <1>1, <1>2 DEF Current, TurnInv, StageOK, Ready, RuntimesOK, GivenOK
  <2>5. /\ lease \notin withdrawn /\ lease \notin stained /\ result[lease] = "none"
        /\ given' \in [Ops -> Nat] /\ given'[lease] = 1 /\ \A o \in Ops : o # lease => given'[o] = given[o]
    BY <1>1, <1>2, <2>4 DEF TurnInv, GivenOK, StainsOK, StageOK, Types
  <2>6. terminal \notin RunOutcomes /\ rt[lease].proc = "up"
    <3>1. terminal \notin RunOutcomes
      BY <1>1, <2>4 DEF TurnInv, EndOK, GivenOK, InputOf, RunOutcomes
    <3> QED BY <1>1, <2>4, <3>1 DEF TurnInv, StageOK
  <2>7. Types'
    BY <1>1, <1>2, <2>3, <2>5 DEF TurnInv, Types, Given
  <2>8. RuntimesOK'
    BY <1>1, <1>2, <2>1, <2>3, <2>4, Names DEF TurnInv, RuntimesOK
  <2>9. UncalledOK'
    BY <1>1, <1>2, <2>3, <2>5, Names DEF TurnInv, UncalledOK
  <2>10. StageOK'
    BY <1>1, <1>2, <2>1, <2>3, <2>4 DEF TurnInv, StageOK, Early, Ready, Given, Fenced, Judged
  <2>11. GivenOK'
    BY <1>1, <1>2, <2>5 DEF TurnInv, GivenOK, Early, Ready, Given, Judged
  <2>12. StainsOK' /\ EndOK'
    BY <1>1, <1>2, <2>1, <2>3, <2>5, <2>6 DEF TurnInv, StainsOK, EndOK, Given, Fenced, Judged, RunOutcomes
  <2>13. OutcomesAreTrue' /\ RunsKeepApart'
    BY <1>1, <1>2, <2>3, <2>5, Names DEF TurnInv, OutcomesAreTrue, RunsKeepApart
  <2> QED BY <2>7, <2>8, <2>9, <2>10, <2>11, <2>12, <2>13 DEF TurnInv
<1>3. CASE Throws /\ UNCHANGED <<dispatched, started, given>> /\ events' \in Nat
  BY <1>1, <1>3, ThrowsKeeps
<1>4. events \in Nat
  BY DEF TurnInv, Types
<1>5. CASE Throws /\ UNCHANGED <<dispatched, started, given, events>>
  BY <1>3, <1>4, <1>5
<1>6. CASE Event /\ Throws /\ UNCHANGED <<dispatched, started, given>>
  BY <1>3, <1>4, <1>6 DEF Event
<1> QED BY <1>2, <1>5, <1>6 DEF Dispatches

(* The run's runtime is judged, and nothing it does is heard any more. *)
LEMMA JudgesKeeps ==
  ASSUME TurnInv, stage \in Given, terminal # "none", Judges,
         UNCHANGED <<lease, dispatched, started, canceled, terminal, turnId, desk, compacting, saving, calls, events,
                     history>>
  PROVE  TurnInv'
<1> USE DEF saving, calls, history
<1>1. /\ lease \in Ops /\ lease \in Runtimes /\ stage' = "retiring" /\ lease # None
      /\ rt \in [Runtimes -> RuntimeType] /\ rt[lease] \in RuntimeType
      /\ uncertain' \in BOOLEAN /\ (uncertain => uncertain') /\ active \in {None, lease}
  BY Names, RuntimeFields DEF Judges, TurnInv, Types, Given, StageOK
<1>2. /\ active' = None /\ rt' \in [Runtimes -> RuntimeType] /\ \A r \in Runtimes : r # lease => rt'[r] = rt[r]
      /\ rt'[lease].proc = (IF active = lease THEN "closing" ELSE rt[lease].proc) /\ rt'[lease].fenced
      /\ rt'[lease].turn = rt[lease].turn /\ rt'[lease].input = rt[lease].input
  <2>1. CASE active = lease
    <3>1. active' = None /\ rt' = Retired(lease, TRUE)
      BY <2>1 DEF Judges
    <3> QED BY <1>1, <2>1, <3>1, RetiredRuntime DEF TurnInv
  <2>2. CASE active # lease
    <3> DEFINE rec == [rt[lease] EXCEPT !.fenced = TRUE]
    <3>1. rt' = [rt EXCEPT ![lease] = rec] /\ active' = None
      BY <1>1, <2>2 DEF Judges
    <3>2. /\ rec \in RuntimeType /\ rec.fenced /\ rec.proc = rt[lease].proc
          /\ rec.turn = rt[lease].turn /\ rec.input = rt[lease].input
      BY <1>1 DEF RuntimeType
    <3> HIDE DEF rec
    <3> QED BY <1>1, <2>2, <3>1, <3>2
  <2> QED BY <2>1, <2>2
<1>3. rt[lease].proc # "unborn" /\ (active = lease <=> rt[lease].proc \in {"starting", "up"})
  BY <1>1 DEF TurnInv, StageOK, RuntimesOK
<1>4. Types'
  BY <1>1, <1>2 DEF TurnInv, Types, Fenced, Judged
<1>5. RuntimesOK'
  BY <1>1, <1>2, <1>3, Names DEF TurnInv, RuntimesOK
<1>6. UncalledOK'
  BY <1>1, <1>2, Names DEF TurnInv, UncalledOK
<1>7. StageOK'
  BY <1>1, <1>2, <1>3 DEF TurnInv, StageOK, Early, Ready, Given, Fenced, Judged
<1>8. GivenOK'
  BY <1>1, <1>2 DEF TurnInv, GivenOK, Early, Ready, Given, Judged
<1>9. StainsOK' /\ EndOK'
  BY <1>1, <1>2 DEF TurnInv, StainsOK, EndOK, Given, Fenced, Judged
<1>10. OutcomesAreTrue' /\ RunsKeepApart'
  BY <1>1, <1>2, Names DEF TurnInv, OutcomesAreTrue, RunsKeepApart, StageOK
<1> QED BY <1>4, <1>5, <1>6, <1>7, <1>8, <1>9, <1>10 DEF TurnInv

LEMMA ConcludesKeeps == ASSUME TurnInv, Concludes PROVE TurnInv'
<1>1. lease # None /\ stage = "waiting" /\ terminal # "none"
  BY DEF Concludes, TurnInv, Types
<1>2. CASE stage' = "accepting" /\ UNCHANGED <<uncertain, active, rt>>
  BY <1>1, <1>2, RunGoesOn DEF Concludes, session, saving, Given, TurnInv, Types
<1>3. CASE Judges
  BY <1>1, <1>3, JudgesKeeps DEF Concludes, Given
<1> QED BY <1>2, <1>3 DEF Concludes

LEMMA AcceptedKeeps == ASSUME TurnInv, Accepted PROVE TurnInv'
<1>1. terminal # "none"
  BY DEF Accepted, TurnInv, EndOK, Types
<1> QED BY <1>1, JudgesKeeps DEF Accepted, Given

LEMMA FlushesKeeps == ASSUME TurnInv, Flushes PROVE TurnInv'
<1> USE DEF session, calls, history
<1>1. /\ lease \in Ops /\ lease \in Runtimes /\ stage = "retiring" /\ stage' = "flushing" /\ writes' \in Nat
      /\ uncertain' \in BOOLEAN /\ (uncertain => uncertain')
      /\ UNCHANGED <<lease, dispatched, started, canceled, terminal, turnId, session, writeFailed, calls, events, history>>
  BY Names DEF Flushes, TurnInv, Types
<1>2. ~uncertain' => rt[lease].proc = "gone"
  <2>1. ~uncertain' => rt[lease].proc # "closing"
    BY <1>1 DEF Flushes, Closing
  <2>2. active = None /\ rt[lease].proc # "unborn"
    BY <1>1, Names DEF TurnInv, StageOK, Fenced, Judged
  <2>3. rt[lease].proc \notin {"starting", "up"}
    BY <1>1, <2>2, Names DEF TurnInv, RuntimesOK
  <2> QED BY <1>1, <2>1, <2>2, <2>3, RuntimeFields DEF TurnInv
<1>3. Types'
  BY <1>1 DEF TurnInv, Types, Fenced, Judged
<1>4. RuntimesOK' /\ UncalledOK' /\ OutcomesAreTrue' /\ RunsKeepApart'
  BY <1>1 DEF TurnInv, RuntimesOK, UncalledOK, OutcomesAreTrue, RunsKeepApart
<1>5. StageOK' /\ GivenOK'
  BY <1>1 DEF TurnInv, StageOK, GivenOK, Early, Ready, Given, Fenced, Judged
<1>6. StainsOK' /\ EndOK'
  BY <1>1, <1>2 DEF TurnInv, StainsOK, EndOK, Given, Fenced, Judged
<1> QED BY <1>3, <1>4, <1>5, <1>6 DEF TurnInv

(* A run is over: what it reports is what its lease has come to. *)
LEMMA EndsKeeps ==
  ASSUME TurnInv, NEW outcome \in {"threw", "unknown"} \cup RunOutcomes, lease # None, Ends(outcome),
         stage \in Fenced, outcome \in RunOutcomes => stage = "flushing" /\ ~uncertain /\ terminal = outcome,
         UNCHANGED <<dispatched, started, canceled, uncertain, terminal, turnId, active, rt, desk, compacting, saving,
                     calls, events, given, withdrawn, stained, killed>>
  PROVE  TurnInv'
<1> USE DEF saving, calls
<1>1. /\ lease \in Ops /\ lease \in Runtimes /\ lease' = None /\ stage' = "none"
      /\ result' \in [Ops -> {"none", "threw", "unknown"} \cup RunOutcomes]
      /\ result'[lease] = outcome /\ \A o \in Ops : o # lease => result'[o] = result[o]
  BY Names DEF Ends, TurnInv, Types
<1>2. Types'
  BY <1>1 DEF TurnInv, Types
<1>3. RuntimesOK' /\ UncalledOK'
  BY <1>1, Names DEF TurnInv, RuntimesOK, UncalledOK, RunOutcomes
<1>4. StageOK' /\ GivenOK' /\ StainsOK' /\ EndOK'
  BY <1>1 DEF TurnInv, StageOK, GivenOK, StainsOK, EndOK
<1>5. OutcomesAreTrue'
  <2>1. outcome \in RunOutcomes =>
          /\ given[lease] = 1 /\ lease \notin stained /\ rt[lease].input = InputOf(outcome)
          /\ rt[lease].proc = "gone"
    BY DEF TurnInv, GivenOK, StainsOK, EndOK, Judged
  <2> QED BY <1>1, <2>1 DEF TurnInv, OutcomesAreTrue, RunOutcomes, InputOf
<1>6. RunsKeepApart'
  BY <1>1, Names DEF TurnInv, RunsKeepApart, StageOK
<1> QED BY <1>2, <1>3, <1>4, <1>5, <1>6 DEF TurnInv

LEMMA ReturnsKeeps == ASSUME TurnInv, Returns PROVE TurnInv'
<1>1. lease # None /\ stage = "flushing" /\ events \in Nat
  BY DEF Returns, TurnInv, Types
<1>2. CASE Ends(IF uncertain THEN "unknown" ELSE terminal) /\ UNCHANGED <<active, rt>>
  <2>1. terminal \in {"unknown"} \cup RunOutcomes
    BY <1>1 DEF TurnInv, Types, EndOK, Judged
  <2> QED BY <1>1, <1>2, <2>1, EndsKeeps DEF Returns, Fenced, Judged, RunOutcomes
<1>3. CASE Throws
  BY <1>1, <1>3, ThrowsKeeps DEF Returns
<1> QED BY <1>2, <1>3 DEF Returns, Saved

LEMMA FreesKeeps == ASSUME TurnInv, Frees PROVE TurnInv'
<1>1. lease # None /\ stage = "closing"
  BY DEF Frees, TurnInv, Types
<1> QED BY <1>1, EndsKeeps DEF Frees, session, Fenced, RunOutcomes
-----------------------------------------------------------------------------
(* Stop and the controller's interrupt. *)

(* A flag of the lease changes, or the input is withdrawn before it was given. *)
LEMMA FlagsKeep ==
  ASSUME TurnInv, canceled' \in BOOLEAN, uncertain' \in BOOLEAN, events' \in Nat,
         interrupting' \in Ops \cup {None}, stopping' \in Runtimes \cup {None},
         uncertain => uncertain', canceled => canceled',
         terminal' = terminal \/ (terminal = "none" /\ terminal' = "unknown"),
         withdrawn' = withdrawn \/ (lease # None /\ ~dispatched /\ canceled' /\ withdrawn' = withdrawn \cup {lease}),
         UNCHANGED <<lease, stage, dispatched, started, turnId, session, saving, result, given, stained, killed>>
  PROVE  TurnInv'
<1> USE DEF session, saving
<1>1. Types'
  BY DEF TurnInv, Types
<1>2. RuntimesOK' /\ OutcomesAreTrue' /\ RunsKeepApart'
  BY DEF TurnInv, RuntimesOK, OutcomesAreTrue, RunsKeepApart
<1>3. UncalledOK'
  BY DEF TurnInv, UncalledOK
<1>4. StageOK'
  BY DEF TurnInv, StageOK
<1>5. GivenOK'
  BY DEF TurnInv, GivenOK
<1>6. StainsOK' /\ EndOK'
  BY DEF TurnInv, StainsOK, EndOK, RunOutcomes
<1> QED BY <1>1, <1>2, <1>3, <1>4, <1>5, <1>6 DEF TurnInv

LEMMA InterruptRunKeeps == ASSUME TurnInv, InterruptRun PROVE TurnInv'
<1>1. withdrawn' = withdrawn \/ (lease # None /\ ~dispatched /\ canceled' /\ withdrawn' = withdrawn \cup {lease})
  BY DEF InterruptRun, Withdraws
<1> QED BY <1>1, FlagsKeep DEF InterruptRun, TurnInv, Types

LEMMA InterruptReturnsKeeps == ASSUME TurnInv, InterruptReturns PROVE TurnInv'
<1>1. /\ terminal' = terminal \/ (terminal = "none" /\ terminal' = "unknown")
      /\ uncertain' \in BOOLEAN /\ (uncertain => uncertain')
  BY DEF InterruptReturns, EndsAs, TurnInv, Types
<1> QED BY <1>1, FlagsKeep DEF InterruptReturns, history, TurnInv, Types

LEMMA StopBeginsKeeps == ASSUME TurnInv, StopBegins PROVE TurnInv'
<1>1. withdrawn' = withdrawn \/ (lease # None /\ ~dispatched /\ canceled' /\ withdrawn' = withdrawn \cup {lease})
  BY Names DEF StopBegins, Withdraws
<1>2. canceled' \in BOOLEAN /\ (canceled => canceled') /\ events' \in Nat /\ stopping' \in Runtimes \cup {None}
  BY Names DEF StopBegins, Event, TurnInv, Types
<1> QED BY <1>1, <1>2, FlagsKeep DEF StopBegins, TurnInv, Types

(* The session's runtime is stopped, or it exits, and the lease learns of it. *)
LEMMA ActiveGone ==
  ASSUME TurnInv, active \in Runtimes, active' = None, rt' = Retired(active, FALSE),
         canceled' \in BOOLEAN, uncertain' \in BOOLEAN, compacting' \in BOOLEAN, events' \in Nat,
         interrupting' \in Ops \cup {None}, stopping' \in Runtimes \cup {None},
         uncertain => uncertain', canceled => canceled',
         terminal' = terminal \/ (terminal = "none" /\ terminal' = "unknown"),
         active = lease /\ dispatched => terminal' # "none",
         withdrawn' = withdrawn \/ (lease # None /\ ~dispatched /\ canceled' /\ withdrawn' = withdrawn \cup {lease}),
         UNCHANGED <<lease, stage, dispatched, started, turnId, desk, saving, result, given, stained, killed>>
  PROVE  TurnInv'
<1> USE DEF saving
<1>1. rt' \in [Runtimes -> RuntimeType] /\ RuntimesOK' /\ UncalledOK' /\ OutcomesAreTrue' /\ RunsKeepApart'
  BY ActiveRetires
<1>2. /\ \A q \in Runtimes : q # active => rt'[q] = rt[q]
      /\ rt'[active].proc = "closing" /\ rt'[active].fenced = rt[active].fenced
      /\ rt'[active].turn = rt[active].turn /\ rt'[active].input = rt[active].input
      /\ rt'[active].late = rt[active].late
  BY RetiredRuntime, RuntimeFields DEF TurnInv
<1>3. rt[active].proc \in {"starting", "up"}
  BY DEF TurnInv, RuntimesOK
<1>4. lease # None => lease \in Runtimes /\ lease \in Ops
  BY Names DEF TurnInv, Types
<1>5. lease # None => /\ rt'[lease].turn = rt[lease].turn /\ rt'[lease].input = rt[lease].input
                      /\ rt'[lease].late = rt[lease].late
  BY <1>2, <1>4
<1>6. Types'
  BY <1>1, <1>4 DEF TurnInv, Types
<1>7. StageOK'
  BY <1>2, <1>3, <1>4, Names, UnbornFields DEF TurnInv, StageOK, Early, Ready, Given, Fenced, Judged
<1>8. GivenOK'
  BY <1>4, <1>5 DEF TurnInv, GivenOK
<1>9. StainsOK'
  BY <1>5 DEF TurnInv, StainsOK
<1>10. EndOK'
  <2>1. lease # None /\ stage = "flushing" => rt'[lease] = rt[lease]
    BY <1>2, <1>4, Names DEF TurnInv, StageOK, Fenced, Judged
  <2>2. lease # None /\ stage \in Given /\ terminal' = "none" => rt'[lease] = rt[lease]
    BY <1>2, <1>4 DEF TurnInv, GivenOK
  <2> QED BY <1>5, <2>1, <2>2 DEF TurnInv, EndOK, RunOutcomes
<1> QED BY <1>1, <1>6, <1>7, <1>8, <1>9, <1>10 DEF TurnInv

LEMMA StopActsKeeps == ASSUME TurnInv, StopActs PROVE TurnInv'
<1>1. /\ canceled' \in BOOLEAN /\ uncertain' \in BOOLEAN /\ stopping' = None
      /\ (uncertain => uncertain') /\ (canceled => canceled')
      /\ terminal' = terminal \/ (terminal = "none" /\ terminal' = "unknown")
      /\ lease # None => terminal' # "none"
      /\ UNCHANGED <<lease, stage, dispatched, started, turnId, desk, saving, interrupting, events,
                     result, given, stained, killed>>
  BY DEF StopActs, EndsAs, TurnInv, Types
<1>2. withdrawn' = withdrawn \/ (lease # None /\ ~dispatched /\ canceled' /\ withdrawn' = withdrawn \cup {lease})
  BY Names DEF StopActs, Withdraws
<1>3. interrupting \in Ops \cup {None} /\ events \in Nat
  BY DEF TurnInv, Types
<1>4. CASE active = None
  BY <1>1, <1>2, <1>3, <1>4, FlagsKeep DEF StopActs, session
<1>5. CASE active # None
  <2>1. active \in Runtimes /\ active' = None /\ rt' = Retired(active, FALSE) /\ compacting' = FALSE
    BY <1>5 DEF StopActs, TurnInv, Types
  <2>2. active = lease => lease # None
    BY <2>1, Names
  <2> QED BY <1>1, <1>2, <1>3, <2>1, <2>2, ActiveGone
<1> QED BY <1>4, <1>5

-----------------------------------------------------------------------------
(* The desktop's own use of the session. *)

LEMMA DeskKeeps == ASSUME TurnInv, DeskSends \/ Compacts \/ CompactionEnds \/ WriteSettles PROVE TurnInv'
<1> USE DEF calls, history
<1>1. /\ UNCHANGED <<leaseVars, active, rt, calls, history>> /\ desk' \in BOOLEAN /\ compacting' \in BOOLEAN
      /\ writes' \in Nat /\ writeFailed' \in BOOLEAN /\ events' \in Nat /\ (lease # None => desk' = desk)
  <2>1. events \in Nat /\ writes \in Nat /\ desk \in BOOLEAN /\ compacting \in BOOLEAN /\ writeFailed \in BOOLEAN
    BY DEF TurnInv, Types
  <2>2. CASE DeskSends
    BY <2>1, <2>2 DEF DeskSends, saving, Event
  <2>3. CASE Compacts \/ CompactionEnds
    BY <2>1, <2>3 DEF Compacts, CompactionEnds, saving
  <2>4. CASE WriteSettles
    <3>1. writes' \in Nat
      BY <2>1, <2>4 DEF WriteSettles
    <3>2. events' \in Nat
      BY <2>1, <2>4 DEF WriteSettles, Event
    <3>3. writeFailed' \in BOOLEAN
      BY <2>1, <2>4 DEF WriteSettles
    <3>4. UNCHANGED <<leaseVars, session, calls, history>>
      BY <2>4 DEF WriteSettles
    <3> QED BY <2>1, <3>1, <3>2, <3>3, <3>4 DEF session
  <2> QED BY <2>2, <2>3, <2>4
<1> USE DEF leaseVars
<1>2. Types'
  BY <1>1 DEF TurnInv, Types
<1>3. RuntimesOK' /\ UncalledOK' /\ OutcomesAreTrue' /\ RunsKeepApart'
  BY <1>1 DEF TurnInv, RuntimesOK, UncalledOK, OutcomesAreTrue, RunsKeepApart
<1>4. StageOK'
  BY <1>1 DEF TurnInv, StageOK
<1>5. GivenOK' /\ StainsOK' /\ EndOK'
  BY <1>1 DEF TurnInv, GivenOK, StainsOK, EndOK
<1> QED BY <1>2, <1>3, <1>4, <1>5 DEF TurnInv

(* No message is on its way while a run has the session. *)
LEMMA DeskDeliversKeeps == ASSUME TurnInv, DeskDelivers PROVE TurnInv'
<1> USE DEF leaseVars, saving, calls, history
<1>1. /\ lease = None /\ desk' = FALSE /\ UNCHANGED <<leaseVars, compacting, saving, calls, events, history>>
      /\ rt \in [Runtimes -> RuntimeType] /\ Desk \in Runtimes
  BY Names DEF DeskDelivers, TurnInv, StageOK, Types
<1>2. /\ rt' \in [Runtimes -> RuntimeType] /\ \A r \in Ops : rt'[r] = rt[r]
      /\ active' \in {active, Desk} /\ (active = Desk <=> rt[Desk].proc \in {"starting", "up"})
      /\ active' = Desk <=> rt'[Desk].proc \in {"starting", "up"}
      /\ active' # active => active = None
      /\ rt'[Desk].proc = "unborn" => rt'[Desk] = Unborn
  <2>1. /\ active = Desk <=> rt[Desk].proc \in {"starting", "up"}
        /\ rt[Desk].proc = "unborn" => rt[Desk] = Unborn
    BY <1>1 DEF TurnInv, RuntimesOK
  <2>2. CASE active = Desk /\ rt' = [rt EXCEPT ![Desk].turn = "input"] /\ UNCHANGED active
    <3> DEFINE rec == [rt[Desk] EXCEPT !.turn = "input"]
    <3>1. rt' = [rt EXCEPT ![Desk] = rec]
      BY <1>1, <2>2
    <3>2. rec \in RuntimeType /\ rec.proc = rt[Desk].proc
      BY <1>1 DEF RuntimeType
    <3> HIDE DEF rec
    <3> QED BY <1>1, <2>1, <2>2, <3>1, <3>2, Names
  <2>3. CASE /\ active = None /\ rt[Desk].proc \in {"unborn", "gone"}
             /\ active' = Desk
             /\ rt' = [rt EXCEPT ![Desk] = [Unborn EXCEPT !.proc = "up", !.turn = "input"]]
    <3> DEFINE rec == [Unborn EXCEPT !.proc = "up", !.turn = "input"]
    <3>1. rec \in RuntimeType /\ rec.proc = "up"
      BY DEF RuntimeType, Unborn
    <3>2. rt' = [rt EXCEPT ![Desk] = rec]
      BY <2>3
    <3> HIDE DEF rec
    <3> QED BY <1>1, <2>1, <2>3, <3>1, <3>2, Names
  <2>4. CASE UNCHANGED <<active, rt>>
    BY <1>1, <2>1, <2>4
  <2> QED BY <2>2, <2>3, <2>4 DEF DeskDelivers
<1>3. Types'
  BY <1>1, <1>2 DEF TurnInv, Types
<1>4. RuntimesOK'
  BY <1>1, <1>2, Names DEF TurnInv, RuntimesOK
<1>5. UncalledOK' /\ OutcomesAreTrue'
  BY <1>1, <1>2 DEF TurnInv, UncalledOK, OutcomesAreTrue
<1>6. RunsKeepApart'
  BY <1>1, <1>2, Names DEF TurnInv, RunsKeepApart
<1>7. StageOK' /\ GivenOK' /\ StainsOK' /\ EndOK'
  BY <1>1, <1>2, Names DEF TurnInv, StageOK, GivenOK, StainsOK, EndOK
<1> QED BY <1>3, <1>4, <1>5, <1>6, <1>7 DEF TurnInv
-----------------------------------------------------------------------------
(* The harness. *)

(* Events and outcomes of a runtime: what its own lemma leaves to show. *)
LEMMA HarnessKeeps ==
  ASSUME TurnInv, NEW r \in Runtimes, rt[r].proc # "unborn", rt' = [rt EXCEPT ![r] = rt'[r]], rt'[r] \in RuntimeType,
         rt'[r].proc = rt[r].proc \/ (rt[r].proc = "closing" /\ rt'[r].proc = "gone"),
         rt'[r].fenced = rt[r].fenced,
         rt'[r].turn \in {"none", rt[r].turn} \/ (r \in Ops /\ rt'[r].turn = "extra"),
         rt'[r].input = rt[r].input \/ (rt[r].turn = "input" /\ rt'[r].turn # "input"),
         UNCHANGED <<lease, stage, dispatched, canceled, active, desk, compacting, calls, given, withdrawn, killed, result>>,
         stained' = stained \/ (r = lease /\ stained' = stained \cup {r}),
         started' \in BOOLEAN, uncertain' \in BOOLEAN, turnId' \in {"none", "input", "extra"},
         terminal' \in {"none", "unknown"} \cup RunOutcomes, writes' \in Nat, writeFailed' \in BOOLEAN, events' \in Nat,
         StainsOK', EndOK'
  PROVE  TurnInv'
<1>1. /\ rt' \in [Runtimes -> RuntimeType]
      /\ RuntimesOK' /\ UncalledOK' /\ StageOK' /\ GivenOK' /\ OutcomesAreTrue' /\ RunsKeepApart'
  BY RuntimeGoesOn
<1>2. stained' \subseteq Ops
  BY Names DEF TurnInv, Types
<1>3. Types'
  BY <1>1, <1>2 DEF TurnInv, Types, calls
<1> QED BY <1>1, <1>3 DEF TurnInv

(* Its own run hears a runtime until it is fenced. *)
LEMMA HeardByRun ==
  ASSUME TurnInv, NEW o \in Ops, rt[o].proc # "unborn"
  PROVE  /\ Heard(o) => lease = o /\ stage \notin Fenced /\ stage \notin Early
         /\ ~Heard(o) => lease # o \/ stage \in Fenced
<1>1. lease = o => stage \in Early \cup Ready \cup Given \cup Fenced
  BY Names DEF TurnInv, Types
<1> QED BY <1>1, Names, UnbornFields DEF Heard, TurnInv, StageOK

(* What no lease hears concerns none. *)
LEMMA Unheard ==
  ASSUME TurnInv, NEW r \in Runtimes, rt[r].proc # "unborn", rt' = [rt EXCEPT ![r] = rt'[r]],
         r = lease => stage \in Fenced,
         rt'[r].proc = rt[r].proc \/ (rt[r].proc = "closing" /\ rt'[r].proc = "gone"),
         rt'[r].input = rt[r].input \/ (rt[r].turn = "input" /\ rt'[r].turn # "input"),
         UNCHANGED <<lease, stage, terminal, stained>>, uncertain' = uncertain \/ uncertain' = TRUE
  PROVE  StainsOK' /\ EndOK'
<1>1. lease # None => lease \in Runtimes /\ lease \in Ops
  BY Names DEF TurnInv, Types
<1>2. CASE r # lease
  <2>1. lease # None => rt'[lease] = rt[lease]
    BY <1>1, <1>2 DEF TurnInv, Types
  <2> QED BY <2>1 DEF TurnInv, StainsOK, EndOK
<1>3. CASE r = lease
  <2>1. stage \in Fenced /\ stage \notin Given /\ lease # None
    BY <1>3, Names DEF Fenced, Judged, Given
  <2>2. terminal \in RunOutcomes /\ ~uncertain => rt[lease].input # "running"
    BY <2>1 DEF TurnInv, EndOK, InputOf, RunOutcomes
  <2>3. rt[lease].turn = "input" => rt[lease].input = "running"
    BY <1>1, <2>1 DEF TurnInv, RuntimesOK
  <2> QED BY <1>3, <2>1, <2>2, <2>3 DEF TurnInv, StainsOK, EndOK
<1> QED BY <1>2, <1>3

LEMMA ExtraBeginsKeeps == ASSUME TurnInv, NEW o \in Ops, ExtraBegins(o) PROVE TurnInv'
<1> DEFINE rec == [rt[o] EXCEPT !.turn = "extra"]
<1>1. /\ o \in Runtimes /\ o # None /\ rt \in [Runtimes -> RuntimeType] /\ rt[o] \in RuntimeType
      /\ rt[o].proc \in {"up", "closing"} /\ rt[o].turn = "none" /\ ~rt[o].late
      /\ rt' = [rt EXCEPT ![o] = rec] /\ events' \in Nat
      /\ UNCHANGED <<lease, stage, dispatched, canceled, terminal, turnId, active, desk, compacting, saving, calls,
                     result, given, withdrawn, killed>>
  BY Names DEF ExtraBegins, Event, TurnInv, Types
<1>2. /\ rec \in RuntimeType /\ rec.proc = rt[o].proc /\ rec.fenced = rt[o].fenced /\ rec.turn = "extra"
      /\ rec.input = rt[o].input /\ rec.late = rt[o].late
  BY <1>1 DEF RuntimeType
<1> HIDE DEF rec
<1>3. rt'[o] = rec /\ \A r \in Runtimes : r # o => rt'[r] = rt[r]
  BY <1>1
<1>4. /\ stained' = stained \/ (o = lease /\ stained' = stained \cup {o})
      /\ started' \in BOOLEAN /\ uncertain' \in BOOLEAN /\ (uncertain => uncertain')
  BY DEF ExtraBegins, Heard, TurnInv, Types
<1>5. StainsOK' /\ EndOK'
  <2>1. CASE Heard(o)
    <3>1. lease = o /\ stage \notin Fenced /\ stage \notin Early /\ stained' = stained \cup {o} /\ lease # None
      BY <1>1, <2>1, HeardByRun DEF ExtraBegins
    <3>2. stage \in Given => terminal # "none"
      BY <1>1, <3>1 DEF TurnInv, EndOK
    <3>3. ~dispatched \/ terminal # "none"
      BY <3>1, <3>2 DEF TurnInv, GivenOK, Types
    <3>4. uncertain' = TRUE
      BY <2>1, <3>3 DEF ExtraBegins
    <3> QED BY <1>1, <1>2, <1>3, <3>1, <3>2, <3>4 DEF TurnInv, StainsOK, EndOK, Fenced
  <2>2. CASE ~Heard(o)
    <3>1. stained' = stained /\ uncertain' = uncertain
      BY <2>2 DEF ExtraBegins, TurnInv, Types
    <3>2. o = lease => stage \in Fenced
      BY <1>1, <2>2, HeardByRun
    <3> QED BY <1>1, <1>2, <1>3, <3>1, <3>2, Unheard
  <2> QED BY <2>1, <2>2
<1> QED BY <1>1, <1>2, <1>3, <1>4, <1>5, HarnessKeeps DEF saving, TurnInv, Types

LEMMA ExtraEndsKeeps == ASSUME TurnInv, NEW o \in Ops, ExtraEnds(o) PROVE TurnInv'
<1> DEFINE rec == [rt[o] EXCEPT !.turn = "none", !.late = TRUE]
<1>1. /\ o \in Runtimes /\ rt \in [Runtimes -> RuntimeType] /\ rt[o] \in RuntimeType
      /\ rt[o].turn = "extra" /\ rt' = [rt EXCEPT ![o] = rec]
      /\ UNCHANGED <<leaseVars, active, desk, compacting, saving, calls, events, history>>
  BY Names DEF ExtraEnds, TurnInv, Types
<1>2. /\ rec \in RuntimeType /\ rec.proc = rt[o].proc /\ rec.fenced = rt[o].fenced /\ rec.turn = "none"
      /\ rec.input = rt[o].input
  BY <1>1 DEF RuntimeType
<1> HIDE DEF rec
<1>3. rt'[o] = rec /\ \A r \in Runtimes : r # o => rt'[r] = rt[r]
  BY <1>1
<1>4. rt[o].proc # "unborn"
  BY <1>1, UnbornFields DEF TurnInv, RuntimesOK
<1>5. StainsOK' /\ EndOK'
  <2>1. CASE o = lease
    <3>1. stage \in Given => terminal # "none"
      BY <1>1, <2>1, Names DEF TurnInv, EndOK
    <3> QED BY <1>1, <1>2, <1>3, <2>1, <3>1 DEF TurnInv, StainsOK, EndOK, leaseVars, history
  <2>2. CASE o # lease
    BY <1>1, <1>2, <1>3, <1>4, <2>2, Unheard DEF leaseVars, history
  <2> QED BY <2>1, <2>2
<1> QED BY <1>1, <1>2, <1>3, <1>4, <1>5, HarnessKeeps DEF leaseVars, saving, history, TurnInv, Types

(* What the lease knows of a runtime does not change, or the run becomes uncertain. *)
LEMMA RuntimeSteady ==
  ASSUME TurnInv, NEW r \in Runtimes, rt' = [rt EXCEPT ![r] = rt'[r]],
         rt'[r].proc = rt[r].proc, rt'[r].turn = rt[r].turn, rt'[r].input = rt[r].input, rt'[r].late = rt[r].late,
         UNCHANGED <<lease, stage, stained>>, uncertain' = uncertain \/ uncertain' = TRUE,
         terminal' = terminal \/ (terminal = "none" /\ terminal' = "unknown")
  PROVE  StainsOK' /\ EndOK'
<1>1. lease # None => lease \in Runtimes
  BY Names DEF TurnInv, Types
<1>2. lease # None => /\ rt'[lease].proc = rt[lease].proc /\ rt'[lease].turn = rt[lease].turn
                      /\ rt'[lease].input = rt[lease].input /\ rt'[lease].late = rt[lease].late
  BY <1>1 DEF TurnInv, Types
<1> QED BY <1>2 DEF TurnInv, StainsOK, EndOK, RunOutcomes

LEMMA ExtraReportedKeeps == ASSUME TurnInv, NEW o \in Ops, ExtraReported(o) PROVE TurnInv'
<1> DEFINE rec == [rt[o] EXCEPT !.late = FALSE]
<1>1. /\ o \in Runtimes /\ rt \in [Runtimes -> RuntimeType] /\ rt[o] \in RuntimeType
      /\ rt[o].late /\ rt' = [rt EXCEPT ![o] = rec]
      /\ UNCHANGED <<lease, stage, dispatched, started, canceled, active, desk, compacting, writeFailed, calls, events,
                     history>>
  BY Names DEF ExtraReported, TurnInv, Types
<1>2. /\ rec \in RuntimeType /\ rec.proc = rt[o].proc /\ rec.fenced = rt[o].fenced /\ rec.turn = rt[o].turn
      /\ rec.input = rt[o].input /\ ~rec.late
  BY <1>1 DEF RuntimeType
<1> HIDE DEF rec
<1>3. rt'[o] = rec /\ \A r \in Runtimes : r # o => rt'[r] = rt[r]
  BY <1>1
<1>4. rt[o].proc # "unborn"
  BY <1>1, UnbornFields DEF TurnInv, RuntimesOK
<1>5. /\ uncertain' \in BOOLEAN /\ turnId' \in {"none", "input", "extra"}
      /\ terminal' \in {"none", "unknown"} \cup RunOutcomes /\ writes' \in Nat
  <2>1. uncertain' \in BOOLEAN /\ turnId' \in {"none", "input", "extra"} /\ terminal' \in {"none", "unknown"} \cup RunOutcomes
    BY DEF ExtraReported, SeesTurn, EndsAs, RunOutcomes, TurnInv, Types
  <2>2. writes' \in Nat
    BY DEF ExtraReported, Emits, TurnInv, Types
  <2> QED BY <2>1, <2>2
<1>6. StainsOK' /\ EndOK'
  <2>1. CASE Heard(o)
    <3>1. lease = o /\ stage \notin Fenced /\ lease # None
      BY <1>1, <1>4, <2>1, Names, HeardByRun
    <3>2. uncertain
      BY <1>1, <3>1 DEF TurnInv, StainsOK
    <3>3. uncertain'
      BY <2>1, <3>2 DEF ExtraReported, SeesTurn
    <3>4. dispatched => terminal' # "none"
      BY <2>1 DEF ExtraReported, SeesTurn, EndsAs
    <3>5. stage \in Given => dispatched
      BY <3>1 DEF TurnInv, GivenOK
    <3> QED BY <1>1, <1>2, <1>3, <3>1, <3>3, <3>4, <3>5
            DEF TurnInv, StainsOK, EndOK, Given, Fenced, Judged, history
  <2>2. CASE ~Heard(o)
    <3>1. UNCHANGED <<uncertain, terminal>>
      BY <2>2 DEF ExtraReported, SeesTurn
    <3>2. o = lease => stage \in Fenced
      BY <1>4, <2>2, HeardByRun
    <3> QED BY <1>1, <1>2, <1>3, <1>4, <3>1, <3>2, Unheard DEF history
  <2> QED BY <2>1, <2>2
<1> QED BY <1>1, <1>2, <1>3, <1>4, <1>5, <1>6, HarnessKeeps DEF history, TurnInv, Types

LEMMA WorksKeeps == ASSUME TurnInv, NEW o \in Ops, Works(o) PROVE TurnInv'
<1>1. /\ o \in Runtimes /\ rt \in [Runtimes -> RuntimeType] /\ rt[o] \in RuntimeType /\ rt[o].turn = "input"
      /\ UNCHANGED <<leaseVars, active, desk, compacting, writeFailed, calls, events, history>>
  BY Names DEF Works, TurnInv, Types
<1>2. PICK work \in BOOLEAN : rt' = [rt EXCEPT ![o].work = work]
  BY DEF Works
<1> DEFINE rec == [rt[o] EXCEPT !.work = work]
<1>3. /\ rec \in RuntimeType /\ rec.proc = rt[o].proc /\ rec.fenced = rt[o].fenced /\ rec.turn = rt[o].turn
      /\ rec.input = rt[o].input /\ rec.late = rt[o].late
  BY <1>1 DEF RuntimeType
<1>4. rt' = [rt EXCEPT ![o] = rec]
  BY <1>1, <1>2
<1> HIDE DEF rec
<1>5. rt'[o] = rec /\ rt[o].proc # "unborn"
  BY <1>1, <1>4, UnbornFields DEF TurnInv, RuntimesOK
<1>6. writes' \in Nat
  BY DEF Works, Emits, TurnInv, Types
<1>7. StainsOK' /\ EndOK'
  BY <1>1, <1>3, <1>4, <1>5, RuntimeSteady DEF leaseVars, history
<1> QED BY <1>1, <1>3, <1>4, <1>5, <1>6, <1>7, HarnessKeeps DEF leaseVars, history, TurnInv, Types

LEMMA WorkEndsKeeps == ASSUME TurnInv, NEW o \in Ops, WorkEnds(o) PROVE TurnInv'
<1> DEFINE rec == [rt[o] EXCEPT !.work = FALSE]
<1>1. /\ o \in Runtimes /\ rt \in [Runtimes -> RuntimeType] /\ rt[o] \in RuntimeType /\ rt[o].work
      /\ rt' = [rt EXCEPT ![o] = rec]
      /\ UNCHANGED <<leaseVars, active, desk, compacting, saving, calls, events, history>>
  BY Names DEF WorkEnds, TurnInv, Types
<1>2. /\ rec \in RuntimeType /\ rec.proc = rt[o].proc /\ rec.fenced = rt[o].fenced /\ rec.turn = rt[o].turn
      /\ rec.input = rt[o].input /\ rec.late = rt[o].late
  BY <1>1 DEF RuntimeType
<1> HIDE DEF rec
<1>3. rt'[o] = rec /\ rt[o].proc # "unborn"
  BY <1>1, UnbornFields DEF TurnInv, RuntimesOK
<1>4. StainsOK' /\ EndOK'
  BY <1>1, <1>2, <1>3, RuntimeSteady DEF leaseVars, history
<1> QED BY <1>1, <1>2, <1>3, <1>4, HarnessKeeps DEF leaseVars, saving, history, TurnInv, Types

LEMMA SendSettlesKeeps == ASSUME TurnInv, NEW o \in Ops, SendSettles(o) PROVE TurnInv'
<1> DEFINE rec == [rt[o] EXCEPT !.send = "settled"]
<1>1. /\ o \in Runtimes /\ rt \in [Runtimes -> RuntimeType] /\ rt[o] \in RuntimeType /\ rt[o].send = "open"
      /\ rt' = [rt EXCEPT ![o] = rec]
      /\ UNCHANGED <<lease, stage, dispatched, started, canceled, turnId, active, desk, compacting, saving, calls, history>>
  BY Names DEF SendSettles, TurnInv, Types
<1>2. /\ rec \in RuntimeType /\ rec.proc = rt[o].proc /\ rec.fenced = rt[o].fenced /\ rec.turn = rt[o].turn
      /\ rec.input = rt[o].input /\ rec.late = rt[o].late
  BY <1>1 DEF RuntimeType
<1> HIDE DEF rec
<1>3. rt'[o] = rec /\ rt[o].proc # "unborn"
  BY <1>1, UnbornFields DEF TurnInv, RuntimesOK
<1>4. /\ uncertain' = uncertain \/ uncertain' = TRUE
      /\ terminal' = terminal \/ (terminal = "none" /\ terminal' = "unknown")
  BY DEF SendSettles, EndsAs
<1>5. events' \in Nat
  <2>1. events \in Nat
    BY DEF TurnInv, Types
  <2> QED BY <2>1 DEF SendSettles, Event
<1>6. StainsOK' /\ EndOK'
  BY <1>1, <1>2, <1>3, <1>4, RuntimeSteady DEF history
<1>7. uncertain' \in BOOLEAN /\ terminal' \in {"none", "unknown"} \cup RunOutcomes
  BY <1>4 DEF TurnInv, Types
<1> QED BY <1>1, <1>2, <1>3, <1>5, <1>6, <1>7, HarnessKeeps DEF saving, history, TurnInv, Types

(* The end of the input's turn is recorded if the run still listens. *)
LEMMA InputEndsKeeps == ASSUME TurnInv, NEW o \in Ops, NEW outcome \in Ended, InputEnds(o, outcome) PROVE TurnInv'
<1> DEFINE rec == [rt[o] EXCEPT !.turn = "none", !.input = outcome]
<1>1. /\ o \in Runtimes /\ rt \in [Runtimes -> RuntimeType] /\ rt[o] \in RuntimeType
      /\ rt[o].turn = "input" /\ rt[o].proc \in {"up", "closing"} /\ rt' = [rt EXCEPT ![o] = rec]
      /\ UNCHANGED <<lease, stage, dispatched, started, canceled, active, desk, compacting, writeFailed, calls, events,
                     history>>
  BY Names DEF InputEnds, TurnInv, Types
<1>2. /\ rec \in RuntimeType /\ rec.proc = rt[o].proc /\ rec.fenced = rt[o].fenced /\ rec.turn = "none"
      /\ rec.input = outcome /\ rec.late = rt[o].late
  BY <1>1 DEF RuntimeType
<1> HIDE DEF rec
<1>3. rt'[o] = rec /\ \A r \in Runtimes : r # o => rt'[r] = rt[r]
  BY <1>1
<1>4. rt[o].input = "running"
  BY <1>1 DEF TurnInv, RuntimesOK
<1>5. /\ uncertain' \in BOOLEAN /\ turnId' \in {"none", "input", "extra"}
      /\ terminal' \in {"none", "unknown"} \cup RunOutcomes /\ writes' \in Nat
  <2>1. uncertain' \in BOOLEAN /\ turnId' \in {"none", "input", "extra"} /\ terminal' \in {"none", "unknown"} \cup RunOutcomes
    BY DEF InputEnds, SeesTurn, EndsAs, RunOutcomes, Ended, TurnInv, Types
  <2>2. writes' \in Nat
    BY DEF InputEnds, Emits, TurnInv, Types
  <2> QED BY <2>1, <2>2
<1>6. StainsOK' /\ EndOK'
  <2>1. CASE Heard(o)
    <3>1. lease = o /\ stage \notin Fenced /\ lease # None /\ dispatched
      BY <1>1, <2>1, Names, HeardByRun DEF TurnInv, GivenOK
    <3>2. /\ terminal' = IF terminal # "none" THEN terminal ELSE IF outcome = "completed" THEN "succeeded" ELSE outcome
          /\ (uncertain => uncertain')
      BY <2>1, <3>1 DEF InputEnds, SeesTurn, EndsAs
    <3>3. terminal \in RunOutcomes => uncertain
      BY <1>4, <3>1 DEF TurnInv, EndOK, InputOf, RunOutcomes
    <3>4. StainsOK'
      BY <1>1, <1>2, <1>3, <3>1, <3>2 DEF TurnInv, StainsOK, history
    <3>5. EndOK'
      BY <1>1, <1>2, <1>3, <3>1, <3>2, <3>3 DEF EndOK, InputOf, RunOutcomes, Ended, Fenced, Judged
    <3> QED BY <3>4, <3>5
  <2>2. CASE ~Heard(o)
    <3>1. UNCHANGED <<uncertain, terminal>>
      BY <2>2 DEF InputEnds, SeesTurn
    <3>2. o = lease => stage \in Fenced
      BY <1>1, <2>2, HeardByRun
    <3> QED BY <1>1, <1>2, <1>3, <3>1, <3>2, Unheard DEF history
  <2> QED BY <2>1, <2>2
<1> QED BY <1>1, <1>2, <1>3, <1>5, <1>6, HarnessKeeps DEF history, TurnInv, Types

LEMMA ExitsKeeps == ASSUME TurnInv, NEW o \in Ops, Exits(o) PROVE TurnInv'
<1>1. /\ o \in Runtimes /\ active = o /\ active' = None /\ rt' = Retired(active, FALSE)
      /\ UNCHANGED <<lease, stage, dispatched, started, canceled, turnId, desk, compacting, saving, calls, history>>
  BY Names DEF Exits, TurnInv, RuntimesOK
<1>2. /\ uncertain' \in BOOLEAN /\ (uncertain => uncertain')
      /\ terminal' = terminal \/ (terminal = "none" /\ terminal' = "unknown")
  BY DEF Exits, EndsAs, TurnInv, Types
<1>3. active = lease /\ dispatched => terminal' # "none"
  <2>1. ASSUME active = lease PROVE Heard(o)
    <3>1. rt[o].proc \in {"starting", "up"}
      BY DEF Exits
    <3>2. lease = o /\ stage \notin Fenced
      BY <1>1, <2>1, Names DEF TurnInv, StageOK
    <3> QED BY <3>1, <3>2, HeardByRun
  <2> QED BY <2>1 DEF Exits, EndsAs
<1>4. events' \in Nat
  BY DEF Exits, Event, TurnInv, Types
<1> QED BY <1>1, <1>2, <1>3, <1>4, ActiveGone DEF calls, history, TurnInv, Types

LEMMA DisposedKeeps == ASSUME TurnInv, NEW r \in Runtimes, Disposed(r) PROVE TurnInv'
<1> DEFINE rec == [rt[r] EXCEPT !.proc = "gone", !.turn = "none", !.work = FALSE, !.late = FALSE]
<1>1. /\ rt \in [Runtimes -> RuntimeType] /\ rt[r] \in RuntimeType
      /\ rt[r].proc = "closing" /\ rt' = [rt EXCEPT ![r] = rec]
      /\ UNCHANGED <<leaseVars, active, desk, compacting, saving, calls, events, history>>
  BY DEF Disposed, TurnInv, Types
<1>2. /\ rec \in RuntimeType /\ rec.proc = "gone" /\ rec.fenced = rt[r].fenced /\ rec.turn = "none"
      /\ rec.input = rt[r].input /\ ~rec.late
  BY <1>1 DEF RuntimeType
<1> HIDE DEF rec
<1>3. rt'[r] = rec /\ \A q \in Runtimes : q # r => rt'[q] = rt[q]
  BY <1>1
<1>4. StainsOK' /\ EndOK'
  <2>1. CASE r = lease
    BY <1>1, <1>2, <1>3, <2>1 DEF TurnInv, StainsOK, EndOK, leaseVars, history
  <2>2. CASE r # lease
    BY <1>1, <1>2, <1>3, <2>2, Unheard DEF leaseVars, history
  <2> QED BY <2>1, <2>2
<1> QED BY <1>1, <1>2, <1>3, <1>4, HarnessKeeps DEF leaseVars, saving, history, TurnInv, Types

LEMMA DeskTurnEndsKeeps == ASSUME TurnInv, DeskTurnEnds PROVE TurnInv'
<1> DEFINE rec == [rt[Desk] EXCEPT !.turn = "none"]
<1>1. /\ Desk \in Runtimes /\ rt \in [Runtimes -> RuntimeType] /\ rt[Desk] \in RuntimeType
      /\ rt[Desk].turn = "input" /\ rt' = [rt EXCEPT ![Desk] = rec]
      /\ UNCHANGED <<leaseVars, active, desk, compacting, saving, calls, events, history>>
  BY Names DEF DeskTurnEnds, TurnInv, Types
<1>2. /\ rec \in RuntimeType /\ rec.proc = rt[Desk].proc /\ rec.fenced = rt[Desk].fenced /\ rec.turn = "none"
      /\ rec.input = rt[Desk].input
  BY <1>1 DEF RuntimeType
<1> HIDE DEF rec
<1>3. rt'[Desk] = rec /\ rt[Desk].proc # "unborn" /\ Desk # lease
  BY <1>1, Names, UnbornFields DEF TurnInv, Types, RuntimesOK
<1>4. StainsOK' /\ EndOK'
  BY <1>1, <1>2, <1>3, Unheard DEF leaseVars, history
<1> QED BY <1>1, <1>2, <1>3, <1>4, HarnessKeeps DEF leaseVars, saving, history, TurnInv, Types
-----------------------------------------------------------------------------
(* The theorems. *)

LEMMA InitHolds == Init => TurnInv
<1> SUFFICES ASSUME Init PROVE TurnInv
  OBVIOUS
<1>1. Types
  BY Names, UnbornFields DEF Init, Types
<1>2. RuntimesOK /\ UncalledOK
  BY Names, UnbornFields DEF Init, RuntimesOK, UncalledOK
<1>3. StageOK /\ GivenOK /\ StainsOK /\ EndOK
  BY DEF Init, StageOK, GivenOK, StainsOK, EndOK
<1>4. OutcomesAreTrue /\ RunsKeepApart
  BY Names, UnbornFields DEF Init, OutcomesAreTrue, RunsKeepApart
<1> QED BY <1>1, <1>2, <1>3, <1>4 DEF TurnInv

LEMMA StutterKeeps == TurnInv /\ UNCHANGED vars => TurnInv'
<1> SUFFICES ASSUME TurnInv, UNCHANGED vars PROVE TurnInv'
  OBVIOUS
<1> USE DEF vars, leaseVars, session, saving, calls, history
<1>1. Types'
  BY DEF TurnInv, Types
<1>2. RuntimesOK' /\ UncalledOK' /\ StageOK' /\ GivenOK'
  BY DEF TurnInv, RuntimesOK, UncalledOK, StageOK, GivenOK
<1>3. StainsOK' /\ EndOK' /\ OutcomesAreTrue' /\ RunsKeepApart'
  BY DEF TurnInv, StainsOK, EndOK, OutcomesAreTrue, RunsKeepApart
<1> QED BY <1>1, <1>2, <1>3 DEF TurnInv

(* What the session, the lease and the harnesses of its runs satisfy in every state. *)
THEOREM TurnInvariant == Spec => []TurnInv
<1>1. ASSUME TurnInv, [Next]_vars PROVE TurnInv'
  <2>1. CASE RunStep
    BY <1>1, <2>1, AfterCompactionKeeps, AfterDisposalKeeps, MakesKeeps, StartSucceedsKeeps, PreparesKeeps,
       AnnouncesKeeps, AdmittedKeeps, UnparkedKeeps, CommitsKeeps, DispatchesKeeps, ConcludesKeeps, AcceptedKeeps,
       FlushesKeeps, ReturnsKeeps, FreesKeeps DEF RunStep
  <2>2. ASSUME NEW o \in Ops, HarnessStep(o) PROVE TurnInv'
    BY <1>1, <2>2, ExtraBeginsKeeps, ExtraEndsKeeps, ExtraReportedKeeps, WorksKeeps, WorkEndsKeeps, InputEndsKeeps,
       SendSettlesKeeps, ExitsKeeps DEF HarnessStep
  <2>3. CASE InterruptRun \/ InterruptReturns \/ StopBegins \/ StopActs
    BY <1>1, <2>3, InterruptRunKeeps, InterruptReturnsKeeps, StopBeginsKeeps, StopActsKeeps
  <2>4. CASE DeskSends \/ DeskDelivers \/ DeskTurnEnds \/ Compacts \/ CompactionEnds \/ WriteSettles
    BY <1>1, <2>4, DeskKeeps, DeskDeliversKeeps, DeskTurnEndsKeeps
  <2> QED BY <1>1, <2>1, <2>2, <2>3, <2>4, RunBeginsKeeps, DisposedKeeps, StutterKeeps DEF Next
<1> QED BY InitHolds, <1>1, PTL DEF Spec

(* A controller is told an outcome only if its input was given once, its turn ended so and the      *)
(* runtime did nothing else; and success only when the runtime is gone: after each await            *)
(* runControlled() looks again at what its observers have recorded.                                 *)
THEOREM OutcomesTrue == Spec => []OutcomesAreTrue
<1>1. TurnInv => OutcomesAreTrue
  BY DEF TurnInv
<1> QED BY <1>1, TurnInvariant, PTL

(* An interrupt or a Stop that comes before the hand-over keeps the input from the harness, at *)
(* whichever await of the run it comes.                                                         *)
THEOREM WithdrawnStaysBack == Spec => []WithdrawnIsNotGiven
<1>1. TurnInv => WithdrawnIsNotGiven
  BY DEF TurnInv, GivenOK, WithdrawnIsNotGiven
<1> QED BY <1>1, TurnInvariant, PTL

(* A run never ends a turn of the desktop, and no runtime of a finished run can speak for the session. *)
THEOREM RunsStayApart == Spec => []RunsKeepApart
<1>1. TurnInv => RunsKeepApart
  BY DEF TurnInv
<1> QED BY <1>1, TurnInvariant, PTL

(* What runControlled() returns has been saved: no write of the run is open or has failed then. *)
THEOREM ReportedSaved == Spec => ReportedIsSaved
<1> DEFINE Tells == \A o \in Ops : result'[o] \notin {result[o], "threw"} => writes = 0 /\ ~writeFailed
<1>1. ASSUME TurnInv, [Next]_vars PROVE Tells
  <2>1. SUFFICES ASSUME NEW o \in Ops, result'[o] \notin {result[o], "threw"} PROVE writes = 0 /\ ~writeFailed
    OBVIOUS
  <2>2. result \in [Ops -> {"none", "threw", "unknown"} \cup RunOutcomes]
    BY <1>1 DEF TurnInv, Types
  <2>3. result' # result
    BY <2>1
  <2>4. ~Throws
    BY <2>1, <2>2 DEF Throws, Ends
  <2>5. ~Frees
    BY <2>1, <2>2 DEF Frees, Ends
  <2>6. ~\E p \in Ops : RunBegins(p)
    BY <2>1, <2>2 DEF RunBegins
  <2>7. RunStep
    <3>1. ASSUME NEW p \in Ops, HarnessStep(p) PROVE FALSE
      BY <2>3, <3>1 DEF HarnessStep, ExtraBegins, ExtraEnds, ExtraReported, Works, WorkEnds, InputEnds, SendSettles,
                        Exits, history
    <3>2. ~(InterruptRun \/ InterruptReturns \/ StopBegins \/ StopActs)
      BY <2>3 DEF InterruptRun, InterruptReturns, StopBegins, StopActs, history
    <3>3. ~(DeskSends \/ DeskDelivers \/ DeskTurnEnds \/ Compacts \/ CompactionEnds \/ WriteSettles)
      BY <2>3 DEF DeskSends, DeskDelivers, DeskTurnEnds, Compacts, CompactionEnds, WriteSettles, history
    <3>4. ~\E r \in Runtimes : Disposed(r)
      BY <2>3 DEF Disposed, history
    <3>5. ~UNCHANGED vars
      BY <2>3 DEF vars, history
    <3> QED BY <1>1, <2>6, <3>1, <3>2, <3>3, <3>4, <3>5 DEF Next
  <2>8. Returns
    BY <2>3, <2>4, <2>5, <2>7
       DEF RunStep, AfterCompaction, AfterDisposal, Makes, StartSucceeds, Prepares, Announces, Admitted, Saved, Unparked,
           Commits, Dispatches, Concludes, Accepted, Flushes, history
  <2> QED BY <2>4, <2>8 DEF Returns, Saved
<1>2. TurnInv /\ [Next]_vars => [Tells]_vars
  BY <1>1
<1>3. [][Tells]_vars => ReportedIsSaved
  BY DEF ReportedIsSaved
<1> QED BY <1>2, <1>3, TurnInvariant, PTL DEF Spec

-----------------------------------------------------------------------------
(* The goal. *)

GoalRecords == [id : 0 .. MaxCalls, status : {"none", "active", "paused", "complete"},
                iterations : 0 .. MaxIterations, auto : BOOLEAN]
Prompts == [of : 0 .. MaxCalls, at : {"starting", "compacting", "preparing"}]
Turns == [since : Nat, told : SUBSET Goals, says : BOOLEAN, cut : BOOLEAN]
Continuations == [goal : Goals, kickoff : BOOLEAN, attempt : Nat]

GoalTypes ==
  /\ GoalTypeOK
  /\ adapter \in {"codex", "native", "pi"}
  /\ goal.id # 0 <=> goal.status # "none"
  /\ sets \in Nat /\ goalCalls \in Nat /\ goal.id <= sets /\ sets <= goalCalls /\ goalCalls <= MaxCalls
  /\ turn \subseteq Turns /\ told \subseteq Goals /\ timer \subseteq Continuations
  /\ token \in BOOLEAN /\ asked \in BOOLEAN /\ driven \in BOOLEAN
  /\ starts \in Nat /\ prompts \in Nat

(* A runtime that is up and has no turn, nor one to report, is idle. *)
PhaseOK ==
  /\ \A k \in DOMAIN sends : sends[k].at # "starting" => runtime = "up"
  /\ driven => runtime = "up"
  /\ settling # {} => runtime = "up" /\ adapter # "codex"
  /\ runtime = "up" /\ turn = {} /\ settling = {} => status = "idle"

(* The one timer is the present goal's; a reserved kickoff has no check-in beside it. *)
TimerOK ==
  \A c \in timer : timer = {c} /\ c.goal = goal.id /\ pending = IF c.kickoff THEN goal.id ELSE 0

(* A prompt that is still to be sent: it is counted already as if it had been. *)
Owed == IF pending # 0 \/ timer # {} THEN 1 ELSE 0

CountOK == goal.id # 0 => prompts + Owed <= starts + goal.iterations

(* The native adapter awaits an answer that it no longer needs only in a turn that was interrupted, *)
(* which calls for no check-in.                                                                      *)
AwaitOK ==
  adapter = "native" =>
    /\ status = "awaiting" /\ ~asked => \A t \in turn : t.cut
    /\ driven /\ turn = {} => status # "awaiting"

Sending == \E k \in DOMAIN sends : sends[k].of = goal.id

(* What NeverStalls promises; only over Pi does a turn that is being reported count. *)
StallOK ==
  driven /\ goal.status = "active" =>
    \/ timer # {} \/ turn # {} \/ queue # <<>> \/ (adapter = "pi" /\ settling # {})
    \/ Sending

(* A turn that began before the goal was set is over, or the goal still waits for its kickoff. *)
SinceOK == goal.status = "active" /\ pending # goal.id => \A t \in turn : t.since >= goal.id

(* The token is that of the turn under way. *)
TokenOK == adapter # "pi" /\ token => turn # {} /\ \A t \in turn : t.says

GoalInv ==
  GoalTypes /\ PhaseOK /\ TimerOK /\ CountOK /\ AwaitOK /\ StallOK /\ SinceOK /\ TokenOK

-----------------------------------------------------------------------------
(* The prompts on their way. *)

(* One more. *)
LEMMA SendsAppend ==
  ASSUME NEW q \in Seq(Prompts), NEW p \in Prompts
  PROVE  /\ Append(q, p) \in Seq(Prompts) /\ Len(Append(q, p)) = Len(q) + 1
         /\ Append(q, p)[Len(q) + 1] = p /\ Len(q) + 1 \in DOMAIN Append(q, p)
         /\ \A k \in DOMAIN q : k \in DOMAIN Append(q, p) /\ Append(q, p)[k] = q[k]
         /\ \A k \in DOMAIN Append(q, p) : Append(q, p)[k] = p \/ (k \in DOMAIN q /\ Append(q, p)[k] = q[k])
  OBVIOUS

(* One less: the others stay. *)
LEMMA SendsRemove ==
  ASSUME NEW q \in Seq(Prompts), NEW k \in DOMAIN q
  PROVE  /\ RemoveAt(q, k) \in Seq(Prompts)
         /\ \A j \in DOMAIN RemoveAt(q, k) : \E i \in DOMAIN q : RemoveAt(q, k)[j] = q[i]
         /\ \A i \in DOMAIN q : i # k => \E j \in DOMAIN RemoveAt(q, k) : RemoveAt(q, k)[j] = q[i]
<1> DEFINE before == SubSeq(q, 1, k - 1)
           after == SubSeq(q, k + 1, Len(q))
<1>1. k \in 1 .. Len(q) /\ Len(q) \in Nat
  OBVIOUS
<1>2. before \in Seq(Prompts) /\ Len(before) = k - 1 /\ \A i \in 1 .. k - 1 : before[i] = q[i]
  BY <1>1
<1>3. after \in Seq(Prompts) /\ Len(after) = Len(q) - k /\ \A i \in 1 .. Len(q) - k : after[i] = q[i + k]
  BY <1>1
<1>4. RemoveAt(q, k) = before \o after
  BY DEF RemoveAt
<1> HIDE DEF before, after
<1>5. before \o after \in Seq(Prompts) /\ Len(before \o after) = Len(q) - 1
  BY <1>1, <1>2, <1>3
<1>6. \A j \in 1 .. Len(q) - 1 : (before \o after)[j] = IF j < k THEN q[j] ELSE q[j + 1]
  <2>1. TAKE j \in 1 .. Len(q) - 1
  <2>2. CASE j < k
    BY <2>2, <1>1, <1>2, <1>3
  <2>3. CASE ~(j < k)
    <3>1. j - (k - 1) \in 1 .. Len(q) - k /\ (before \o after)[j] = after[j - (k - 1)]
      BY <2>3, <1>1, <1>2, <1>3
    <3>2. after[j - (k - 1)] = q[j - (k - 1) + k] /\ j - (k - 1) + k = j + 1
      BY <3>1, <1>1, <1>3
    <3>3. QED BY <3>1, <3>2, <2>3
  <2>4. QED BY <2>2, <2>3
<1>7. DOMAIN q = 1 .. Len(q) /\ DOMAIN (before \o after) = 1 .. Len(q) - 1
  <2>1. DOMAIN q = 1 .. Len(q)
    OBVIOUS
  <2>2. DOMAIN (before \o after) = 1 .. Len(before \o after)
    BY <1>5
  <2>3. QED BY <2>1, <2>2, <1>5
<1>8. ASSUME NEW j \in 1 .. Len(q) - 1 PROVE \E i \in 1 .. Len(q) : (before \o after)[j] = q[i]
  <2>1. j \in 1 .. Len(q) /\ j + 1 \in 1 .. Len(q)
    BY <1>1
  <2>2. (before \o after)[j] = IF j < k THEN q[j] ELSE q[j + 1]
    BY <1>6
  <2>3. QED BY <2>1, <2>2
<1>9. ASSUME NEW i \in 1 .. Len(q), i # k PROVE \E j \in 1 .. Len(q) - 1 : (before \o after)[j] = q[i]
  <2>1. CASE i < k
    <3>1. i \in 1 .. Len(q) - 1
      BY <2>1, <1>1
    <3>2. QED BY <2>1, <3>1, <1>6
  <2>2. CASE k < i
    <3>1. i - 1 \in 1 .. Len(q) - 1 /\ ~(i - 1 < k) /\ i - 1 + 1 = i
      BY <2>2, <1>1
    <3>2. (before \o after)[i - 1] = q[i - 1 + 1]
      BY <3>1, <1>6
    <3>3. QED BY <3>1, <3>2
  <2>3. i < k \/ k < i
    BY <1>1, <1>9
  <2>4. QED BY <2>1, <2>2, <2>3
<1>10. QED BY <1>4, <1>5, <1>7, <1>8, <1>9

(* An await is over. *)
LEMMA SendsResumed ==
  ASSUME NEW at, sends \in Seq(Prompts)
  PROVE  /\ Resumed(at) \in Seq(Prompts) /\ DOMAIN Resumed(at) = DOMAIN sends
         /\ \A k \in DOMAIN sends : Resumed(at)[k].of = sends[k].of
  <1>1. DOMAIN sends = 1 .. Len(sends) /\ Len(sends) \in Nat /\ \A k \in DOMAIN sends : sends[k] \in Prompts
    OBVIOUS
  <1>2. \A k \in DOMAIN sends :
          /\ Resumed(at)[k] \in Prompts
          /\ Resumed(at)[k].of = sends[k].of
    BY <1>1 DEF Resumed, Prompts
  <1>3. Resumed(at) = [k \in 1 .. Len(sends) |-> Resumed(at)[k]]
    BY <1>1 DEF Resumed
  <1>4. Resumed(at) \in [1 .. Len(sends) -> Prompts]
    BY <1>1, <1>2, <1>3
  <1>5. Resumed(at) \in Seq(Prompts)
    BY <1>1, <1>4
  <1>6. QED BY <1>1, <1>2, <1>5 DEF Resumed

(* What sendAs() does up to its first await. *)
LEMMA SendAsFacts ==
  ASSUME GoalTypes, PhaseOK, NEW id \in 0 .. MaxCalls, SendAs(id)
  PROVE  /\ sends' \in Seq(Prompts) /\ Len(sends') = Len(sends) + 1
         /\ \E k \in DOMAIN sends' : sends'[k].of = id
         /\ \A k \in DOMAIN sends : k \in DOMAIN sends' /\ sends'[k] = sends[k]
         /\ \A k \in DOMAIN sends' : sends'[k].at # "starting" => runtime' = "up"
         /\ runtime = "none" => runtime' = "starting" /\ status' = "starting"
         /\ runtime # "none" => UNCHANGED <<runtime, status>>
<1> DEFINE at == IF runtime # "up" THEN "starting" ELSE IF inCompaction THEN "compacting" ELSE "preparing"
           p == [of |-> id, at |-> at]
<1>1. sends \in Seq(Prompts)
  BY DEF GoalTypes, GoalTypeOK, Prompts
<1>2. p \in Prompts /\ p.of = id /\ p.at = at /\ (at # "starting" => runtime = "up")
  BY DEF Prompts
<1>3. sends' = Append(sends, p)
  BY DEF SendAs
<1>4. /\ runtime = "none" => runtime' = "starting" /\ status' = "starting"
      /\ runtime # "none" => UNCHANGED <<runtime, status>>
  BY DEF SendAs
<1>5. runtime = "up" => runtime' = "up"
  BY <1>4
<1>6. \A k \in DOMAIN sends : sends[k].at # "starting" => runtime = "up"
  BY DEF PhaseOK
<1> HIDE DEF p, at
<1>7. /\ Append(sends, p) \in Seq(Prompts) /\ Len(Append(sends, p)) = Len(sends) + 1
      /\ Append(sends, p)[Len(sends) + 1] = p /\ Len(sends) + 1 \in DOMAIN Append(sends, p)
      /\ \A k \in DOMAIN sends : k \in DOMAIN Append(sends, p) /\ Append(sends, p)[k] = sends[k]
      /\ \A k \in DOMAIN Append(sends, p) :
           Append(sends, p)[k] = p \/ (k \in DOMAIN sends /\ Append(sends, p)[k] = sends[k])
  BY <1>1, <1>2, SendsAppend
<1>8. \A k \in DOMAIN sends' : sends'[k].at # "starting" => runtime' = "up"
  BY <1>2, <1>3, <1>5, <1>6, <1>7
<1>9. \E k \in DOMAIN sends' : sends'[k].of = id
  BY <1>2, <1>3, <1>7
<1>10. QED BY <1>3, <1>4, <1>7, <1>8, <1>9

(* What an idle moment does: a kickoff that waits for it is timed. *)
Kickoff(id, t) == pending # 0 /\ pending = id /\ t = {Continuation(id, TRUE, 0)}

LEMMA IdlesFacts ==
  ASSUME NEW g, NEW t, Idles(g, t)
  PROVE  /\ asked => UNCHANGED status
         /\ ~asked => status' = "idle"
         /\ timer' = t \/ Kickoff(g.id, timer')
BY DEF Idles, Kickoff

(* What a turn's report makes of the goal. *)
LEMMA GoalAfterFacts ==
  ASSUME GoalTypes, NEW outcome
  PROVE  /\ GoalAfter(outcome) \in GoalRecords
         /\ GoalAfter(outcome).id = goal.id
         /\ goal.status # "none" <=> GoalAfter(outcome).status # "none"
         /\ GoalAfter(outcome).status = "active" => goal.status = "active"
         /\ GoalAfter(outcome) # goal => Counts(outcome)
         /\ GoalAfter(outcome) # goal /\ GoalAfter(outcome).status = "complete" => token
         /\ IF Continues(outcome)
            THEN /\ goal.id # 0 /\ pending = 0 /\ outcome = "completed"
                 /\ GoalAfter(outcome).iterations = goal.iterations + 1
                 /\ TimerAfter(outcome) = {Continuation(goal.id, FALSE, 0)}
            ELSE GoalAfter(outcome).iterations = goal.iterations /\ TimerAfter(outcome) = timer
<1>1. /\ goal \in GoalRecords /\ pending \in {0, goal.id} /\ token \in BOOLEAN
      /\ goal.id # 0 <=> goal.status # "none"
      /\ goal.id \in 0 .. MaxCalls /\ goal.iterations \in 0 .. MaxIterations /\ goal.auto \in BOOLEAN
      /\ goal.status \in {"none", "active", "paused", "complete"}
  BY DEF GoalTypes, GoalTypeOK, GoalRecords
<1>2. MaxIterations \in Nat
  BY GoalLoopAssumption
<1> DEFINE g == GoalAfter(outcome)
<1>3. CASE ~Counts(outcome)
  <2>1. g = goal /\ ~Continues(outcome) /\ TimerAfter(outcome) = timer
    BY <1>3 DEF GoalAfter, Continues, TimerAfter
  <2>2. QED BY <1>1, <2>1
<1>4. CASE Counts(outcome)
  <2>1. goal.status = "active" /\ pending = 0 /\ goal.id # 0 /\ outcome = "completed"
    BY <1>1, <1>4 DEF Counts
  <2>2. CASE token
    <3>1. g = [goal EXCEPT !.status = "complete"] /\ ~Continues(outcome) /\ TimerAfter(outcome) = timer
      BY <1>4, <2>2 DEF GoalAfter, Continues, TimerAfter
    <3>2. /\ g \in GoalRecords /\ g.id = goal.id /\ g.status = "complete" /\ g.iterations = goal.iterations
      BY <1>1, <3>1 DEF GoalRecords
    <3>3. QED BY <1>1, <1>4, <2>1, <2>2, <3>1, <3>2
  <2>3. CASE ~token /\ ~goal.auto
    <3>1. g = goal /\ ~Continues(outcome) /\ TimerAfter(outcome) = timer
      BY <1>4, <2>3 DEF GoalAfter, Continues, TimerAfter
    <3>2. QED BY <1>1, <3>1
  <2>4. CASE ~token /\ goal.auto /\ goal.iterations >= MaxIterations
    <3>1. ~(goal.iterations < MaxIterations)
      BY <1>1, <1>2, <2>4
    <3>2. g = [goal EXCEPT !.status = "paused"] /\ ~Continues(outcome) /\ TimerAfter(outcome) = timer
      BY <1>4, <2>4, <3>1 DEF GoalAfter, Continues, TimerAfter
    <3>3. /\ g \in GoalRecords /\ g.id = goal.id /\ g.status = "paused" /\ g.iterations = goal.iterations
      BY <1>1, <3>2 DEF GoalRecords
    <3>4. QED BY <1>1, <1>4, <2>1, <3>2, <3>3
  <2>5. CASE ~token /\ goal.auto /\ ~(goal.iterations >= MaxIterations)
    <3>1. goal.iterations < MaxIterations /\ goal.iterations + 1 \in 0 .. MaxIterations
      BY <1>1, <1>2, <2>5
    <3>2. /\ g = [goal EXCEPT !.iterations = @ + 1] /\ Continues(outcome)
          /\ TimerAfter(outcome) = {Continuation(goal.id, FALSE, 0)}
      BY <1>4, <2>5, <3>1 DEF GoalAfter, Continues, TimerAfter
    <3>3. g \in GoalRecords /\ g.id = goal.id /\ g.status = "active" /\ g.iterations = goal.iterations + 1
      BY <1>1, <2>1, <3>1, <3>2 DEF GoalRecords
    <3>4. QED BY <1>1, <1>4, <2>1, <3>2, <3>3
  <2>6. QED BY <2>2, <2>3, <2>4, <2>5
<1>5. QED BY <1>3, <1>4

-----------------------------------------------------------------------------
(* Each step keeps the invariant. *)

(* An answer marks the turn. *)
LEMMA InvTurnAnswers ==
  ASSUME GoalInv, TurnAnswers, UNCHANGED adapter
  PROVE  GoalInv'
<1>a. /\ turn # {} /\ turn \subseteq Turns
      /\ UNCHANGED <<goal, status, runtime, sends, pending, timer, settling, queue, asked, sets, goalCalls,
                     told, starts, prompts, driven>>
  BY DEF GoalInv, GoalTypes, TurnAnswers, bounds, goalHistory
<1>b. PICK says \in BOOLEAN : token' = says /\ turn' = {[t EXCEPT !.says = says] : t \in turn}
  BY DEF TurnAnswers
<1>c. \A t \in turn : LET u == [t EXCEPT !.says = says]
                      IN u \in Turns /\ u.says = says /\ u.since = t.since /\ u.cut = t.cut
  BY <1>a DEF Turns
<1>d. turn' # {} /\ turn' \subseteq Turns
  BY <1>a, <1>b, <1>c
<1>e. \A u \in turn' : u.says = says /\ \E t \in turn : u.since = t.since /\ u.cut = t.cut
  BY <1>b, <1>c
<1>1. GoalTypes'
  <2>1. token' \in BOOLEAN
    BY <1>b
  <2>2. GoalTypeOK'
    BY <1>a, <1>d DEF GoalInv, GoalTypes, GoalTypeOK
  <2>3. QED BY <1>a, <1>d, <2>1, <2>2 DEF GoalInv, GoalTypes
<1>2. PhaseOK'
  BY <1>a, <1>d DEF GoalInv, PhaseOK
<1>3. TimerOK'
  BY DEF GoalInv, TurnAnswers, TimerOK, harness, bounds, goalHistory
<1>4. CountOK'
  BY <1>a DEF GoalInv, CountOK, Owed
<1>5. AwaitOK'
  BY <1>a, <1>d, <1>e DEF GoalInv, AwaitOK
<1>6. StallOK'
  BY <1>d DEF StallOK
<1>7. SinceOK'
  BY <1>a, <1>e DEF GoalInv, SinceOK
<1>8. TokenOK'
  BY <1>b, <1>d, <1>e DEF TokenOK
<1>9. QED BY <1>1, <1>2, <1>3, <1>4, <1>5, <1>6, <1>7, <1>8 DEF GoalInv

(* A turn asks. *)
LEMMA InvRequestApproval ==
  ASSUME GoalInv, RequestApproval, UNCHANGED adapter
  PROVE  GoalInv'
<1>1. GoalTypes'
  BY DEF GoalInv, RequestApproval, GoalTypes, GoalTypeOK, harness, bounds, goalHistory
<1>2. PhaseOK'
  BY DEF GoalInv, RequestApproval, PhaseOK, GoalTypes, GoalTypeOK, harness, bounds, goalHistory
<1>3. TimerOK'
  BY DEF GoalInv, RequestApproval, TimerOK, harness, bounds, goalHistory
<1>4. CountOK'
  BY DEF GoalInv, RequestApproval, CountOK, Owed, harness, bounds, goalHistory
<1>5. AwaitOK'
  BY DEF GoalInv, RequestApproval, AwaitOK, harness, bounds, goalHistory
<1>6. StallOK'
  BY DEF GoalInv, RequestApproval, StallOK, Sending, harness, bounds, goalHistory
<1>7. SinceOK'
  BY DEF GoalInv, RequestApproval, SinceOK, harness, bounds, goalHistory
<1>8. TokenOK'
  BY DEF GoalInv, RequestApproval, TokenOK, GoalTypes, harness, bounds, goalHistory
<1>9. QED BY <1>1, <1>2, <1>3, <1>4, <1>5, <1>6, <1>7, <1>8 DEF GoalInv

(* A turn is answered. *)
LEMMA InvRespondApproval ==
  ASSUME GoalInv, RespondApproval, UNCHANGED adapter
  PROVE  GoalInv'
<1>1. GoalTypes'
  BY DEF GoalInv, RespondApproval, GoalTypes, GoalTypeOK, harness, bounds, goalHistory
<1>2. PhaseOK'
  BY DEF GoalInv, RespondApproval, PhaseOK, GoalTypes, GoalTypeOK, harness, bounds, goalHistory
<1>3. TimerOK'
  BY DEF GoalInv, RespondApproval, TimerOK, harness, bounds, goalHistory
<1>4. CountOK'
  BY DEF GoalInv, RespondApproval, CountOK, Owed, harness, bounds, goalHistory
<1>5. AwaitOK'
  BY DEF GoalInv, RespondApproval, AwaitOK, harness, bounds, goalHistory
<1>6. StallOK'
  BY DEF GoalInv, RespondApproval, StallOK, Sending, harness, bounds, goalHistory
<1>7. SinceOK'
  BY DEF GoalInv, RespondApproval, SinceOK, harness, bounds, goalHistory
<1>8. TokenOK'
  BY DEF GoalInv, RespondApproval, TokenOK, GoalTypes, harness, bounds, goalHistory
<1>9. QED BY <1>1, <1>2, <1>3, <1>4, <1>5, <1>6, <1>7, <1>8 DEF GoalInv

(* A turn is cut. *)
LEMMA InvInterrupt ==
  ASSUME GoalInv, Interrupt, UNCHANGED adapter
  PROVE  GoalInv'
<1>a. /\ turn # {} /\ turn \subseteq Turns /\ asked' = FALSE
      /\ UNCHANGED <<goal, status, runtime, sends, pending, timer, token, settling, queue, sets, goalCalls,
                     told, starts, prompts, driven>>
  BY DEF GoalInv, GoalTypes, Interrupt, bounds, goalHistory
<1>b. turn' = {[t EXCEPT !.cut = TRUE] : t \in turn}
  BY DEF Interrupt
<1>c. \A t \in turn : LET u == [t EXCEPT !.cut = TRUE]
                      IN u \in Turns /\ u.cut /\ u.since = t.since /\ u.says = t.says
  BY <1>a DEF Turns
<1>d. turn' # {} /\ turn' \subseteq Turns
  BY <1>a, <1>b, <1>c
<1>e. \A u \in turn' : u.cut /\ \E t \in turn : u.since = t.since /\ u.says = t.says
  BY <1>b, <1>c
<1>1. GoalTypes'
  <2>1. GoalTypeOK'
    BY <1>a, <1>d DEF GoalInv, GoalTypes, GoalTypeOK
  <2>2. QED BY <1>a, <1>d, <2>1 DEF GoalInv, GoalTypes
<1>2. PhaseOK'
  BY <1>a, <1>d DEF GoalInv, PhaseOK
<1>3. TimerOK'
  BY DEF GoalInv, Interrupt, TimerOK, harness, bounds, goalHistory
<1>4. CountOK'
  BY <1>a DEF GoalInv, CountOK, Owed
<1>5. AwaitOK'
  BY <1>d, <1>e DEF AwaitOK
<1>6. StallOK'
  BY <1>d DEF StallOK
<1>7. SinceOK'
  BY <1>a, <1>e DEF GoalInv, SinceOK
<1>8. TokenOK'
  BY <1>a, <1>d, <1>e DEF GoalInv, TokenOK
<1>9. QED BY <1>1, <1>2, <1>3, <1>4, <1>5, <1>6, <1>7, <1>8 DEF GoalInv

(* A compaction begins. *)
LEMMA InvCompact ==
  ASSUME GoalInv, Compact, UNCHANGED adapter
  PROVE  GoalInv'
<1>1. GoalTypes'
  BY DEF GoalInv, Compact, GoalTypes, GoalTypeOK, harness, bounds, goalHistory
<1>2. PhaseOK'
  BY DEF GoalInv, Compact, PhaseOK, GoalTypes, GoalTypeOK, harness, bounds, goalHistory
<1>3. TimerOK'
  BY DEF GoalInv, Compact, TimerOK, harness, bounds, goalHistory
<1>4. CountOK'
  BY DEF GoalInv, Compact, CountOK, Owed, harness, bounds, goalHistory
<1>5. AwaitOK'
  BY DEF GoalInv, Compact, AwaitOK, harness, bounds, goalHistory
<1>6. StallOK'
  BY DEF GoalInv, Compact, StallOK, Sending, harness, bounds, goalHistory
<1>7. SinceOK'
  BY DEF GoalInv, Compact, SinceOK, harness, bounds, goalHistory
<1>8. TokenOK'
  BY DEF GoalInv, Compact, TokenOK, GoalTypes, harness, bounds, goalHistory
<1>9. QED BY <1>1, <1>2, <1>3, <1>4, <1>5, <1>6, <1>7, <1>8 DEF GoalInv

(* Everything of a runtime ends with it. *)
LEMMA InvRuntimeEnds ==
  ASSUME GoalInv, RuntimeEnds, UNCHANGED adapter
  PROVE  GoalInv'
<1>a. /\ runtime' = "none" /\ sends' = <<>> /\ pending' = 0 /\ timer' = {} /\ token' = FALSE
      /\ turn' = {} /\ settling' = {} /\ asked' = FALSE /\ driven' = FALSE
      /\ UNCHANGED <<goal, sets, goalCalls, told, starts, prompts>>
  BY DEF RuntimeEnds, bounds
<1>b. sends' \in Seq(Prompts) /\ DOMAIN sends' = {}
  BY <1>a
<1>c. pending' \in {0, goal'.id} /\ turn' \subseteq Turns /\ timer' \subseteq Continuations
  BY <1>a
<1>1. GoalTypes'
  BY <1>a, <1>b, <1>c DEF GoalInv, GoalTypes, GoalTypeOK, Prompts
<1>2. PhaseOK'
  BY <1>a, <1>b DEF PhaseOK
<1>3. TimerOK'
  BY <1>a DEF TimerOK
<1>4. CountOK'
  <2>1. Owed' = 0
    BY <1>a DEF Owed
  <2>2. prompts \in Nat /\ Owed \in {0, 1}
    BY DEF GoalInv, GoalTypes, Owed
  <2>3. prompts + Owed' <= prompts + Owed
    BY <2>1, <2>2
  <2>4. goal.id # 0 => prompts + Owed' <= starts + goal.iterations
    BY <2>1, <2>2 DEF GoalInv, CountOK, GoalTypes, GoalTypeOK
  <2>5. QED BY <1>a, <2>4 DEF CountOK
<1>5. AwaitOK'
  BY DEF GoalInv, RuntimeEnds, AwaitOK, harness, bounds, goalHistory
<1>6. StallOK'
  BY DEF GoalInv, RuntimeEnds, StallOK, Sending, harness, bounds, goalHistory
<1>7. SinceOK'
  BY DEF GoalInv, RuntimeEnds, SinceOK, harness, bounds, goalHistory
<1>8. TokenOK'
  BY DEF GoalInv, RuntimeEnds, TokenOK, GoalTypes, harness, bounds, goalHistory
<1>9. QED BY <1>1, <1>2, <1>3, <1>4, <1>5, <1>6, <1>7, <1>8 DEF GoalInv

(* The timer waits on, or gives a busy session up: a turn runs that will call for the next check-in. *)
LEMMA InvWaits ==
  ASSUME GoalInv, Waits, UNCHANGED adapter
  PROVE  GoalInv'
<1>a. UNCHANGED <<goal, status, runtime, sends, pending, token, turn, settling, queue, asked, sets, goalCalls,
                  told, starts, prompts, driven>>
  BY DEF Waits, harness, bounds, goalHistory
<1>b. PICK c \in timer : /\ ~Drops(c) /\ Held
                         /\ \/ GivesUp(c) /\ timer' = {}
                            \/ timer' = {[c EXCEPT !.attempt = @ + 1]}
  BY DEF Waits
<1>c. c \in Continuations /\ [c EXCEPT !.attempt = @ + 1] \in Continuations
      /\ [c EXCEPT !.attempt = @ + 1].goal = c.goal /\ [c EXCEPT !.attempt = @ + 1].kickoff = c.kickoff
  BY DEF GoalInv, GoalTypes, Continuations
<1>d. timer # {} /\ c.goal = goal.id /\ pending = IF c.kickoff THEN goal.id ELSE 0
  BY DEF GoalInv, TimerOK
<1>e. timer' \subseteq Continuations
  BY <1>b, <1>c
<1>1. GoalTypes'
  BY <1>a, <1>e DEF GoalInv, GoalTypes, GoalTypeOK
<1>2. PhaseOK'
  BY <1>a DEF GoalInv, PhaseOK
<1>3. TimerOK'
  BY <1>a, <1>b, <1>c, <1>d DEF TimerOK
<1>4. CountOK'
  <2>1. Owed = 1 /\ Owed' \in {0, 1}
    BY <1>d DEF Owed
  <2>2. prompts \in Nat /\ starts \in Nat /\ goal.iterations \in Nat
    BY GoalLoopAssumption DEF GoalInv, GoalTypes, GoalTypeOK
  <2>3. goal.id # 0 => prompts + Owed' <= starts + goal.iterations
    BY <2>1, <2>2 DEF GoalInv, CountOK
  <2>4. QED BY <1>a, <2>3 DEF CountOK
<1>5. AwaitOK'
  BY <1>a DEF GoalInv, AwaitOK
<1>6. StallOK'
  <2>1. CASE timer' = {}
    <3>1. settling = {}
      BY <1>b, <2>1 DEF GivesUp
    <3>2. driven => turn # {}
      <4>1. driven => runtime = "up"
        BY DEF GoalInv, PhaseOK
      <4>2. driven /\ turn = {} => status = "idle"
        BY <3>1, <4>1 DEF GoalInv, PhaseOK
      <4>3. QED BY <1>b, <4>2 DEF Held
    <3>3. QED BY <1>a, <3>2 DEF StallOK
  <2>2. QED BY <2>1 DEF StallOK
<1>7. SinceOK'
  BY <1>a DEF GoalInv, SinceOK
<1>8. TokenOK'
  BY <1>a DEF GoalInv, TokenOK
<1>9. QED BY <1>1, <1>2, <1>3, <1>4, <1>5, <1>6, <1>7, <1>8 DEF GoalInv

(* A timer that lapses was not the only hope of an active goal: a turn is behind the approval. *)
LEMMA InvLapses ==
  ASSUME GoalInv, Lapses, UNCHANGED adapter
  PROVE  GoalInv'
<1>a. UNCHANGED <<goal, status, runtime, sends, pending, token, turn, settling, queue, asked, sets, goalCalls,
                  told, starts, prompts, driven>>
  BY DEF Lapses, harness, bounds, goalHistory
<1>b. PICK c \in timer : Drops(c) /\ timer' = {}
  BY DEF Lapses
<1>d. timer # {} /\ c.goal = goal.id /\ pending = IF c.kickoff THEN goal.id ELSE 0
  BY DEF GoalInv, TimerOK
<1>1. GoalTypes'
  BY <1>a, <1>b DEF GoalInv, GoalTypes, GoalTypeOK
<1>2. PhaseOK'
  BY <1>a DEF GoalInv, PhaseOK
<1>3. TimerOK'
  BY <1>b DEF TimerOK
<1>4. CountOK'
  <2>1. Owed = 1 /\ Owed' \in {0, 1}
    BY <1>d DEF Owed
  <2>2. prompts \in Nat /\ starts \in Nat /\ goal.iterations \in Nat
    BY GoalLoopAssumption DEF GoalInv, GoalTypes, GoalTypeOK
  <2>3. goal.id # 0 => prompts + Owed' <= starts + goal.iterations
    BY <2>1, <2>2 DEF GoalInv, CountOK
  <2>4. QED BY <1>a, <2>3 DEF CountOK
<1>5. AwaitOK'
  BY <1>a DEF GoalInv, AwaitOK
<1>6. StallOK'
  <2>1. goal.status = "active" => Due(c)
    BY <1>d DEF Due
  <2>2. goal.status = "active" => status = "awaiting"
    BY <1>b, <2>1 DEF Drops
  <2>3. driven /\ status = "awaiting" => turn # {} \/ (adapter = "pi" /\ settling # {})
    <3>1. CASE adapter = "native"
      BY <3>1 DEF GoalInv, AwaitOK
    <3>2. CASE adapter # "native"
      <4>1. driven => runtime = "up"
        BY DEF GoalInv, PhaseOK
      <4>2. driven /\ status = "awaiting" => turn # {} \/ settling # {}
        BY <4>1 DEF GoalInv, PhaseOK
      <4>3. settling # {} => adapter = "pi"
        BY <3>2 DEF GoalInv, PhaseOK, GoalTypes
      <4>4. QED BY <4>2, <4>3
    <3>3. QED BY <3>1, <3>2
  <2>4. QED BY <1>a, <2>2, <2>3 DEF StallOK
<1>7. SinceOK'
  BY <1>a DEF GoalInv, SinceOK
<1>8. TokenOK'
  BY <1>a DEF GoalInv, TokenOK
<1>9. QED BY <1>1, <1>2, <1>3, <1>4, <1>5, <1>6, <1>7, <1>8 DEF GoalInv

(* Pi is free, and has still to report. *)
LEMMA InvPiTurnEnds ==
  ASSUME GoalInv, PiTurnEnds, UNCHANGED adapter
  PROVE  GoalInv'
<1>1. GoalTypes'
  BY DEF GoalInv, PiTurnEnds, GoalTypes, GoalTypeOK, harness, bounds, goalHistory
<1>2. PhaseOK'
  BY DEF GoalInv, PiTurnEnds, PhaseOK, GoalTypes, GoalTypeOK, harness, bounds, goalHistory
<1>3. TimerOK'
  BY DEF GoalInv, PiTurnEnds, TimerOK, harness, bounds, goalHistory
<1>4. CountOK'
  BY DEF GoalInv, PiTurnEnds, CountOK, Owed, harness, bounds, goalHistory
<1>5. AwaitOK'
  BY DEF GoalInv, PiTurnEnds, AwaitOK, harness, bounds, goalHistory
<1>6. StallOK'
  BY DEF GoalInv, PiTurnEnds, StallOK, Sending, harness, bounds, goalHistory
<1>7. SinceOK'
  BY DEF GoalInv, PiTurnEnds, SinceOK, harness, bounds, goalHistory
<1>8. TokenOK'
  BY DEF GoalInv, PiTurnEnds, TokenOK, GoalTypes, harness, bounds, goalHistory
<1>9. QED BY <1>1, <1>2, <1>3, <1>4, <1>5, <1>6, <1>7, <1>8 DEF GoalInv

(* An idle moment leaves the timer right. *)
LEMMA Retimed ==
  ASSUME GoalInv, timer' = timer \/ Kickoff(goal.id, timer'), UNCHANGED <<goal, pending, prompts, starts>>
  PROVE  /\ TimerOK' /\ CountOK' /\ timer' \subseteq Continuations
         /\ timer # {} => timer' # {}
<1>1. /\ goal.id \in 0 .. MaxCalls /\ pending \in {0, goal.id} /\ timer \subseteq Continuations
      /\ MaxCalls \in Nat
  BY GoalLoopAssumption DEF GoalInv, GoalTypes, GoalTypeOK
<1>2. CASE timer' = timer
  <2>1. TimerOK'
    BY <1>2 DEF GoalInv, TimerOK
  <2>2. CountOK'
    BY <1>2 DEF GoalInv, CountOK, Owed
  <2>3. QED BY <2>1, <2>2, <1>1, <1>2
<1>3. CASE Kickoff(goal.id, timer')
  <2>1. pending # 0 /\ pending = goal.id /\ timer' = {Continuation(goal.id, TRUE, 0)}
    BY <1>3 DEF Kickoff
  <2>2. goal.id \in Goals
    BY <1>1, <2>1 DEF Goals
  <2>3. /\ Continuation(goal.id, TRUE, 0) \in Continuations
        /\ Continuation(goal.id, TRUE, 0).goal = goal.id /\ Continuation(goal.id, TRUE, 0).kickoff
    BY <2>2 DEF Continuation, Continuations
  <2>4. TimerOK'
    BY <2>1, <2>3 DEF TimerOK
  <2>5. Owed = 1 /\ Owed' = 1
    BY <2>1 DEF Owed
  <2>6. CountOK'
    BY <2>5 DEF GoalInv, CountOK
  <2>7. QED BY <2>1, <2>3, <2>4, <2>6
<1>4. QED BY <1>2, <1>3

(* So does the report of a turn, which counts the check-in it calls for. *)
LEMMA Reported ==
  ASSUME GoalInv, NEW outcome, TurnFinished(outcome), UNCHANGED <<pending, prompts, starts>>,
         timer' = TimerAfter(outcome) \/ Kickoff(goal.id, timer')
  PROVE  /\ TimerOK' /\ CountOK' /\ timer' \subseteq Continuations
         /\ goal' \in GoalRecords /\ goal'.id = goal.id
         /\ goal.status # "none" <=> goal'.status # "none"
         /\ goal'.status = "active" => goal.status = "active"
         /\ driven' => timer' # {} /\ outcome = "completed"
         /\ driven' \in BOOLEAN /\ token' = FALSE
<1>1. /\ goal.id \in 0 .. MaxCalls /\ pending \in {0, goal.id} /\ timer \subseteq Continuations
      /\ MaxCalls \in Nat /\ prompts \in Nat /\ starts \in Nat /\ goal.iterations \in Nat
  BY GoalLoopAssumption DEF GoalInv, GoalTypes, GoalTypeOK
<1>2. goal' = GoalAfter(outcome) /\ token' = FALSE /\ driven' = Continues(outcome)
  BY DEF TurnFinished
<1>3. /\ goal' \in GoalRecords /\ goal'.id = goal.id
      /\ goal.status # "none" <=> goal'.status # "none"
      /\ goal'.status = "active" => goal.status = "active"
      /\ Continues(outcome) =>
           /\ goal.id # 0 /\ pending = 0 /\ outcome = "completed"
           /\ goal'.iterations = goal.iterations + 1
           /\ TimerAfter(outcome) = {Continuation(goal.id, FALSE, 0)}
      /\ ~Continues(outcome) => goal'.iterations = goal.iterations /\ TimerAfter(outcome) = timer
  <2>1. GoalTypes
    BY DEF GoalInv
  <2>2. QED BY <1>2, <2>1, GoalAfterFacts
<1>4. Continues(outcome) \in BOOLEAN
  BY DEF Continues, Counts, GoalInv, GoalTypes, GoalTypeOK
<1>5. CASE Continues(outcome)
  <2>1. timer' = {Continuation(goal.id, FALSE, 0)} /\ pending = 0 /\ pending' = 0
    BY <1>3, <1>5 DEF Kickoff
  <2>2. goal.id \in Goals
    BY <1>1, <1>3, <1>5 DEF Goals
  <2>3. /\ Continuation(goal.id, FALSE, 0) \in Continuations
        /\ Continuation(goal.id, FALSE, 0).goal = goal.id /\ ~Continuation(goal.id, FALSE, 0).kickoff
    BY <2>2 DEF Continuation, Continuations
  <2>4. TimerOK'
    BY <1>3, <2>1, <2>3 DEF TimerOK
  <2>5. Owed \in {0, 1} /\ Owed' = 1
    BY <2>1 DEF Owed
  <2>6. prompts + Owed <= starts + goal.iterations
    BY <1>3, <1>5 DEF GoalInv, CountOK
  <2>7. prompts + 1 <= starts + (goal.iterations + 1)
    BY <1>1, <2>5, <2>6
  <2>8. CountOK'
    BY <1>3, <1>5, <2>5, <2>7 DEF CountOK
  <2>9. QED BY <1>2, <1>3, <1>4, <1>5, <2>1, <2>3, <2>4, <2>8
<1>6. CASE ~Continues(outcome)
  <2>1. goal'.id = goal.id /\ goal'.iterations = goal.iterations
    BY <1>3, <1>6
  <2>2. CASE timer' = timer
    <3>1. TimerOK'
      BY <2>1, <2>2 DEF GoalInv, TimerOK
    <3>2. CountOK'
      BY <2>1, <2>2 DEF GoalInv, CountOK, Owed
    <3>3. QED BY <1>1, <1>2, <1>3, <1>4, <1>6, <2>2, <3>1, <3>2
  <2>3. CASE Kickoff(goal.id, timer')
    <3>1. pending # 0 /\ pending = goal.id /\ timer' = {Continuation(goal.id, TRUE, 0)}
      BY <2>3 DEF Kickoff
    <3>2. goal.id \in Goals
      BY <1>1, <3>1 DEF Goals
    <3>3. /\ Continuation(goal.id, TRUE, 0) \in Continuations
          /\ Continuation(goal.id, TRUE, 0).goal = goal.id /\ Continuation(goal.id, TRUE, 0).kickoff
      BY <3>2 DEF Continuation, Continuations
    <3>4. TimerOK'
      BY <2>1, <3>1, <3>3 DEF TimerOK
    <3>5. Owed = 1 /\ Owed' = 1
      BY <3>1 DEF Owed
    <3>6. CountOK'
      BY <2>1, <3>5 DEF GoalInv, CountOK
    <3>7. QED BY <1>2, <1>3, <1>4, <1>6, <3>1, <3>3, <3>4, <3>6
  <2>4. QED BY <1>3, <1>6, <2>2, <2>3
<1>7. QED BY <1>5, <1>6

(* A turn that begins has not spoken yet. *)
LEMMA NewTurnIs ==
  ASSUME GoalTypes, NEW heard \in SUBSET Goals
  PROVE  /\ NewTurn(heard) \subseteq Turns /\ NewTurn(heard) # {}
         /\ \A t \in NewTurn(heard) : t.since = sets
<1>1. sets \in Nat
  BY DEF GoalTypes
<1>2. QED BY <1>1 DEF NewTurn, Turns

(* The user sends a message. *)
LEMMA InvUserSends ==
  ASSUME GoalInv, UserSends, UNCHANGED adapter
  PROVE  GoalInv'
<1>0. 0 \in 0 .. MaxCalls
  BY GoalLoopAssumption
<1>a. UNCHANGED <<goal, pending, timer, token, turn, settling, queue, asked, sets, goalCalls,
                  told, starts, prompts, driven>>
  BY DEF UserSends, harness, goalHistory
<1>b. /\ sends' \in Seq(Prompts)
      /\ \A k \in DOMAIN sends : k \in DOMAIN sends' /\ sends'[k] = sends[k]
      /\ \A k \in DOMAIN sends' : sends'[k].at # "starting" => runtime' = "up"
      /\ runtime = "none" => runtime' = "starting" /\ status' = "starting"
      /\ runtime # "none" => UNCHANGED <<runtime, status>>
  <2>1. GoalTypes /\ PhaseOK /\ SendAs(0)
    BY DEF GoalInv, UserSends
  <2>2. QED BY <1>0, <2>1, SendAsFacts
<1>1. GoalTypes'
  BY <1>a, <1>b DEF GoalInv, GoalTypes, GoalTypeOK, Prompts
<1>2. PhaseOK'
  BY <1>a, <1>b DEF GoalInv, PhaseOK
<1>3. TimerOK'
  BY <1>a DEF GoalInv, TimerOK
<1>4. CountOK'
  BY <1>a DEF GoalInv, CountOK, Owed
<1>5. AwaitOK'
  BY <1>a, <1>b DEF GoalInv, AwaitOK
<1>6. StallOK'
  <2>1. Sending => Sending'
    BY <1>a, <1>b DEF Sending
  <2>2. QED BY <1>a, <2>1 DEF GoalInv, StallOK
<1>7. SinceOK'
  BY <1>a DEF GoalInv, SinceOK
<1>8. TokenOK'
  BY <1>a DEF GoalInv, TokenOK
<1>9. QED BY <1>1, <1>2, <1>3, <1>4, <1>5, <1>6, <1>7, <1>8 DEF GoalInv

(* A runtime that comes up is idle. *)
LEMMA InvRuntimeStarts ==
  ASSUME GoalInv, RuntimeStarts, UNCHANGED adapter
  PROVE  GoalInv'
<1>a. UNCHANGED <<goal, pending, token, turn, settling, queue, asked, sets, goalCalls,
                  told, starts, prompts, driven>>
  BY DEF RuntimeStarts, harness, bounds, goalHistory
<1>b. /\ runtime = "starting" /\ runtime' = "up" /\ sends' = Resumed("starting")
      /\ Idles(goal, timer)
  BY DEF RuntimeStarts
<1>c. turn = {} /\ ~asked /\ ~driven /\ settling = {}
  BY <1>b DEF GoalInv, GoalTypes, GoalTypeOK, PhaseOK
<1>d. status' = "idle" /\ (timer' = timer \/ Kickoff(goal.id, timer'))
  BY <1>b, <1>c, IdlesFacts
<1>e. sends' \in Seq(Prompts)
  <2>1. sends \in Seq(Prompts)
    BY DEF GoalInv, GoalTypes, GoalTypeOK, Prompts
  <2>2. QED BY <1>b, <2>1, SendsResumed
<1>r. TimerOK' /\ CountOK' /\ timer' \subseteq Continuations
  BY <1>a, <1>d, Retimed
<1>1. GoalTypes'
  BY <1>a, <1>b, <1>c, <1>e, <1>r DEF GoalInv, GoalTypes, GoalTypeOK, Prompts
<1>2. PhaseOK'
  BY <1>a, <1>b, <1>c, <1>d DEF PhaseOK
<1>3. TimerOK'
  BY <1>r
<1>4. CountOK'
  BY <1>r
<1>5. AwaitOK'
  BY <1>a, <1>c, <1>d DEF AwaitOK
<1>6. StallOK'
  BY <1>a, <1>c DEF StallOK
<1>7. SinceOK'
  BY <1>a DEF GoalInv, SinceOK
<1>8. TokenOK'
  BY <1>a DEF GoalInv, TokenOK
<1>9. QED BY <1>1, <1>2, <1>3, <1>4, <1>5, <1>6, <1>7, <1>8 DEF GoalInv

(* A compaction ends. *)
LEMMA InvCompactionDone ==
  ASSUME GoalInv, CompactionDone, UNCHANGED adapter
  PROVE  GoalInv'
<1>a. UNCHANGED <<goal, status, runtime, pending, timer, token, turn, settling, queue, asked, sets, goalCalls,
                  told, starts, prompts, driven>>
  BY DEF CompactionDone, harness, bounds, goalHistory
<1>b. sends' = Resumed("compacting")
  BY DEF CompactionDone
<1>c. sends \in Seq(Prompts)
  BY DEF GoalInv, GoalTypes, GoalTypeOK, Prompts
<1>d. /\ sends' \in Seq(Prompts) /\ DOMAIN sends' = DOMAIN sends
      /\ \A k \in DOMAIN sends : sends'[k].of = sends[k].of
  BY <1>b, <1>c, SendsResumed
<1>e. \A k \in DOMAIN sends' : sends'[k].at # "starting" => sends[k].at # "starting"
  BY <1>b DEF Resumed
<1>1. GoalTypes'
  BY <1>a, <1>d DEF GoalInv, GoalTypes, GoalTypeOK, Prompts
<1>2. PhaseOK'
  BY <1>a, <1>d, <1>e DEF GoalInv, PhaseOK
<1>3. TimerOK'
  BY <1>a DEF GoalInv, TimerOK
<1>4. CountOK'
  BY <1>a DEF GoalInv, CountOK, Owed
<1>5. AwaitOK'
  BY <1>a DEF GoalInv, AwaitOK
<1>6. StallOK'
  <2>1. Sending => Sending'
    BY <1>a, <1>d DEF Sending
  <2>2. QED BY <1>a, <2>1 DEF GoalInv, StallOK
<1>7. SinceOK'
  BY <1>a DEF GoalInv, SinceOK
<1>8. TokenOK'
  BY <1>a DEF GoalInv, TokenOK
<1>9. QED BY <1>1, <1>2, <1>3, <1>4, <1>5, <1>6, <1>7, <1>8 DEF GoalInv

(* A prompt is given to the adapter: it begins a turn, or waits in one for its queue. *)
LEMMA InvDispatch ==
  ASSUME GoalInv, NEW k, Dispatch(k), UNCHANGED adapter
  PROVE  GoalInv'
<1>a. UNCHANGED <<goal, runtime, pending, timer, token, settling, asked, sets, goalCalls, starts, prompts, driven>>
  BY DEF Dispatch, bounds
<1>b. k \in DOMAIN sends /\ sends[k].at = "preparing" /\ sends' = RemoveAt(sends, k)
  BY DEF Dispatch
<1>c. told' \subseteq Goals
  BY DEF GoalInv, GoalTypes, Dispatch
<1>d. /\ sends' \in Seq(Prompts)
      /\ \A j \in DOMAIN sends' : \E i \in DOMAIN sends : sends'[j] = sends[i]
      /\ \A i \in DOMAIN sends : i # k => \E j \in DOMAIN sends' : sends'[j] = sends[i]
  <2>1. sends \in Seq(Prompts)
    BY DEF GoalInv, GoalTypes, GoalTypeOK, Prompts
  <2>2. QED BY <1>b, <2>1, SendsRemove
<1>e. runtime = "up"
  BY <1>b DEF GoalInv, PhaseOK
<1>f. \/ turn = {} /\ turn' = NewTurn(told') /\ status' = "running"
      \/ turn # {} /\ UNCHANGED <<turn, status>>
  BY DEF Dispatch
<1>g. /\ turn' \subseteq Turns /\ turn' # {}
      /\ turn = {} => \A t \in turn' : t.since = sets
  <2>1. turn \subseteq Turns
    BY DEF GoalInv, GoalTypes
  <2>2. /\ NewTurn(told') \subseteq Turns /\ NewTurn(told') # {}
        /\ \A t \in NewTurn(told') : t.since = sets
    BY <1>c, NewTurnIs DEF GoalInv
  <2>3. QED BY <1>f, <2>1, <2>2
<1>1. GoalTypes'
  <2>1. GoalTypeOK'
    BY <1>a, <1>d, <1>e, <1>g DEF GoalInv, GoalTypes, GoalTypeOK, Prompts
  <2>2. QED BY <1>a, <1>c, <1>g, <2>1 DEF GoalInv, GoalTypes
<1>2. PhaseOK'
  BY <1>a, <1>d, <1>e, <1>g DEF GoalInv, PhaseOK
<1>3. TimerOK'
  BY <1>a DEF GoalInv, TimerOK
<1>4. CountOK'
  BY <1>a DEF GoalInv, CountOK, Owed
<1>5. AwaitOK'
  BY <1>a, <1>f, <1>g DEF GoalInv, AwaitOK
<1>6. StallOK'
  BY <1>g DEF StallOK
<1>7. SinceOK'
  <2>1. goal.id <= sets
    BY DEF GoalInv, GoalTypes
  <2>2. CASE turn = {}
    BY <1>a, <1>g, <2>1, <2>2 DEF SinceOK
  <2>3. CASE turn # {}
    BY <1>a, <1>f, <2>3 DEF GoalInv, SinceOK
  <2>4. QED BY <2>2, <2>3
<1>8. TokenOK'
  BY <1>a, <1>f DEF GoalInv, TokenOK
<1>9. QED BY <1>1, <1>2, <1>3, <1>4, <1>5, <1>6, <1>7, <1>8 DEF GoalInv

(* A prompt is rejected: if it was the goal's, its check-in failed loudly. *)
LEMMA InvDispatchFails ==
  ASSUME GoalInv, NEW k, DispatchFails(k), UNCHANGED adapter
  PROVE  GoalInv'
<1>a. UNCHANGED <<goal, runtime, pending, token, turn, settling, queue, asked, sets, goalCalls, told, starts, prompts>>
  BY DEF DispatchFails, harness, bounds
<1>b. /\ k \in DOMAIN sends /\ sends[k].at = "preparing" /\ sends' = RemoveAt(sends, k)
      /\ turn = {} /\ driven' = (driven /\ sends[k].of = 0)
  BY DEF DispatchFails
<1>c. ~asked
  BY <1>b DEF GoalInv, GoalTypes, GoalTypeOK
<1>d. /\ sends' \in Seq(Prompts)
      /\ \A j \in DOMAIN sends' : \E i \in DOMAIN sends : sends'[j] = sends[i]
      /\ \A i \in DOMAIN sends : i # k => \E j \in DOMAIN sends' : sends'[j] = sends[i]
  <2>1. sends \in Seq(Prompts)
    BY DEF GoalInv, GoalTypes, GoalTypeOK, Prompts
  <2>2. QED BY <1>b, <2>1, SendsRemove
<1>e. runtime = "up"
  BY <1>b DEF GoalInv, PhaseOK
<1>f. /\ adapter = "native" => UNCHANGED <<status, timer>>
      /\ adapter # "native" => status' = "idle" /\ (timer' = timer \/ Kickoff(goal.id, timer'))
  <2>1. IF adapter = "native" THEN UNCHANGED <<status, timer>> ELSE Idles(goal, timer)
    BY DEF DispatchFails
  <2>2. QED BY <1>c, <2>1, IdlesFacts
<1>g. driven' \in BOOLEAN /\ (driven' => driven /\ sends[k].of = 0)
  BY <1>b
<1>r. TimerOK' /\ CountOK' /\ timer' \subseteq Continuations /\ (timer # {} => timer' # {})
  <2>1. timer' = timer \/ Kickoff(goal.id, timer')
    BY <1>f
  <2>2. QED BY <1>a, <2>1, Retimed
<1>1. GoalTypes'
  <2>1. GoalTypeOK'
    BY <1>a, <1>b, <1>d DEF GoalInv, GoalTypes, GoalTypeOK, Prompts
  <2>2. QED BY <1>a, <1>g, <1>r, <2>1 DEF GoalInv, GoalTypes
<1>2. PhaseOK'
  BY <1>a, <1>d, <1>e, <1>f, <1>g DEF GoalInv, PhaseOK
<1>3. TimerOK'
  BY <1>r
<1>4. CountOK'
  BY <1>r
<1>5. AwaitOK'
  BY <1>a, <1>b, <1>f, <1>g DEF GoalInv, AwaitOK
<1>6. StallOK'
  <2>1. ASSUME driven', goal.status = "active" PROVE Sending => Sending'
    <3>1. goal.id # 0
      BY <2>1 DEF GoalInv, GoalTypes
    <3>2. \A i \in DOMAIN sends : sends[i].of = goal.id => i # k
      BY <1>g, <2>1, <3>1
    <3>3. QED BY <1>a, <1>d, <3>2 DEF Sending
  <2>2. QED BY <1>a, <1>g, <1>r, <2>1 DEF GoalInv, StallOK
<1>7. SinceOK'
  BY <1>a, <1>b DEF SinceOK
<1>8. TokenOK'
  BY <1>a DEF GoalInv, TokenOK
<1>9. QED BY <1>1, <1>2, <1>3, <1>4, <1>5, <1>6, <1>7, <1>8 DEF GoalInv

(* Codex reports a turn, and is idle or goes on with its queue. *)
LEMMA InvCodexTurnEnds ==
  ASSUME GoalInv, NEW outcome, CodexTurnEnds(outcome), UNCHANGED adapter
  PROVE  GoalInv'
<1>0. /\ adapter = "codex" /\ turn # {} /\ ~asked /\ TurnFinished(outcome)
      /\ UNCHANGED <<runtime, sends, pending, settling, asked, sets, goalCalls, told, starts, prompts>>
  BY DEF CodexTurnEnds, bounds
<1>a. TurnFinished(outcome) /\ UNCHANGED <<pending, prompts, starts>>
  BY <1>0
<1>b. timer' = TimerAfter(outcome) \/ Kickoff(goal.id, timer')
  <2>1. CASE queue = <<>>
    <3>1. Idles(GoalAfter(outcome), TimerAfter(outcome))
      BY <2>1 DEF CodexTurnEnds
    <3>2. GoalAfter(outcome).id = goal.id
      BY GoalAfterFacts DEF GoalInv
    <3>3. QED BY <3>1, <3>2, IdlesFacts
  <2>2. CASE queue # <<>>
    BY <2>2 DEF CodexTurnEnds, Kickoff
  <2>3. QED BY <2>1, <2>2
<1>r. /\ TimerOK' /\ CountOK' /\ timer' \subseteq Continuations
      /\ goal' \in GoalRecords /\ goal'.id = goal.id
      /\ goal.status # "none" <=> goal'.status # "none"
      /\ goal'.status = "active" => goal.status = "active"
      /\ driven' => timer' # {} /\ outcome = "completed"
      /\ driven' \in BOOLEAN /\ token' = FALSE
  BY <1>a, <1>b, Reported
<1>c. /\ runtime = "up" /\ runtime' = "up" /\ settling = {} /\ settling' = {}
  BY <1>0 DEF GoalInv, GoalTypes, GoalTypeOK, PhaseOK
<1>d. \/ turn' = {} /\ status' = "idle"
      \/ turn' = NewTurn(told) /\ status' = "running"
  <2>1. CASE queue = <<>>
    <3>1. turn' = {} /\ Idles(GoalAfter(outcome), TimerAfter(outcome))
      BY <2>1 DEF CodexTurnEnds
    <3>2. QED BY <1>0, <3>1, IdlesFacts
  <2>2. CASE queue # <<>>
    BY <2>2 DEF CodexTurnEnds
  <2>3. QED BY <2>1, <2>2
<1>e. /\ NewTurn(told) \subseteq Turns /\ NewTurn(told) # {}
      /\ \A t \in NewTurn(told) : t.since = sets
  BY NewTurnIs DEF GoalInv, GoalTypes
<1>f. turn' \subseteq Turns /\ \A t \in turn' : t.since = sets
  BY <1>d, <1>e
<1>1. GoalTypes'
  <2>1. GoalTypeOK'
    BY <1>0, <1>c, <1>r DEF GoalInv, GoalTypes, GoalTypeOK, GoalRecords
  <2>2. goal'.id # 0 <=> goal'.status # "none"
    BY <1>r DEF GoalInv, GoalTypes
  <2>3. QED BY <1>0, <1>f, <1>r, <2>1, <2>2 DEF GoalInv, GoalTypes
<1>2. PhaseOK'
  BY <1>0, <1>c, <1>d, <1>e DEF GoalInv, PhaseOK
<1>3. TimerOK'
  BY <1>r
<1>4. CountOK'
  BY <1>r
<1>5. AwaitOK'
  BY <1>0 DEF AwaitOK
<1>6. StallOK'
  BY <1>r DEF StallOK
<1>7. SinceOK'
  <2>1. goal'.id <= sets
    BY <1>r DEF GoalInv, GoalTypes
  <2>2. QED BY <1>f, <2>1 DEF SinceOK
<1>8. TokenOK'
  BY <1>r DEF TokenOK
<1>9. QED BY <1>1, <1>2, <1>3, <1>4, <1>5, <1>6, <1>7, <1>8 DEF GoalInv

(* The native adapter reports a turn, before it is idle: what calls for a check-in was not interrupted, and is not held by an approval that is over. *)
LEMMA InvNativeTurnEnds ==
  ASSUME GoalInv, NEW outcome, NativeTurnEnds(outcome), UNCHANGED adapter
  PROVE  GoalInv'
<1>0. /\ adapter = "native" /\ turn # {} /\ ~asked /\ TurnFinished(outcome)
      /\ \A t \in turn : t.cut <=> outcome = "interrupted"
      /\ timer' = TimerAfter(outcome) /\ turn' = {} /\ settling' = turn
      /\ UNCHANGED <<status, runtime, sends, pending, asked, sets, goalCalls, told, starts, prompts>>
  BY DEF NativeTurnEnds, bounds
<1>a. TurnFinished(outcome) /\ UNCHANGED <<pending, prompts, starts>>
  BY <1>0
<1>b. timer' = TimerAfter(outcome) \/ Kickoff(goal.id, timer')
  BY <1>0
<1>r. /\ TimerOK' /\ CountOK' /\ timer' \subseteq Continuations
      /\ goal' \in GoalRecords /\ goal'.id = goal.id
      /\ goal.status # "none" <=> goal'.status # "none"
      /\ goal'.status = "active" => goal.status = "active"
      /\ driven' => timer' # {} /\ outcome = "completed"
      /\ driven' \in BOOLEAN /\ token' = FALSE
  BY <1>a, <1>b, Reported
<1>c. runtime = "up" /\ runtime' = "up"
  BY <1>0 DEF GoalInv, GoalTypes, GoalTypeOK
<1>d. driven' => status # "awaiting"
  <2>1. status = "awaiting" => \A t \in turn : t.cut
    BY <1>0 DEF GoalInv, AwaitOK
  <2>2. driven' => \A t \in turn : ~t.cut
    BY <1>0, <1>r
  <2>3. QED BY <1>0, <2>1, <2>2
<1>1. GoalTypes'
  <2>1. GoalTypeOK'
    BY <1>0, <1>c, <1>r DEF GoalInv, GoalTypes, GoalTypeOK, GoalRecords
  <2>2. goal'.id # 0 <=> goal'.status # "none"
    BY <1>r DEF GoalInv, GoalTypes
  <2>3. QED BY <1>0, <1>r, <2>1, <2>2 DEF GoalInv, GoalTypes
<1>2. PhaseOK'
  BY <1>0, <1>c DEF GoalInv, PhaseOK
<1>3. TimerOK'
  BY <1>r
<1>4. CountOK'
  BY <1>r
<1>5. AwaitOK'
  BY <1>0, <1>d DEF AwaitOK
<1>6. StallOK'
  BY <1>r DEF StallOK
<1>7. SinceOK'
  BY <1>0 DEF SinceOK
<1>8. TokenOK'
  BY <1>r DEF TokenOK
<1>9. QED BY <1>1, <1>2, <1>3, <1>4, <1>5, <1>6, <1>7, <1>8 DEF GoalInv

(* The native adapter is idle, or goes on with its queue. *)
LEMMA InvNativeSettles ==
  ASSUME GoalInv, NativeSettles, UNCHANGED adapter
  PROVE  GoalInv'
<1>0. /\ adapter = "native" /\ settling # {} /\ settling' = {}
      /\ UNCHANGED <<goal, runtime, sends, pending, token, asked, sets, goalCalls, told, starts, prompts, driven>>
  BY DEF NativeSettles, bounds, goalHistory
<1>a. \/ /\ Idles(goal, timer) /\ UNCHANGED turn
         /\ turn # {} \/ (queue = <<>> /\ UNCHANGED queue)
      \/ /\ turn = {} /\ turn' = NewTurn(told) /\ status' = "running"
         /\ timer' = timer \/ Kickoff(goal.id, timer')
  BY DEF NativeSettles, Kickoff
<1>b. timer' = timer \/ Kickoff(goal.id, timer')
  BY <1>a, IdlesFacts
<1>r. TimerOK' /\ CountOK' /\ timer' \subseteq Continuations /\ (timer # {} => timer' # {})
  BY <1>0, <1>b, Retimed
<1>c. runtime = "up" /\ turn \subseteq Turns
  BY <1>0 DEF GoalInv, PhaseOK, GoalTypes
<1>d. \/ UNCHANGED turn /\ (~asked => status' = "idle") /\ (asked => turn # {})
         /\ (turn # {} \/ (queue = <<>> /\ queue' = <<>>))
      \/ turn = {} /\ turn' = NewTurn(told) /\ status' = "running"
  <2>1. asked => turn # {}
    BY DEF GoalInv, GoalTypes, GoalTypeOK
  <2>2. QED BY <1>a, <2>1, IdlesFacts
<1>e. /\ NewTurn(told) \subseteq Turns /\ NewTurn(told) # {}
      /\ \A t \in NewTurn(told) : t.since = sets
  BY NewTurnIs DEF GoalInv, GoalTypes
<1>f. turn' \subseteq Turns /\ (turn # {} => turn' = turn)
  BY <1>c, <1>d, <1>e
<1>1. GoalTypes'
  <2>1. GoalTypeOK'
    BY <1>0, <1>c, <1>f DEF GoalInv, GoalTypes, GoalTypeOK
  <2>2. QED BY <1>0, <1>f, <1>r, <2>1 DEF GoalInv, GoalTypes
<1>2. PhaseOK'
  <2>1. turn' = {} => status' = "idle"
    BY <1>d, <1>e
  <2>2. QED BY <1>0, <1>c, <2>1 DEF GoalInv, PhaseOK
<1>3. TimerOK'
  BY <1>r
<1>4. CountOK'
  BY <1>r
<1>5. AwaitOK'
  <2>1. ~asked => status' # "awaiting"
    BY <1>d
  <2>2. asked => turn' # {}
    BY <1>d, <1>e
  <2>3. QED BY <1>0, <2>1, <2>2 DEF AwaitOK
<1>6. StallOK'
  <2>1. turn' # {} \/ (queue = <<>> /\ turn = {})
    BY <1>d, <1>e
  <2>2. Sending => Sending'
    BY <1>0 DEF Sending
  <2>3. QED BY <1>0, <1>r, <2>1, <2>2 DEF GoalInv, StallOK
<1>7. SinceOK'
  <2>1. goal.id <= sets
    BY DEF GoalInv, GoalTypes
  <2>2. CASE turn' = turn
    BY <1>0, <2>2 DEF GoalInv, SinceOK
  <2>3. CASE turn' = NewTurn(told)
    BY <1>0, <1>e, <2>1, <2>3 DEF SinceOK
  <2>4. QED BY <1>d, <2>2, <2>3
<1>8. TokenOK'
  <2>1. token => turn # {}
    BY <1>0 DEF GoalInv, TokenOK
  <2>2. QED BY <1>0, <1>f, <2>1 DEF GoalInv, TokenOK
<1>9. QED BY <1>1, <1>2, <1>3, <1>4, <1>5, <1>6, <1>7, <1>8 DEF GoalInv

(* Pi reports a turn, perhaps beside the next one. *)
LEMMA InvPiSettles ==
  ASSUME GoalInv, NEW outcome, PiSettles(outcome), UNCHANGED adapter
  PROVE  GoalInv'
<1>0. /\ adapter = "pi" /\ settling # {} /\ settling' = {} /\ TurnFinished(outcome)
      /\ Idles(GoalAfter(outcome), TimerAfter(outcome))
      /\ UNCHANGED <<runtime, sends, pending, turn, asked, sets, goalCalls, told, starts, prompts>>
  BY DEF PiSettles, bounds
<1>a. TurnFinished(outcome) /\ UNCHANGED <<pending, prompts, starts>>
  BY <1>0
<1>b. timer' = TimerAfter(outcome) \/ Kickoff(goal.id, timer')
  <2>1. GoalAfter(outcome).id = goal.id
    BY GoalAfterFacts DEF GoalInv
  <2>2. QED BY <1>0, <2>1, IdlesFacts
<1>r. /\ TimerOK' /\ CountOK' /\ timer' \subseteq Continuations
      /\ goal' \in GoalRecords /\ goal'.id = goal.id
      /\ goal.status # "none" <=> goal'.status # "none"
      /\ goal'.status = "active" => goal.status = "active"
      /\ driven' => timer' # {} /\ outcome = "completed"
      /\ driven' \in BOOLEAN /\ token' = FALSE
  BY <1>a, <1>b, Reported
<1>c. runtime = "up" /\ (turn = {} => status' = "idle")
  <2>1. runtime = "up" /\ (asked => turn # {})
    BY <1>0 DEF GoalInv, GoalTypes, GoalTypeOK, PhaseOK
  <2>2. ~asked => status' = "idle"
    BY <1>0, IdlesFacts
  <2>3. QED BY <2>1, <2>2
<1>1. GoalTypes'
  <2>1. GoalTypeOK'
    BY <1>0, <1>c, <1>r DEF GoalInv, GoalTypes, GoalTypeOK, GoalRecords
  <2>2. goal'.id # 0 <=> goal'.status # "none"
    BY <1>r DEF GoalInv, GoalTypes
  <2>3. QED BY <1>0, <1>r, <2>1, <2>2 DEF GoalInv, GoalTypes
<1>2. PhaseOK'
  BY <1>0, <1>c DEF GoalInv, PhaseOK
<1>3. TimerOK'
  BY <1>r
<1>4. CountOK'
  BY <1>r
<1>5. AwaitOK'
  BY <1>0 DEF AwaitOK
<1>6. StallOK'
  BY <1>r DEF StallOK
<1>7. SinceOK'
  BY <1>0, <1>r DEF GoalInv, SinceOK
<1>8. TokenOK'
  BY <1>r DEF TokenOK
<1>9. QED BY <1>1, <1>2, <1>3, <1>4, <1>5, <1>6, <1>7, <1>8 DEF GoalInv

(* What startGoal() does, now or at the first idle moment. *)
LEMMA StartGoalFacts ==
  ASSUME GoalTypes, PhaseOK, NEW id \in Goals, StartGoal(id), UNCHANGED <<turn, settling>>
  PROVE  /\ sends' \in Seq(Prompts)
         /\ \A k \in DOMAIN sends' : sends'[k].at # "starting" => runtime' = "up"
         /\ runtime' = "up" <=> runtime = "up"
         /\ runtime = "up" => UNCHANGED status
         /\ runtime = "none" \/ UNCHANGED <<runtime, status>>
         /\ runtime = "none" => status' = "starting"
         /\ \/ /\ Len(sends') = Len(sends)
               /\ pending' = id
               /\ timer' = {} \/ timer' = {Continuation(id, TRUE, 0)}
            \/ /\ Len(sends') = Len(sends) + 1
               /\ turn = {} /\ pending' = 0 /\ timer' = {}
<1>1. /\ id \in 0 .. MaxCalls /\ sends \in Seq(Prompts)
      /\ \A k \in DOMAIN sends : sends[k].at # "starting" => runtime = "up"
      /\ runtime = "none" => turn = {}
  BY GoalLoopAssumption DEF Goals, GoalTypes, GoalTypeOK, PhaseOK, Prompts
<1>2. CASE runtime # "none" /\ Held
  BY <1>1, <1>2 DEF StartGoal
<1>3. CASE ~(runtime # "none" /\ Held)
  <2>1. pending' = 0 /\ timer' = {} /\ SendAs(id)
    BY <1>3 DEF StartGoal
  <2>2. turn = {}
    BY <1>1, <1>3 DEF Held
  <2>3. /\ sends' \in Seq(Prompts) /\ Len(sends') = Len(sends) + 1
        /\ \A k \in DOMAIN sends' : sends'[k].at # "starting" => runtime' = "up"
        /\ runtime = "none" => runtime' = "starting" /\ status' = "starting"
        /\ runtime # "none" => UNCHANGED <<runtime, status>>
    BY <1>1, <2>1, SendAsFacts
  <2>4. QED BY <2>1, <2>2, <2>3
<1>4. QED BY <1>2, <1>3

(* The timer sends its prompt: what was owed is now counted. *)
LEMMA InvFires ==
  ASSUME GoalInv, Fires, UNCHANGED adapter
  PROVE  GoalInv'
<1>0. PICK c \in timer : /\ ~Drops(c) /\ ~Held /\ timer' = {} /\ SendAs(c.goal) /\ prompts' = prompts + 1
                         /\ pending' = IF c.kickoff THEN 0 ELSE pending
  BY DEF Fires
<1>a. UNCHANGED <<goal, token, turn, settling, queue, asked, sets, goalCalls, told, starts, driven>>
  BY DEF Fires, harness
<1>b. c \in Continuations /\ c.goal = goal.id /\ pending = IF c.kickoff THEN goal.id ELSE 0
  BY DEF GoalInv, GoalTypes, TimerOK
<1>c. c.goal \in 0 .. MaxCalls /\ goal.id # 0 /\ pending' = 0 /\ turn = {}
  BY <1>0, <1>b, GoalLoopAssumption DEF Continuations, Goals, Held
<1>d. /\ sends' \in Seq(Prompts)
      /\ \E k \in DOMAIN sends' : sends'[k].of = goal.id
      /\ \A k \in DOMAIN sends' : sends'[k].at # "starting" => runtime' = "up"
      /\ runtime = "none" => runtime' = "starting" /\ status' = "starting"
      /\ runtime # "none" => UNCHANGED <<runtime, status>>
  <2>1. GoalTypes /\ PhaseOK
    BY DEF GoalInv
  <2>2. QED BY <1>0, <1>b, <1>c, <2>1, SendAsFacts
<1>1. GoalTypes'
  <2>1. GoalTypeOK'
    BY <1>a, <1>c, <1>d DEF GoalInv, GoalTypes, GoalTypeOK, Prompts
  <2>2. QED BY <1>0, <1>a, <2>1 DEF GoalInv, GoalTypes
<1>2. PhaseOK'
  BY <1>a, <1>d DEF GoalInv, PhaseOK
<1>3. TimerOK'
  BY <1>0 DEF TimerOK
<1>4. CountOK'
  <2>1. Owed = 1 /\ Owed' = 0
    BY <1>0, <1>c DEF Owed
  <2>2. prompts \in Nat /\ starts \in Nat /\ goal.iterations \in Nat
    BY GoalLoopAssumption DEF GoalInv, GoalTypes, GoalTypeOK
  <2>3. prompts + 1 <= starts + goal.iterations
    BY <1>c, <2>1 DEF GoalInv, CountOK
  <2>4. QED BY <1>0, <1>a, <2>1, <2>2, <2>3 DEF CountOK
<1>5. AwaitOK'
  BY <1>a, <1>d DEF GoalInv, AwaitOK
<1>6. StallOK'
  <2>1. Sending'
    BY <1>a, <1>d DEF Sending
  <2>2. QED BY <2>1 DEF StallOK
<1>7. SinceOK'
  BY <1>a, <1>c DEF SinceOK
<1>8. TokenOK'
  BY <1>a DEF GoalInv, TokenOK
<1>9. QED BY <1>1, <1>2, <1>3, <1>4, <1>5, <1>6, <1>7, <1>8 DEF GoalInv

(* A goal is set. *)
LEMMA InvSetGoal ==
  ASSUME GoalInv, SetGoal, UNCHANGED adapter
  PROVE  GoalInv'
<1>a. /\ UNCHANGED <<token, turn, settling, queue, asked, told>>
      /\ goalCalls < MaxCalls /\ goalCalls' = goalCalls + 1 /\ driven' = FALSE /\ sets' = sets + 1
      /\ starts' = 1 /\ prompts' = Len(sends') - Len(sends)
  BY DEF SetGoal, Call, harness
<1>b. StartGoal(sets')
  BY DEF SetGoal
<1>c. sets' \in Goals /\ sets' \in Nat /\ sets' # 0 /\ goalCalls' \in Nat /\ sets' <= goalCalls' /\ goalCalls' <= MaxCalls
  BY <1>a, GoalLoopAssumption DEF GoalInv, GoalTypes, Goals
<1>d. /\ sends' \in Seq(Prompts)
      /\ \A k \in DOMAIN sends' : sends'[k].at # "starting" => runtime' = "up"
      /\ runtime' = "up" <=> runtime = "up"
      /\ runtime = "up" => UNCHANGED status
      /\ runtime = "none" \/ UNCHANGED <<runtime, status>>
      /\ runtime = "none" => status' = "starting"
      /\ \/ /\ Len(sends') = Len(sends)
            /\ pending' = sets'
            /\ timer' = {} \/ timer' = {Continuation(sets', TRUE, 0)}
         \/ /\ Len(sends') = Len(sends) + 1
            /\ turn = {} /\ pending' = 0 /\ timer' = {}
  <2>1. GoalTypes /\ PhaseOK
    BY DEF GoalInv
  <2>2. QED BY <1>a, <1>b, <1>c, <2>1, StartGoalFacts
<1>t. /\ timer' \subseteq Continuations
      /\ \A c \in timer' : timer' = {c} /\ c.goal = sets' /\ c.kickoff /\ pending' = sets'
  <2>1. /\ Continuation(sets', TRUE, 0) \in Continuations
        /\ Continuation(sets', TRUE, 0).goal = sets' /\ Continuation(sets', TRUE, 0).kickoff
    BY <1>c DEF Continuation, Continuations
  <2>2. QED BY <1>d, <2>1
<1>g. /\ goal' \in GoalRecords /\ goal'.id = sets' /\ goal'.status = "active" /\ goal'.iterations = 0
  <2>1. PICK auto \in BOOLEAN : goal' = [id |-> sets', status |-> "active", iterations |-> 0, auto |-> auto]
    BY DEF SetGoal
  <2>2. sets' \in 0 .. MaxCalls /\ 0 \in 0 .. MaxIterations
    BY <1>c, GoalLoopAssumption DEF Goals
  <2>3. QED BY <2>1, <2>2 DEF GoalRecords
<1>p. /\ pending' \in {0, goal'.id} /\ prompts' \in {0, 1} /\ starts' = 1
      /\ prompts' = 1 => pending' = 0 /\ timer' = {}
  <2>1. Len(sends) \in Nat /\ Len(sends') \in Nat
    BY <1>d DEF GoalInv, GoalTypes, GoalTypeOK
  <2>2. /\ Len(sends') = Len(sends) => prompts' = 0
        /\ Len(sends') = Len(sends) + 1 => prompts' = 1
    BY <1>a, <2>1
  <2>3. \/ prompts' = 0 /\ pending' = sets'
        \/ prompts' = 1 /\ pending' = 0 /\ timer' = {}
    BY <1>d, <2>2
  <2>4. QED BY <1>a, <1>g, <2>3
<1>1. GoalTypes'
  <2>1. GoalTypeOK'
    BY <1>a, <1>d, <1>g, <1>p DEF GoalInv, GoalTypes, GoalTypeOK, GoalRecords, Prompts
  <2>2. goal'.id # 0 <=> goal'.status # "none"
    BY <1>c, <1>g
  <2>3. prompts' \in Nat /\ starts' \in Nat /\ goal'.id <= sets'
    BY <1>c, <1>g, <1>p
  <2>4. QED BY <1>a, <1>c, <1>t, <2>1, <2>2, <2>3 DEF GoalInv, GoalTypes
<1>2. PhaseOK'
  BY <1>a, <1>d DEF GoalInv, PhaseOK
<1>3. TimerOK'
  BY <1>g, <1>t DEF TimerOK
<1>4. CountOK'
  <2>1. Owed' \in {0, 1} /\ (prompts' = 1 => Owed' = 0)
    BY <1>p DEF Owed
  <2>2. CASE prompts' = 0
    <3>0. Owed' = 0 \/ Owed' = 1
      BY <2>1
    <3>1. prompts' + Owed' <= 1 + 0
      BY <2>2, <3>0
    <3>2. QED BY <1>g, <1>p, <3>1 DEF CountOK
  <2>3. CASE prompts' = 1
    <3>1. prompts' + Owed' <= 1 + 0
      BY <2>1, <2>3
    <3>2. QED BY <1>g, <1>p, <3>1 DEF CountOK
  <2>4. QED BY <1>p, <2>2, <2>3
<1>5. AwaitOK'
  <2>1. status' = "awaiting" => status = "awaiting"
    BY <1>d
  <2>2. QED BY <1>a, <2>1 DEF GoalInv, AwaitOK
<1>6. StallOK'
  BY <1>a DEF StallOK
<1>7. SinceOK'
  BY <1>a, <1>d, <1>g DEF SinceOK
<1>8. TokenOK'
  BY <1>a DEF GoalInv, TokenOK
<1>9. QED BY <1>1, <1>2, <1>3, <1>4, <1>5, <1>6, <1>7, <1>8 DEF GoalInv

(* A goal is resumed. *)
LEMMA InvResumeGoal ==
  ASSUME GoalInv, ResumeGoal, UNCHANGED adapter
  PROVE  GoalInv'
<1>a. /\ UNCHANGED <<token, turn, settling, queue, asked, told, sets>>
      /\ goalCalls < MaxCalls /\ goalCalls' = goalCalls + 1 /\ driven' = FALSE
      /\ starts' = starts + 1 /\ prompts' = prompts + Len(sends') - Len(sends)
  BY DEF ResumeGoal, Call, harness
<1>b. StartGoal(goal.id)
  BY DEF ResumeGoal
<1>c. /\ goal.id \in Goals /\ sets \in Nat /\ goalCalls' \in Nat /\ sets <= goalCalls' /\ goalCalls' <= MaxCalls
      /\ goal.id <= sets
  BY <1>a, GoalLoopAssumption DEF GoalInv, GoalTypes, GoalTypeOK, Goals, ResumeGoal
<1>d. /\ sends' \in Seq(Prompts)
      /\ \A k \in DOMAIN sends' : sends'[k].at # "starting" => runtime' = "up"
      /\ runtime' = "up" <=> runtime = "up"
      /\ runtime = "up" => UNCHANGED status
      /\ runtime = "none" \/ UNCHANGED <<runtime, status>>
      /\ runtime = "none" => status' = "starting"
      /\ \/ /\ Len(sends') = Len(sends)
            /\ pending' = goal.id
            /\ timer' = {} \/ timer' = {Continuation(goal.id, TRUE, 0)}
         \/ /\ Len(sends') = Len(sends) + 1
            /\ turn = {} /\ pending' = 0 /\ timer' = {}
  <2>1. GoalTypes /\ PhaseOK
    BY DEF GoalInv
  <2>2. QED BY <1>a, <1>b, <1>c, <2>1, StartGoalFacts
<1>t. /\ timer' \subseteq Continuations
      /\ \A c \in timer' : timer' = {c} /\ c.goal = goal.id /\ c.kickoff /\ pending' = goal.id
  <2>1. /\ Continuation(goal.id, TRUE, 0) \in Continuations
        /\ Continuation(goal.id, TRUE, 0).goal = goal.id /\ Continuation(goal.id, TRUE, 0).kickoff
    BY <1>c DEF Continuation, Continuations
  <2>2. QED BY <1>d, <2>1
<1>g. /\ goal' \in GoalRecords /\ goal'.id = goal.id /\ goal'.status = "active"
      /\ goal'.iterations = goal.iterations
  BY DEF ResumeGoal, GoalInv, GoalTypes, GoalTypeOK, GoalRecords
<1>p. /\ pending' \in {0, goal'.id} /\ prompts' \in {prompts, prompts + 1} /\ prompts' \in Nat /\ starts' \in Nat
      /\ prompts' = prompts \/ (prompts' = prompts + 1 /\ pending' = 0 /\ timer' = {})
  <2>1. Len(sends) \in Nat /\ Len(sends') \in Nat /\ prompts \in Nat /\ starts \in Nat
    BY <1>d DEF GoalInv, GoalTypes, GoalTypeOK
  <2>2. /\ Len(sends') = Len(sends) => prompts' = prompts
        /\ Len(sends') = Len(sends) + 1 => prompts' = prompts + 1
        /\ starts' \in Nat
    BY <1>a, <2>1
  <2>3. \/ prompts' = prompts /\ pending' = goal.id
        \/ prompts' = prompts + 1 /\ pending' = 0 /\ timer' = {}
    BY <1>d, <2>2
  <2>4. prompts' \in Nat
    BY <2>1, <2>3
  <2>5. QED BY <1>g, <2>2, <2>3, <2>4
<1>1. GoalTypes'
  <2>1. GoalTypeOK'
    BY <1>a, <1>d, <1>g, <1>p DEF GoalInv, GoalTypes, GoalTypeOK, GoalRecords, Prompts
  <2>2. goal'.id # 0
    BY <1>c, <1>g DEF Goals
  <2>3. QED BY <1>a, <1>c, <1>g, <1>p, <1>t, <2>1, <2>2 DEF GoalInv, GoalTypes
<1>2. PhaseOK'
  BY <1>a, <1>d DEF GoalInv, PhaseOK
<1>3. TimerOK'
  BY <1>g, <1>t DEF TimerOK
<1>4. CountOK'
  <2>1. /\ Owed' \in {0, 1} /\ Owed \in {0, 1}
        /\ prompts' = prompts \/ (prompts' = prompts + 1 /\ Owed' = 0)
    BY <1>p DEF Owed
  <2>2. prompts \in Nat /\ starts \in Nat /\ goal.iterations \in Nat /\ goal.id # 0
    BY <1>c, GoalLoopAssumption DEF GoalInv, GoalTypes, GoalTypeOK, Goals
  <2>3. prompts + Owed <= starts + goal.iterations
    BY <2>2 DEF GoalInv, CountOK
  <2>4. prompts' + Owed' <= (starts + 1) + goal.iterations
    BY <2>1, <2>2, <2>3
  <2>5. QED BY <1>a, <1>g, <2>4 DEF CountOK
<1>5. AwaitOK'
  <2>1. status' = "awaiting" => status = "awaiting"
    BY <1>d
  <2>2. QED BY <1>a, <2>1 DEF GoalInv, AwaitOK
<1>6. StallOK'
  BY <1>a DEF StallOK
<1>7. SinceOK'
  BY <1>a, <1>d, <1>g DEF SinceOK
<1>8. TokenOK'
  BY <1>a DEF GoalInv, TokenOK
<1>9. QED BY <1>1, <1>2, <1>3, <1>4, <1>5, <1>6, <1>7, <1>8 DEF GoalInv

(* A goal is paused, completed or cleared. *)
LEMMA InvEndGoal ==
  ASSUME GoalInv, EndGoal, UNCHANGED adapter
  PROVE  GoalInv'
<1>a. /\ UNCHANGED <<status, runtime, sends, token, turn, settling, queue, asked, told, sets, starts, prompts>>
      /\ goalCalls < MaxCalls /\ goalCalls' = goalCalls + 1 /\ driven' = FALSE /\ pending' = 0 /\ timer' = {}
  BY DEF EndGoal, Call, harness
<1>c. goalCalls' \in Nat /\ sets <= goalCalls' /\ goalCalls' <= MaxCalls
  BY <1>a, GoalLoopAssumption DEF GoalInv, GoalTypes
<1>g. /\ goal' \in GoalRecords /\ goal'.status # "active"
      /\ goal' = NoGoal \/ (goal'.id = goal.id /\ goal'.iterations = goal.iterations /\ goal'.status # "none")
  <2>1. NoGoal \in GoalRecords /\ NoGoal.status = "none"
    BY GoalLoopAssumption DEF NoGoal, GoalRecords
  <2>2. ASSUME NEW s \in {"paused", "complete"}
        PROVE  LET g == [goal EXCEPT !.status = s]
               IN g \in GoalRecords /\ g.status = s /\ g.id = goal.id /\ g.iterations = goal.iterations
    BY DEF GoalInv, GoalTypes, GoalTypeOK, GoalRecords
  <2>3. goal' = NoGoal \/ \E s \in {"paused", "complete"} : goal' = [goal EXCEPT !.status = s]
    BY DEF EndGoal
  <2>4. QED BY <2>1, <2>2, <2>3
<1>h. NoGoal.id = 0 /\ NoGoal.status = "none" /\ goal.id # 0
  BY DEF NoGoal, EndGoal
<1>1. GoalTypes'
  <2>1. GoalTypeOK'
    BY <1>a, <1>g DEF GoalInv, GoalTypes, GoalTypeOK, GoalRecords
  <2>2. goal'.id # 0 <=> goal'.status # "none"
    BY <1>g, <1>h
  <2>3. goal'.id <= sets
    BY <1>g, <1>h DEF GoalInv, GoalTypes
  <2>4. QED BY <1>a, <1>c, <2>1, <2>2, <2>3 DEF GoalInv, GoalTypes
<1>2. PhaseOK'
  BY <1>a DEF GoalInv, PhaseOK
<1>3. TimerOK'
  BY <1>a DEF TimerOK
<1>4. CountOK'
  <2>1. Owed' = 0 /\ Owed \in {0, 1}
    BY <1>a DEF Owed
  <2>2. prompts \in Nat /\ starts \in Nat /\ goal.iterations \in Nat
    BY GoalLoopAssumption DEF GoalInv, GoalTypes, GoalTypeOK
  <2>3. prompts + Owed <= starts + goal.iterations
    BY <1>h DEF GoalInv, CountOK
  <2>4. prompts + Owed' <= starts + goal.iterations
    BY <2>1, <2>2, <2>3
  <2>5. QED BY <1>a, <1>g, <1>h, <2>4 DEF CountOK
<1>5. AwaitOK'
  BY <1>a DEF GoalInv, AwaitOK
<1>6. StallOK'
  BY <1>a DEF StallOK
<1>7. SinceOK'
  BY <1>g DEF SinceOK
<1>8. TokenOK'
  BY <1>a DEF GoalInv, TokenOK
<1>9. QED BY <1>1, <1>2, <1>3, <1>4, <1>5, <1>6, <1>7, <1>8 DEF GoalInv

LEMMA GoalInvInit == GoalInit => GoalInv
<1> SUFFICES ASSUME GoalInit PROVE GoalInv
  OBVIOUS
<1>a. /\ adapter \in Adapters /\ goal = NoGoal /\ status = "idle" /\ runtime = "none" /\ sends = <<>>
      /\ pending = 0 /\ timer = {} /\ token = FALSE /\ turn = {} /\ settling = {} /\ asked = FALSE
      /\ sets = 0 /\ goalCalls = 0 /\ told = {} /\ starts = 0 /\ prompts = 0 /\ driven = FALSE
  BY DEF GoalInit
<1>b. /\ NoGoal.id = 0 /\ NoGoal.status = "none" /\ NoGoal.iterations = 0 /\ NoGoal \in GoalRecords
      /\ MaxCalls \in Nat
  BY GoalLoopAssumption DEF NoGoal, GoalRecords
<1>c. sends \in Seq(Prompts) /\ DOMAIN sends = {}
  BY <1>a
<1>1. GoalTypes
  <2>1. GoalTypeOK
    BY <1>a, <1>b, <1>c DEF GoalTypeOK, GoalRecords, Prompts
  <2>2. adapter \in {"codex", "native", "pi"}
    BY <1>a, GoalLoopAssumption
  <2>3. goal.id # 0 <=> goal.status # "none"
    BY <1>a, <1>b
  <2>4. goal.id <= sets /\ sets <= goalCalls /\ goalCalls <= MaxCalls
    BY <1>a, <1>b
  <2>5. QED BY <1>a, <2>1, <2>2, <2>3, <2>4 DEF GoalTypes
<1>2. PhaseOK
  BY <1>a, <1>c DEF PhaseOK
<1>3. TimerOK /\ CountOK
  BY <1>a, <1>b DEF TimerOK, CountOK
<1>4. AwaitOK /\ StallOK /\ SinceOK /\ TokenOK
  BY <1>a DEF AwaitOK, StallOK, SinceOK, TokenOK
<1>5. QED BY <1>1, <1>2, <1>3, <1>4 DEF GoalInv

LEMMA GoalInvNext == GoalInv /\ [GoalNext]_goalVars => GoalInv'
<1> SUFFICES ASSUME GoalInv, [GoalNext]_goalVars PROVE GoalInv'
  OBVIOUS
<1>1. CASE UNCHANGED goalVars
  <2>1. UNCHANGED <<goal, status, runtime, sends, pending, timer, token, adapter, turn, settling, queue, asked,
                    sets, goalCalls, told, starts, prompts, driven>>
    BY <1>1 DEF goalVars, harness, bounds, goalHistory
  <2>2. GoalTypes'
    BY <2>1 DEF GoalInv, GoalTypes, GoalTypeOK
  <2>3. PhaseOK' /\ TimerOK'
    BY <2>1 DEF GoalInv, PhaseOK, TimerOK
  <2>4. CountOK' /\ AwaitOK'
    BY <2>1 DEF GoalInv, CountOK, Owed, AwaitOK
  <2>5. StallOK' /\ SinceOK' /\ TokenOK'
    BY <2>1 DEF GoalInv, StallOK, Sending, SinceOK, TokenOK
  <2>6. QED BY <2>2, <2>3, <2>4, <2>5 DEF GoalInv
<1>2. CASE GoalNext
  <2>0. Step /\ UNCHANGED adapter
    BY <1>2 DEF GoalNext
  <2>1. CASE UserSends \/ SetGoal \/ ResumeGoal \/ EndGoal
    BY <2>0, <2>1, InvUserSends, InvSetGoal, InvResumeGoal, InvEndGoal
  <2>2. CASE RuntimeStarts \/ RuntimeEnds \/ Compact \/ CompactionDone
    BY <2>0, <2>2, InvRuntimeStarts, InvRuntimeEnds, InvCompact, InvCompactionDone
  <2>3. CASE \E k \in DOMAIN sends : Dispatch(k) \/ DispatchFails(k)
    BY <2>0, <2>3, InvDispatch, InvDispatchFails
  <2>4. CASE TurnAnswers \/ RequestApproval \/ RespondApproval \/ Interrupt
    BY <2>0, <2>4, InvTurnAnswers, InvRequestApproval, InvRespondApproval, InvInterrupt
  <2>5. CASE \E outcome \in Outcomes : CodexTurnEnds(outcome) \/ NativeTurnEnds(outcome) \/ PiSettles(outcome)
    BY <2>0, <2>5, InvCodexTurnEnds, InvNativeTurnEnds, InvPiSettles
  <2>6. CASE NativeSettles \/ PiTurnEnds
    BY <2>0, <2>6, InvNativeSettles, InvPiTurnEnds
  <2>7. CASE TimerStep
    BY <2>0, <2>7, InvWaits, InvLapses, InvFires DEF TimerStep
  <2>8. QED BY <2>0, <2>1, <2>2, <2>3, <2>4, <2>5, <2>6, <2>7 DEF Step
<1>3. QED BY <1>1, <1>2

-----------------------------------------------------------------------------
(* The theorems about goals. *)

(* The invariant of a session's goal, of any kind of adapter and for any limits. *)
THEOREM GoalInvariant == GoalSpec => []GoalInv
<1>1. QED BY GoalInvInit, GoalInvNext, PTL DEF GoalSpec

(* An autonomous run does not end silently: after a completed turn that called for a check-in, one is *)
(* timed or on its way, or a turn runs whose end will call for the next.                              *)
THEOREM GoalsNeverStall == GoalSpec => []NeverStalls
<1>1. GoalInv => NeverStalls
  BY DEF GoalInv, StallOK, Sending, NeverStalls
<1>2. QED BY <1>1, GoalInvariant, PTL

(* A goal gets one prompt for each time it was set or resumed and one for each counted check-in, never *)
(* more than its guard allows.                                                                          *)
THEOREM GoalsArePromptedOnce == GoalSpec => []EachPromptOnce
<1>1. GoalInv => EachPromptOnce
  <2>1. ASSUME GoalInv, goal.id # 0 PROVE prompts <= starts + goal.iterations /\ goal.iterations <= MaxIterations
    <3>1. /\ prompts \in Nat /\ starts \in Nat /\ goal.iterations \in 0 .. MaxIterations /\ MaxIterations \in Nat
          /\ Owed \in {0, 1}
      BY <2>1, GoalLoopAssumption DEF GoalInv, GoalTypes, GoalTypeOK, Owed
    <3>2. prompts + Owed <= starts + goal.iterations
      BY <2>1 DEF GoalInv, CountOK
    <3>3. QED BY <3>1, <3>2
  <2>2. QED BY <2>1 DEF EachPromptOnce
<1>2. QED BY <1>1, GoalInvariant, PTL

(* What judges a goal, except over Pi, is the answer of the turn that is reported, and that turn did not *)
(* begin before the goal was set.                                                                         *)
THEOREM RepliesJudge == GoalSpec => RepliesJudgeTheirGoal
<1>1. GoalInv /\ [GoalNext]_goalVars =>
        [adapter # "pi" /\ Reports /\ goal' # goal =>
           \A t \in turn : t.since >= goal.id /\ (goal'.status = "complete" => t.says)]_goalVars
  <2>1. ASSUME GoalInv, adapter # "pi", Reports, goal' # goal, NEW t \in turn
        PROVE  t.since >= goal.id /\ (goal'.status = "complete" => t.says)
    <3>1. PICK outcome \in Outcomes : TurnFinished(outcome)
      BY <2>1 DEF Reports, CodexTurnEnds, NativeTurnEnds
    <3>2. goal' = GoalAfter(outcome) /\ GoalTypes
      BY <2>1, <3>1 DEF TurnFinished, GoalInv
    <3>3. Counts(outcome) /\ (goal'.status = "complete" => token)
      BY <2>1, <3>2, GoalAfterFacts
    <3>4. t.since >= goal.id
      <4>1. goal.status = "active" /\ pending # goal.id
        BY <3>3 DEF Counts
      <4>2. QED BY <2>1, <4>1 DEF GoalInv, SinceOK
    <3>5. token => t.says
      BY <2>1 DEF GoalInv, TokenOK
    <3>6. QED BY <3>3, <3>4, <3>5
  <2>2. QED BY <2>1
<1>2. QED BY <1>1, GoalInvariant, PTL DEF GoalSpec, RepliesJudgeTheirGoal
=============================================================================
