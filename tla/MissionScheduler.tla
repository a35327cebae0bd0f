-------------------------- MODULE MissionScheduler --------------------------
(***************************************************************************)
(* Admission of Mission work to the app's shared capacity                  *)
(* (src/main/mission/scheduler.ts): lead turns, worker turns and heavy     *)
(* checks of every Mission wait here until the global, per-account and     *)
(* per-Mission ceilings let them in.                                       *)
(*                                                                         *)
(* A request is its owner: an operation id, whose Mission, kind and        *)
(* account never change. An owner may be admitted again after its release  *)
(* (dispatchRetry of service.ts does). No caller sets `priority`, so leads *)
(* go first and the rest in order of arrival; only heavy checks bring a    *)
(* signal. The order of arrival, `sequence` in the code, is kept as the    *)
(* set of requests each waiting one has ahead of it, which needs no bound. *)
(***************************************************************************)
EXTENDS Naturals, FiniteSets

CONSTANTS Missions, Owners, Accounts,
          MissionOf, KindOf, AccountOf,  \* what each owner asks for
          LimitOf,                       \* workerLimit frozen in each Mission's record
          Careless,                      \* bound: the owners whose caller may release twice
          Capacities                     \* the settings configure() may bring

Kinds == {"lead", "worker", "heavy_check"}

ASSUME SchedulerAssumption ==
  /\ IsFiniteSet(Owners) /\ IsFiniteSet(Missions)
  /\ MissionOf \in [Owners -> Missions]
  /\ KindOf \in [Owners -> Kinds]
  /\ AccountOf \in [Owners -> Accounts]
  /\ LimitOf \in [Missions -> Nat \ {0}]
  /\ Careless \subseteq Owners
  /\ Capacities \subseteq [turns : Nat \ {0}, checks : Nat \ {0}, accounts : [Accounts -> Nat \ {0}]]
  /\ Capacities # {}

VARIABLES
  capacity,    \* this.capacity
  registered,  \* the keys of this.missions
  paused,      \* those of them with paused set
  active,      \* this.active
  waiting,     \* this.waiting
  ahead,       \* the requests that were pushed before each waiting one and still wait
  spent,       \* owners whose released lease object a caller may release again
  leased       \* history: owners whose present lease has not been released, whose turn may run

vars == <<capacity, registered, paused, active, waiting, ahead, spent, leased>>

Init ==
  /\ capacity \in Capacities
  /\ registered = {} /\ paused = {} /\ active = {} /\ waiting = {} /\ spent = {} /\ leased = {}
  /\ ahead = [o \in Owners |-> {}]

-----------------------------------------------------------------------------
(* canAdmit(), on the requests it would find active. *)

Turns(S) == {o \in S : KindOf[o] # "heavy_check"}
Checks(S) == {o \in S : KindOf[o] = "heavy_check"}
Workers(S) == {o \in S : KindOf[o] = "worker"}
LeadsFor(m, S) == {o \in S : KindOf[o] = "lead" /\ MissionOf[o] = m}
WorkersFor(m, S) == {o \in S : KindOf[o] = "worker" /\ MissionOf[o] = m}
TurnsOn(a, S) == {o \in S : KindOf[o] # "heavy_check" /\ AccountOf[o] = a}

TurnFits(o, S, cap) ==
  /\ Cardinality(Turns(S)) < cap.turns
  /\ Cardinality(TurnsOn(AccountOf[o], S)) < cap.accounts[AccountOf[o]]

(* Reserved lead slots cannot be consumed by a worker. *)
WorkerFits(o, S, cap, missions) ==
  /\ Cardinality(WorkersFor(MissionOf[o], S)) < LimitOf[MissionOf[o]]
  /\ Cardinality(Workers(S)) + Cardinality(missions) < cap.turns

(* Wrong variant: the reserved lead slots are not kept back. *)
CanAdmitUnreserved(o, S, cap, missions, held) ==
  /\ MissionOf[o] \in missions \ held
  /\ CASE KindOf[o] = "heavy_check" -> Cardinality(Checks(S)) < cap.checks
       [] KindOf[o] = "lead"        -> TurnFits(o, S, cap) /\ LeadsFor(MissionOf[o], S) = {}
       [] KindOf[o] = "worker"      -> /\ TurnFits(o, S, cap)
                                       /\ Cardinality(WorkersFor(MissionOf[o], S)) < LimitOf[MissionOf[o]]

CanAdmit(o, S, cap, missions, held) ==
  /\ MissionOf[o] \in missions \ held
  /\ CASE KindOf[o] = "heavy_check" -> Cardinality(Checks(S)) < cap.checks
       [] KindOf[o] = "lead"        -> TurnFits(o, S, cap) /\ LeadsFor(MissionOf[o], S) = {}
       [] KindOf[o] = "worker"      -> TurnFits(o, S, cap) /\ WorkerFits(o, S, cap, missions)

-----------------------------------------------------------------------------
(* pump(): the queue is sorted by priority, then age, and walked once. *)

(* Wrong variant: the sort puts the younger first. *)
BeforeYoungest(p, o, line) ==
  \/ KindOf[p] = "lead" /\ KindOf[o] # "lead"
  \/ (KindOf[p] = "lead") = (KindOf[o] = "lead") /\ o \in line[p]

Before(p, o, line) ==
  \/ KindOf[p] = "lead" /\ KindOf[o] # "lead"
  \/ (KindOf[p] = "lead") = (KindOf[o] = "lead") /\ p \in line[o]

Removed(line, gone) == [o \in Owners |-> IF o \in gone THEN {} ELSE line[o] \ gone]

(* One walk over `queue`, whose order is `line`, with `busy` already active: each *)
(* request is let in exactly if it fits beside those let in before it.           *)
Pump(busy, kept, queue, line) ==
  \E A \in SUBSET {o \in queue : CanAdmit(o, busy, capacity', registered', paused')} :
    /\ \A o \in queue : o \in A <=>
         CanAdmit(o, busy \cup {p \in A : Before(p, o, line)}, capacity', registered', paused')
    /\ active' = busy \cup A
    /\ waiting' = queue \ A
    /\ ahead' = Removed(line, A)
    /\ leased' = kept \cup A

Configure(cap) ==
  /\ capacity' = cap
  /\ UNCHANGED <<registered, paused, spent>>
  /\ Pump(active, leased, waiting, ahead)

(* A Mission it already knows is left as it is, and the call returns true. *)
Register(m) ==
  /\ m \notin registered
  /\ Cardinality(registered) < capacity.turns
  /\ registered' = registered \cup {m}
  /\ UNCHANGED <<capacity, paused, spent>>
  /\ Pump(active, leased, waiting, ahead)

(* rejectPending() *)
Rejects(m) ==
  LET gone == {o \in waiting : MissionOf[o] = m} IN
  /\ waiting' = waiting \ gone
  /\ ahead' = Removed(ahead, gone)

Pause(m) ==
  /\ m \in registered
  /\ paused' = paused \cup {m}
  /\ Rejects(m)
  /\ UNCHANGED <<capacity, registered, active, spent, leased>>

Resume(m) ==
  /\ m \in registered
  /\ paused' = paused \ {m}
  /\ UNCHANGED <<capacity, registered, spent>>
  /\ Pump(active, leased, waiting, ahead)

(* It throws after pausing the Mission when the Mission still owns capacity. *)
UnregisterRefused(m) ==
  /\ m \in registered /\ \E o \in active : MissionOf[o] = m
  /\ Pause(m)

(* Wrong variant: the Mission's reservation goes and nobody is told. *)
UnregisterSilently(m) ==
  /\ m \in registered /\ \A o \in active : MissionOf[o] # m
  /\ registered' = registered \ {m} /\ paused' = paused \ {m}
  /\ Rejects(m)
  /\ UNCHANGED <<capacity, active, spent, leased>>

Unregister(m) ==
  /\ m \in registered /\ \A o \in active : MissionOf[o] # m
  /\ registered' = registered \ {m} /\ paused' = paused \ {m}
  /\ UNCHANGED <<capacity, spent>>
  /\ LET gone == {o \in waiting : MissionOf[o] = m} IN
     Pump(active, leased, waiting \ gone, Removed(ahead, gone))

(* Recovery accounts for a lead that may still run, above any ceiling. *)
RetainUnknownLead(o) ==
  /\ KindOf[o] = "lead" /\ o \notin active \cup waiting
  /\ registered' = registered \cup {MissionOf[o]}
  /\ paused' = paused \cup {MissionOf[o]}
  /\ Rejects(MissionOf[o])
  /\ active' = active \cup {o} /\ leased' = leased \cup {o}
  /\ UNCHANGED <<capacity, spent>>

Acquire(o) ==
  /\ MissionOf[o] \in registered \ paused
  /\ o \notin active \cup waiting
  /\ UNCHANGED <<capacity, registered, paused, spent>>
  /\ Pump(active, leased, waiting \cup {o}, [ahead EXCEPT ![o] = waiting])

(* The signal of a queued request fires; admitted ones no longer listen. *)
Abort(o) ==
  /\ KindOf[o] = "heavy_check" /\ o \in waiting
  /\ waiting' = waiting \ {o} /\ ahead' = Removed(ahead, {o})
  /\ UNCHANGED <<capacity, registered, paused, active, spent, leased>>

(* Wrong variant: the freed slot is offered to nobody. *)
ReleaseSilently(o) ==
  /\ o \in leased /\ leased' = leased \ {o} /\ active' = active \ {o}
  /\ UNCHANGED <<capacity, registered, paused, waiting, ahead, spent>>

(* The owner has seen the turn and its tools stop, and calls release(true) on its lease. *)
Release(o) ==
  /\ o \in leased
  /\ spent' = IF o \in Careless THEN spent \cup {o} ELSE spent
  /\ UNCHANGED <<capacity, registered, paused>>
  /\ Pump(active \ {o}, leased \ {o}, waiting, ahead)

(* Wrong variant: `released` is not consulted. *)
ReleaseAnew(o) ==
  /\ o \in spent /\ spent' = spent \ {o}
  /\ UNCHANGED <<capacity, registered, paused>>
  /\ Pump(active \ {o}, leased, waiting, ahead)

(* A caller releases a lease again: `released` makes it a no-op, whoever owns the slot by now. *)
ReleaseAgain(o) ==
  /\ o \in spent /\ spent' = spent \ {o}
  /\ UNCHANGED <<capacity, registered, paused, active, waiting, ahead, leased>>

Next ==
  \/ \E cap \in Capacities : Configure(cap)
  \/ \E m \in Missions : Register(m) \/ Pause(m) \/ Resume(m) \/ UnregisterRefused(m) \/ Unregister(m)
  \/ \E o \in Owners : RetainUnknownLead(o) \/ Acquire(o) \/ Abort(o) \/ Release(o) \/ ReleaseAgain(o)

Spec == Init /\ [][Next]_vars

(* Every admitted turn or check ends and its owner releases it. *)
Fairness == \A o \in Owners : WF_vars(Release(o))
FairSpec == Spec /\ Fairness

-----------------------------------------------------------------------------
TypeOK ==
  /\ capacity \in Capacities
  /\ registered \in SUBSET Missions /\ paused \in SUBSET registered
  /\ active \in SUBSET Owners /\ waiting \in SUBSET (Owners \ active)
  /\ ahead \in [Owners -> SUBSET waiting]
  /\ spent \in SUBSET Owners /\ leased \in SUBSET Owners

(* Between calls nothing waits that the ceilings would let in: whatever frees  *)
(* capacity (a release, a resume, a new setting, a Mission leaving, which      *)
(* gives its lead's reservation back) walks the queue.                         *)
NoLostWake == \A o \in waiting : ~CanAdmit(o, active, capacity, registered, paused)

(* A slot is given back by its own lease and by nothing else: a late second    *)
(* release() of an earlier lease of the same owner does not free the slot      *)
(* under the turn that runs in it now.                                         *)
LeaseHoldsItsSlot == leased = active

(* So no capacity is lost, and none is given twice. *)
CapacityIsAccounted == NoLostWake /\ LeaseHoldsItsSlot

(* Whatever one call lets in at once stays within every ceiling: the settings  *)
(* for turns, accounts and checks, one lead per Mission, the Mission's own     *)
(* worker limit, and the slots kept back for leads. A recovered lead is        *)
(* accounted for and not let in.                                               *)
Admitted == {o \in active' \ active : o \in waiting \/ MissionOf[o] \notin paused'}
LetInWithinCeilings ==
  /\ Admitted \cap Turns(Owners) # {} => Cardinality(Turns(active')) <= capacity'.turns
  /\ Admitted \cap Checks(Owners) # {} => Cardinality(Checks(active')) <= capacity'.checks
  /\ \A o \in Admitted \cap Turns(Owners) :
       Cardinality(TurnsOn(AccountOf[o], active')) <= capacity'.accounts[AccountOf[o]]
  /\ \A m \in Missions :
       /\ Admitted \cap LeadsFor(m, Owners) # {} => Cardinality(LeadsFor(m, active')) = 1
       /\ Admitted \cap WorkersFor(m, Owners) # {} => Cardinality(WorkersFor(m, active')) <= LimitOf[m]
  /\ Admitted \cap Workers(Owners) # {} =>
       Cardinality(Workers(active')) + Cardinality(registered') <= capacity'.turns
CeilingsHold == [][LetInWithinCeilings]_vars

(* A request is never passed by a younger one that asks for the same thing:    *)
(* the same kind of work, on the same account, for the same Mission.           *)
Alike(o, p) == KindOf[o] = KindOf[p] /\ MissionOf[o] = MissionOf[p] /\ AccountOf[o] = AccountOf[p]
OlderGoesFirst ==
  \A o, p \in waiting : (o \in ahead[p] /\ Alike(o, p) /\ p \in active') => o \notin waiting'
NoOvertaking == [][OlderGoesFirst]_vars

(* Lead turns and heavy checks are always let in, or turned away by a pause or *)
(* their signal, however many requests keep arriving. Workers have no such     *)
(* promise: with as many Missions as turns, no worker is ever let in.          *)
LeadsAndChecksAreServed ==
  \A o \in Owners : (o \in waiting /\ KindOf[o] # "worker") ~> o \notin waiting
=============================================================================
