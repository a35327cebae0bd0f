----------------------- MODULE MissionSchedulerProofs -----------------------
(***************************************************************************)
(* What MissionScheduler promises for every set of Missions, requests and  *)
(* settings. One call walks the queue once (Pump); the lemmas below say    *)
(* what a walk leaves behind, and each action is a walk, a removal of      *)
(* queued requests, or both.                                               *)
(***************************************************************************)
EXTENDS MissionScheduler, FiniteSetTheorems, TLAPS

(* A request that fits beside some requests fits beside fewer of them. *)
LEMMA FitsBesideFewer ==
  ASSUME NEW o \in Owners, NEW S \in SUBSET Owners, NEW T \in SUBSET S,
         NEW cap \in Capacities, NEW ms \in SUBSET Missions, NEW held,
         CanAdmit(o, S, cap, ms, held)
  PROVE  CanAdmit(o, T, cap, ms, held)
<1> USE SchedulerAssumption
<1> DEFINE m == MissionOf[o]
           a == AccountOf[o]
<1>1. /\ Cardinality(Turns(T)) <= Cardinality(Turns(S))
      /\ Cardinality(Turns(T)) \in Nat /\ Cardinality(Turns(S)) \in Nat
  <2>1. Turns(T) \subseteq Turns(S) /\ IsFiniteSet(Turns(S)) /\ IsFiniteSet(Turns(T))
    BY FS_Subset DEF Turns
  <2> QED BY <2>1, FS_Subset, FS_CardinalityType
<1>2. /\ Cardinality(Checks(T)) <= Cardinality(Checks(S))
      /\ Cardinality(Checks(T)) \in Nat /\ Cardinality(Checks(S)) \in Nat
  <2>1. Checks(T) \subseteq Checks(S) /\ IsFiniteSet(Checks(S)) /\ IsFiniteSet(Checks(T))
    BY FS_Subset DEF Checks
  <2> QED BY <2>1, FS_Subset, FS_CardinalityType
<1>3. /\ Cardinality(Workers(T)) <= Cardinality(Workers(S))
      /\ Cardinality(Workers(T)) \in Nat /\ Cardinality(Workers(S)) \in Nat
  <2>1. Workers(T) \subseteq Workers(S) /\ IsFiniteSet(Workers(S)) /\ IsFiniteSet(Workers(T))
    BY FS_Subset DEF Workers
  <2> QED BY <2>1, FS_Subset, FS_CardinalityType
<1>4. /\ Cardinality(WorkersFor(m, T)) <= Cardinality(WorkersFor(m, S))
      /\ Cardinality(WorkersFor(m, T)) \in Nat /\ Cardinality(WorkersFor(m, S)) \in Nat
  <2>1. WorkersFor(m, T) \subseteq WorkersFor(m, S) /\ IsFiniteSet(WorkersFor(m, S)) /\ IsFiniteSet(WorkersFor(m, T))
    BY FS_Subset DEF WorkersFor
  <2> QED BY <2>1, FS_Subset, FS_CardinalityType
<1>5. /\ Cardinality(TurnsOn(a, T)) <= Cardinality(TurnsOn(a, S))
      /\ Cardinality(TurnsOn(a, T)) \in Nat /\ Cardinality(TurnsOn(a, S)) \in Nat
  <2>1. TurnsOn(a, T) \subseteq TurnsOn(a, S) /\ IsFiniteSet(TurnsOn(a, S)) /\ IsFiniteSet(TurnsOn(a, T))
    BY FS_Subset DEF TurnsOn
  <2> QED BY <2>1, FS_Subset, FS_CardinalityType
<1>6. LeadsFor(m, T) \subseteq LeadsFor(m, S)
  BY DEF LeadsFor
<1>7. /\ cap.turns \in Nat /\ cap.checks \in Nat /\ cap.accounts[a] \in Nat /\ LimitOf[m] \in Nat
      /\ Cardinality(ms) \in Nat
  BY FS_Subset, FS_CardinalityType
<1>8. TurnFits(o, S, cap) => TurnFits(o, T, cap)
  BY <1>1, <1>5, <1>7 DEF TurnFits
<1>9. WorkerFits(o, S, cap, ms) => WorkerFits(o, T, cap, ms)
  BY <1>3, <1>4, <1>7 DEF WorkerFits
<1>10. KindOf[o] \in Kinds
  OBVIOUS
<1> HIDE DEF m, a
<1>11. CASE KindOf[o] = "heavy_check"
  BY <1>2, <1>7, <1>11 DEF CanAdmit
<1>12. CASE KindOf[o] = "lead"
  BY <1>6, <1>8, <1>12 DEF CanAdmit, m
<1>13. CASE KindOf[o] = "worker"
  BY <1>8, <1>9, <1>13 DEF CanAdmit
<1> QED BY <1>10, <1>11, <1>12, <1>13 DEF Kinds

-----------------------------------------------------------------------------
(* What one walk leaves behind. *)

(* A walk moves requests of the queue into the active ones and touches nobody else. *)
LEMMA WalkMoves ==
  ASSUME NEW busy \in SUBSET Owners, NEW kept, NEW queue \in SUBSET (Owners \ busy),
         NEW line \in [Owners -> SUBSET queue],
         Pump(busy, kept, queue, line)
  PROVE  /\ active' \in SUBSET Owners
         /\ waiting' \in SUBSET (Owners \ active')
         /\ ahead' \in [Owners -> SUBSET waiting']
         /\ kept = busy => leased' = active'
         /\ \A o \in Owners : ahead'[o] \subseteq line[o]
         /\ waiting' \subseteq queue
<1>1. PICK A \in SUBSET queue : /\ active' = busy \cup A
                                /\ waiting' = queue \ A
                                /\ ahead' = Removed(line, A)
                                /\ leased' = kept \cup A
  BY DEF Pump
<1> QED BY <1>1 DEF Removed

(* Whoever still waits after a walk does not fit beside all that was let in. *)
LEMMA WalkLeavesNobodyBehind ==
  ASSUME NEW busy \in SUBSET Owners, NEW kept, NEW queue \in SUBSET Owners, NEW line,
         capacity' \in Capacities, registered' \in SUBSET Missions,
         Pump(busy, kept, queue, line)
  PROVE  NoLostWake'
<1>1. PICK A \in SUBSET queue :
        /\ \A o \in queue : o \in A <=>
             CanAdmit(o, busy \cup {p \in A : Before(p, o, line)}, capacity', registered', paused')
        /\ active' = busy \cup A
        /\ waiting' = queue \ A
  BY DEF Pump
<1> SUFFICES ASSUME NEW o \in waiting', CanAdmit(o, active', capacity', registered', paused')
             PROVE  FALSE
  BY DEF NoLostWake
<1> DEFINE beside == busy \cup {p \in A : Before(p, o, line)}
<1>2. o \in queue /\ o \notin A /\ beside \in SUBSET active' /\ active' \in SUBSET Owners
  BY <1>1
<1>3. CanAdmit(o, beside, capacity', registered', paused')
  <2> HIDE DEF beside
  <2> QED BY <1>2, FitsBesideFewer
<1> QED BY <1>1, <1>2, <1>3

(* Removing requests from the queue, or pausing their Mission, makes none of the others fit. *)
LEMMA RemovalWakesNobody ==
  ASSUME TypeOK, NoLostWake,
         capacity' = capacity, registered \subseteq registered', registered' \in SUBSET Missions,
         paused \subseteq paused', active \subseteq active', active' \in SUBSET Owners,
         waiting' \subseteq waiting,
         \A o \in waiting' : MissionOf[o] \in registered' \ paused' => MissionOf[o] \in registered
  PROVE  NoLostWake'
<1> SUFFICES ASSUME NEW o \in waiting', CanAdmit(o, active', capacity', registered', paused')
             PROVE  CanAdmit(o, active, capacity, registered, paused)
  BY DEF NoLostWake
<1>1. /\ o \in Owners /\ capacity \in Capacities /\ registered \in SUBSET Missions
      /\ active \in SUBSET active' /\ IsFiniteSet(registered')
  BY SchedulerAssumption, FS_Subset DEF TypeOK
<1>2. CanAdmit(o, active, capacity, registered', paused')
  BY <1>1, FitsBesideFewer
<1>3. MissionOf[o] \in registered \ paused
  BY <1>2 DEF CanAdmit
<1>4. WorkerFits(o, active, capacity, registered') => WorkerFits(o, active, capacity, registered)
  <2>1. /\ Cardinality(registered) <= Cardinality(registered')
        /\ Cardinality(registered) \in Nat /\ Cardinality(registered') \in Nat
    BY <1>1, FS_Subset, FS_CardinalityType
  <2>2. Cardinality(Workers(active)) \in Nat
    <3>1. Workers(active) \subseteq Owners /\ IsFiniteSet(Owners)
      BY <1>1, SchedulerAssumption DEF Workers, TypeOK
    <3> QED BY <3>1, FS_Subset, FS_CardinalityType
  <2>3. capacity.turns \in Nat
    BY <1>1, SchedulerAssumption
  <2> QED BY <2>1, <2>2, <2>3 DEF WorkerFits
<1>5. KindOf[o] \in Kinds
  BY <1>1, SchedulerAssumption
<1>6. CASE KindOf[o] = "heavy_check"
  BY <1>2, <1>3, <1>6 DEF CanAdmit
<1>7. CASE KindOf[o] = "lead"
  BY <1>2, <1>3, <1>7 DEF CanAdmit
<1>8. CASE KindOf[o] = "worker"
  BY <1>2, <1>3, <1>4, <1>8 DEF CanAdmit
<1> QED BY <1>5, <1>6, <1>7, <1>8 DEF Kinds

-----------------------------------------------------------------------------
(* The inductive invariant: what is waiting for whom, and that nobody waits in vain. *)

(* Age is transitive: whoever is ahead of a request has less ahead of it. *)
LineIsOrdered == \A p, o \in Owners : p \in ahead[o] => ahead[p] \subseteq ahead[o]
SchedulerInv == TypeOK /\ NoLostWake /\ LeaseHoldsItsSlot /\ LineIsOrdered

LEMMA InitEstablishes == Init => SchedulerInv
BY SchedulerAssumption DEF Init, SchedulerInv, TypeOK, NoLostWake, LeaseHoldsItsSlot, LineIsOrdered

(* What is left of an ordered line is ordered. *)
LEMMA RemovedIsOrdered ==
  ASSUME NEW line \in [Owners -> SUBSET Owners], NEW gone,
         \A p, o \in Owners : p \in line[o] => line[p] \subseteq line[o]
  PROVE  \A p, o \in Owners : p \in Removed(line, gone)[o] => Removed(line, gone)[p] \subseteq Removed(line, gone)[o]
BY DEF Removed

(* A walk over an ordered queue keeps every conjunct. *)
LEMMA WalkKeeps ==
  ASSUME NEW busy \in SUBSET Owners, NEW queue \in SUBSET (Owners \ busy),
         NEW line \in [Owners -> SUBSET queue],
         \A p, o \in Owners : p \in line[o] => line[p] \subseteq line[o],
         capacity' \in Capacities, registered' \in SUBSET Missions, paused' \in SUBSET registered',
         spent' \in SUBSET Owners,
         Pump(busy, busy, queue, line)
  PROVE  SchedulerInv'
<1>1. /\ active' \in SUBSET Owners /\ waiting' \in SUBSET (Owners \ active')
      /\ ahead' \in [Owners -> SUBSET waiting'] /\ leased' = active'
  BY WalkMoves
<1>2. NoLostWake'
  BY WalkLeavesNobodyBehind
<1>3. LineIsOrdered'
  <2>1. PICK A \in SUBSET queue : ahead' = Removed(line, A)
    BY DEF Pump
  <2>2. line \in [Owners -> SUBSET Owners]
    OBVIOUS
  <2>3. \A p, o \in Owners : p \in Removed(line, A)[o] => Removed(line, A)[p] \subseteq Removed(line, A)[o]
    BY <2>2, RemovedIsOrdered
  <2> QED BY <2>1, <2>3 DEF LineIsOrdered
<1> QED BY <1>1, <1>2, <1>3 DEF SchedulerInv, TypeOK, LeaseHoldsItsSlot

(* Taking requests out of the queue without a walk keeps every conjunct. *)
LEMMA RemovalKeeps ==
  ASSUME SchedulerInv, NEW gone \in SUBSET waiting, NEW busy \in SUBSET (Owners \ waiting),
         active \subseteq busy, active' = busy, leased' = busy,
         waiting' = waiting \ gone, ahead' = Removed(ahead, gone),
         capacity' = capacity, spent' = spent,
         registered \subseteq registered', registered' \in SUBSET Missions,
         paused \subseteq paused', paused' \in SUBSET registered',
         \A o \in waiting' : MissionOf[o] \in registered' \ paused' => MissionOf[o] \in registered
  PROVE  SchedulerInv'
<1>1. TypeOK'
  BY DEF SchedulerInv, TypeOK, Removed
<1>2. NoLostWake'
  BY RemovalWakesNobody DEF SchedulerInv
<1>3. LineIsOrdered'
  <2>1. ahead \in [Owners -> SUBSET Owners] /\ \A p, o \in Owners : p \in ahead[o] => ahead[p] \subseteq ahead[o]
    BY DEF SchedulerInv, TypeOK, LineIsOrdered
  <2>2. \A p, o \in Owners : p \in Removed(ahead, gone)[o] => Removed(ahead, gone)[p] \subseteq Removed(ahead, gone)[o]
    BY <2>1, RemovedIsOrdered
  <2> QED BY <2>2 DEF LineIsOrdered
<1> QED BY <1>1, <1>2, <1>3 DEF SchedulerInv, LeaseHoldsItsSlot

LEMMA StepKeeps == SchedulerInv /\ [Next]_vars => SchedulerInv'
<1> SUFFICES ASSUME SchedulerInv, [Next]_vars PROVE SchedulerInv'
  OBVIOUS
<1> USE DEF SchedulerInv
<1>0. /\ capacity \in Capacities /\ registered \in SUBSET Missions /\ paused \in SUBSET registered
      /\ active \in SUBSET Owners /\ waiting \in SUBSET (Owners \ active)
      /\ ahead \in [Owners -> SUBSET waiting] /\ spent \in SUBSET Owners /\ leased = active
      /\ MissionOf \in [Owners -> Missions] /\ KindOf \in [Owners -> Kinds]
      /\ \A p, o \in Owners : p \in ahead[o] => ahead[p] \subseteq ahead[o]
  BY SchedulerAssumption DEF TypeOK, LeaseHoldsItsSlot, LineIsOrdered
<1>1. CASE UNCHANGED vars
  BY <1>1 DEF vars, TypeOK, NoLostWake, LeaseHoldsItsSlot, LineIsOrdered
<1>2. ASSUME NEW cap \in Capacities, Configure(cap) PROVE SchedulerInv'
  BY <1>0, <1>2, WalkKeeps DEF Configure
<1>3. ASSUME NEW m \in Missions, Register(m) PROVE SchedulerInv'
  BY <1>0, <1>3, WalkKeeps DEF Register
<1>4. ASSUME NEW m \in Missions, Pause(m) PROVE SchedulerInv'
  BY <1>0, <1>4, RemovalKeeps DEF Pause, Rejects
<1>5. ASSUME NEW m \in Missions, Resume(m) PROVE SchedulerInv'
  BY <1>0, <1>5, WalkKeeps DEF Resume
<1>6. ASSUME NEW m \in Missions, UnregisterRefused(m) PROVE SchedulerInv'
  BY <1>4, <1>6 DEF UnregisterRefused
<1>7. ASSUME NEW m \in Missions, Unregister(m) PROVE SchedulerInv'
  <2> DEFINE gone == {o \in waiting : MissionOf[o] = m}
             line == Removed(ahead, gone)
  <2>1. line \in [Owners -> SUBSET (waiting \ gone)]
    BY <1>0 DEF Removed
  <2>2. \A p, o \in Owners : p \in line[o] => line[p] \subseteq line[o]
    BY <1>0 DEF Removed
  <2>3. Pump(active, active, waiting \ gone, line)
    BY <1>0, <1>7 DEF Unregister
  <2>4. /\ capacity' \in Capacities /\ registered' \in SUBSET Missions /\ paused' \in SUBSET registered'
        /\ spent' \in SUBSET Owners
    BY <1>0, <1>7 DEF Unregister
  <2> HIDE DEF line, gone
  <2>5. gone \in SUBSET waiting
    BY DEF gone
  <2> QED BY <1>0, <2>1, <2>2, <2>3, <2>4, <2>5, WalkKeeps
<1>8. ASSUME NEW o \in Owners, RetainUnknownLead(o) PROVE SchedulerInv'
  <2> DEFINE gone == {q \in waiting : MissionOf[q] = MissionOf[o]}
             busy == active \cup {o}
  <2>1. /\ gone \in SUBSET waiting /\ busy \in SUBSET (Owners \ waiting) /\ active \subseteq busy
        /\ active' = busy /\ leased' = busy /\ capacity' = capacity /\ spent' = spent
    BY <1>0, <1>8 DEF RetainUnknownLead
  <2>2. waiting' = waiting \ gone /\ ahead' = Removed(ahead, gone)
    BY <1>8 DEF RetainUnknownLead, Rejects
  <2>3. /\ registered \subseteq registered' /\ registered' \in SUBSET Missions
        /\ paused \subseteq paused' /\ paused' \in SUBSET registered'
        /\ \A q \in waiting' : MissionOf[q] \in registered' \ paused' => MissionOf[q] \in registered
    BY <1>0, <1>8 DEF RetainUnknownLead
  <2> HIDE DEF gone, busy
  <2> QED BY <2>1, <2>2, <2>3, RemovalKeeps
<1>9. ASSUME NEW o \in Owners, Acquire(o) PROVE SchedulerInv'
  <2> DEFINE line == [ahead EXCEPT ![o] = waiting]
  <2>1. line \in [Owners -> SUBSET (waiting \cup {o})]
    BY <1>0
  <2>2. o \notin waiting /\ o \notin active
    BY <1>9 DEF Acquire
  <2>3. \A p, q \in Owners : p \in line[q] => line[p] \subseteq line[q]
    BY <1>0, <2>2
  <2>4. Pump(active, active, waiting \cup {o}, line)
    BY <1>0, <1>9 DEF Acquire
  <2>5. /\ capacity' \in Capacities /\ registered' \in SUBSET Missions /\ paused' \in SUBSET registered'
        /\ spent' \in SUBSET Owners /\ waiting \cup {o} \in SUBSET (Owners \ active)
    BY <1>0, <1>9, <2>2 DEF Acquire
  <2> HIDE DEF line
  <2> QED BY <1>0, <2>1, <2>3, <2>4, <2>5, WalkKeeps
<1>10. ASSUME NEW o \in Owners, Abort(o) PROVE SchedulerInv'
  BY <1>0, <1>10, RemovalKeeps DEF Abort
<1>11. ASSUME NEW o \in Owners, Release(o) PROVE SchedulerInv'
  <2>1. Pump(active \ {o}, active \ {o}, waiting, ahead)
    BY <1>0, <1>11 DEF Release
  <2>2. /\ capacity' \in Capacities /\ registered' \in SUBSET Missions /\ paused' \in SUBSET registered'
        /\ spent' \in SUBSET Owners
    BY <1>0, <1>11 DEF Release
  <2> QED BY <1>0, <2>1, <2>2, WalkKeeps
<1>12. ASSUME NEW o \in Owners, ReleaseAgain(o) PROVE SchedulerInv'
  BY <1>12 DEF ReleaseAgain, TypeOK, NoLostWake, LeaseHoldsItsSlot, LineIsOrdered
<1> QED BY <1>1, <1>2, <1>3, <1>4, <1>5, <1>6, <1>7, <1>8, <1>9, <1>10, <1>11, <1>12 DEF Next

(* Types, for every set of Missions, requests and settings. *)
THEOREM SchedulerTypeOK == Spec => []TypeOK
<1>1. Spec => []SchedulerInv
  BY InitEstablishes, StepKeeps, PTL DEF Spec
<1> QED BY <1>1, PTL DEF SchedulerInv

(* NoLostWake: between calls of the scheduler nothing waits that would be let  *)
(* in, for any number of Missions, requests and ceilings.                      *)
THEOREM SchedulerNoLostWake == Spec => []NoLostWake
<1>1. Spec => []SchedulerInv
  BY InitEstablishes, StepKeeps, PTL DEF Spec
<1> QED BY <1>1, PTL DEF SchedulerInv

(* LeaseHoldsItsSlot: only the present lease of an owner gives its slot back.  *)
THEOREM SchedulerLeaseHoldsItsSlot == Spec => []LeaseHoldsItsSlot
<1>1. Spec => []SchedulerInv
  BY InitEstablishes, StepKeeps, PTL DEF Spec
<1> QED BY <1>1, PTL DEF SchedulerInv

(* Both together: capacity is neither lost in a queue nor given twice. *)
THEOREM SchedulerAccountsCapacity == Spec => []CapacityIsAccounted
<1> QED BY SchedulerNoLostWake, SchedulerLeaseHoldsItsSlot, PTL DEF CapacityIsAccounted

-----------------------------------------------------------------------------
(* One walk never passes an older request for a younger one like it. *)
LEMMA WalkIsFair ==
  ASSUME NEW busy \in SUBSET Owners, NEW kept, NEW queue \in SUBSET Owners,
         NEW line \in [Owners -> SUBSET Owners],
         \A p, q \in Owners : p \in line[q] => line[p] \subseteq line[q],
         capacity' \in Capacities, registered' \in SUBSET Missions,
         Pump(busy, kept, queue, line),
         NEW o \in queue, NEW p \in queue, o \in line[p], Alike(o, p), p \in active' \ busy
  PROVE  o \notin waiting'
<1>1. PICK A \in SUBSET queue :
        /\ \A q \in queue : q \in A <=>
             CanAdmit(q, busy \cup {r \in A : Before(r, q, line)}, capacity', registered', paused')
        /\ active' = busy \cup A
        /\ waiting' = queue \ A
  BY DEF Pump
<1> DEFINE S == busy \cup {r \in A : Before(r, p, line)}
           T == busy \cup {r \in A : Before(r, o, line)}
<1>2. T \in SUBSET S /\ S \in SUBSET Owners
  BY DEF Before, Alike
<1>3. CanAdmit(p, S, capacity', registered', paused')
  BY <1>1
<1>4. CanAdmit(p, T, capacity', registered', paused')
  <2> HIDE DEF S, T
  <2> QED BY <1>2, <1>3, FitsBesideFewer
<1>5. CanAdmit(o, T, capacity', registered', paused')
  <2> HIDE DEF S, T
  <2> QED BY <1>4 DEF CanAdmit, Alike, TurnFits, WorkerFits
<1> QED BY <1>1, <1>5

(* Of a step: OlderGoesFirst, from the inductive invariant. *)
LEMMA StepIsFair == SchedulerInv /\ [Next]_vars => OlderGoesFirst
<1> SUFFICES ASSUME SchedulerInv, [Next]_vars,
                    NEW o \in waiting, NEW p \in waiting, o \in ahead[p], Alike(o, p), p \in active'
             PROVE  o \notin waiting'
  BY DEF OlderGoesFirst
<1>0. /\ capacity \in Capacities /\ registered \in SUBSET Missions
      /\ active \in SUBSET Owners /\ waiting \in SUBSET (Owners \ active)
      /\ ahead \in [Owners -> SUBSET waiting] /\ ahead \in [Owners -> SUBSET Owners] /\ p \notin active
      /\ leased = active
      /\ \A q, r \in Owners : q \in ahead[r] => ahead[q] \subseteq ahead[r]
  BY DEF SchedulerInv, TypeOK, LineIsOrdered, LeaseHoldsItsSlot
<1>1. CASE UNCHANGED vars
  BY <1>0, <1>1 DEF vars
<1>2. ASSUME NEW cap \in Capacities, Configure(cap) PROVE o \notin waiting'
  BY <1>0, <1>2, WalkIsFair DEF Configure
<1>3. ASSUME NEW m \in Missions, Register(m) PROVE o \notin waiting'
  BY <1>0, <1>3, WalkIsFair DEF Register
<1>4. ASSUME NEW m \in Missions, Pause(m) PROVE o \notin waiting'
  BY <1>0, <1>4 DEF Pause
<1>5. ASSUME NEW m \in Missions, Resume(m) PROVE o \notin waiting'
  BY <1>0, <1>5, WalkIsFair DEF Resume
<1>6. ASSUME NEW m \in Missions, UnregisterRefused(m) PROVE o \notin waiting'
  BY <1>4, <1>6 DEF UnregisterRefused
<1>7. ASSUME NEW m \in Missions, Unregister(m) PROVE o \notin waiting'
  <2> DEFINE gone == {q \in waiting : MissionOf[q] = m}
             line == Removed(ahead, gone)
  <2>1. /\ line \in [Owners -> SUBSET Owners]
        /\ \A q, r \in Owners : q \in line[r] => line[q] \subseteq line[r]
    BY <1>0 DEF Removed
  <2>2. Pump(active, active, waiting \ gone, line) /\ capacity' = capacity /\ registered' \in SUBSET Missions
    BY <1>0, <1>7 DEF Unregister
  <2>3. (waiting \ gone) \in SUBSET Owners /\ gone \subseteq waiting
    BY <1>0
  <2>4. CASE o \in gone
    BY <2>2, <2>4, WalkMoves DEF Pump
  <2>5. CASE o \notin gone
    <3>1. p \notin gone
      BY <2>5 DEF Alike
    <3>2. o \in line[p]
      BY <1>0, <2>5, <3>1 DEF Removed
    <3> HIDE DEF line, gone
    <3> QED BY <1>0, <2>1, <2>2, <2>3, <2>5, <3>1, <3>2, WalkIsFair
  <2> QED BY <2>4, <2>5
<1>8. ASSUME NEW r \in Owners, RetainUnknownLead(r) PROVE o \notin waiting'
  BY <1>0, <1>8 DEF RetainUnknownLead
<1>9. ASSUME NEW r \in Owners, Acquire(r) PROVE o \notin waiting'
  <2> DEFINE line == [ahead EXCEPT ![r] = waiting]
  <2>1. r \notin waiting
    BY <1>9 DEF Acquire
  <2>2. /\ line \in [Owners -> SUBSET Owners] /\ o \in line[p]
        /\ \A q, s \in Owners : q \in line[s] => line[q] \subseteq line[s]
    BY <1>0, <2>1
  <2>3. Pump(active, active, waiting \cup {r}, line) /\ capacity' = capacity /\ registered' = registered
    BY <1>0, <1>9 DEF Acquire
  <2> HIDE DEF line
  <2> QED BY <1>0, <2>2, <2>3, WalkIsFair
<1>10. ASSUME NEW r \in Owners, Abort(r) PROVE o \notin waiting'
  BY <1>0, <1>10 DEF Abort
<1>11. ASSUME NEW r \in Owners, Release(r) PROVE o \notin waiting'
  BY <1>0, <1>11, WalkIsFair DEF Release
<1>12. ASSUME NEW r \in Owners, ReleaseAgain(r) PROVE o \notin waiting'
  BY <1>0, <1>12 DEF ReleaseAgain
<1> QED BY <1>1, <1>2, <1>3, <1>4, <1>5, <1>6, <1>7, <1>8, <1>9, <1>10, <1>11, <1>12 DEF Next

(* NoOvertaking: requests that ask for the same thing are let in in the order  *)
(* they came, whatever else happens in between.                                *)
THEOREM SchedulerNoOvertaking == Spec => NoOvertaking
<1>1. Spec => []SchedulerInv
  BY InitEstablishes, StepKeeps, PTL DEF Spec
<1>2. SchedulerInv /\ [Next]_vars => [OlderGoesFirst]_vars
  BY StepIsFair
<1> QED BY <1>1, <1>2, PTL DEF Spec, NoOvertaking

-----------------------------------------------------------------------------
(* What one walk lets in stays within the ceilings. The last of a kind it lets in was weighed       *)
(* against all the others of that kind; a queue has a last one since it is a line.                  *)

(* Any two that wait came one after the other. *)
IsLine(queue, line) ==
  /\ \A o \in Owners : o \notin line[o]
  /\ \A p, o \in Owners : p \in line[o] => line[p] \subseteq line[o]
  /\ \A p, o \in queue : p # o => p \in line[o] \/ o \in line[p]

LineInv == SchedulerInv /\ IsLine(waiting, ahead)

LEMMA RemovedIsLine ==
  ASSUME NEW queue \in SUBSET Owners, NEW line \in [Owners -> SUBSET Owners], IsLine(queue, line),
         NEW gone
  PROVE  IsLine(queue \ gone, Removed(line, gone))
BY DEF IsLine, Removed

LEMMA LineHasLast ==
  ASSUME NEW queue \in SUBSET Owners, NEW line \in [Owners -> SUBSET Owners], IsLine(queue, line),
         NEW X \in SUBSET queue, X # {}
  PROVE  \E o \in X : \A r \in X : r # o => Before(r, o, line)
<1> DEFINE After(o) == {r \in X : Before(o, r, line)}
           T == {After(o) : o \in X}
           R == StrictSubsetOrdering(Owners)
<1>1. IsWellFoundedOn(R, SUBSET Owners)
  BY SchedulerAssumption, FS_FiniteSubsetsOfFinite, FS_StrictSubsetOrderingWellFounded
<1>2. T \subseteq SUBSET Owners /\ T # {}
  OBVIOUS
<1>3. PICK x \in T : \A y \in T : ~(<<y, x>> \in R)
  <2> HIDE DEF T, R
  <2> QED BY <1>1, <1>2, WFMin
<1>4. PICK o \in X : x = After(o)
  OBVIOUS
<1>5. ASSUME NEW r \in X, r # o, ~Before(r, o, line) PROVE FALSE
  <2>1. Before(o, r, line)
    BY <1>5 DEF Before, IsLine
  <2>2. After(r) \subseteq After(o)
    <3> SUFFICES ASSUME NEW s \in X, Before(r, s, line) PROVE Before(o, s, line)
      OBVIOUS
    <3> QED BY <2>1 DEF Before, IsLine
  <2>3. r \in After(o) /\ r \notin After(r)
    BY <2>1 DEF Before, IsLine
  <2>4. After(r) \in T /\ After(r) \in SUBSET Owners /\ After(o) \in SUBSET Owners
    OBVIOUS
  <2>5. <<After(r), After(o)>> \in R
    BY <2>2, <2>3, <2>4 DEF StrictSubsetOrdering
  <2> QED BY <1>3, <1>4, <2>4, <2>5
<1> QED BY <1>5

(* One request more is one more to count. *)
LEMMA OneMore ==
  ASSUME NEW P \in SUBSET Owners, NEW Q \in SUBSET Owners, NEW o, P \subseteq Q \cup {o}
  PROVE  /\ Cardinality(P) \in Nat /\ Cardinality(Q) \in Nat
         /\ Cardinality(P) <= Cardinality(Q) + 1
<1>1. IsFiniteSet(P) /\ IsFiniteSet(Q)
  BY SchedulerAssumption, FS_Subset
<1>2. Cardinality(P) \in Nat /\ Cardinality(Q) \in Nat
  BY <1>1, FS_CardinalityType
<1>3. IsFiniteSet(Q \cup {o}) /\ Cardinality(Q \cup {o}) <= Cardinality(Q) + 1
  BY <1>1, <1>2, FS_AddElement
<1>4. Cardinality(Q \cup {o}) \in Nat /\ Cardinality(P) <= Cardinality(Q \cup {o})
  BY <1>3, FS_Subset, FS_CardinalityType
<1> QED BY <1>2, <1>3, <1>4

(* LetInWithinCeilings, of any requests *)
Within(L) ==
  /\ L \cap Turns(Owners) # {} => Cardinality(Turns(active')) <= capacity'.turns
  /\ L \cap Checks(Owners) # {} => Cardinality(Checks(active')) <= capacity'.checks
  /\ \A o \in L \cap Turns(Owners) :
       Cardinality(TurnsOn(AccountOf[o], active')) <= capacity'.accounts[AccountOf[o]]
  /\ \A m \in Missions :
       /\ L \cap LeadsFor(m, Owners) # {} => Cardinality(LeadsFor(m, active')) = 1
       /\ L \cap WorkersFor(m, Owners) # {} => Cardinality(WorkersFor(m, active')) <= LimitOf[m]
  /\ L \cap Workers(Owners) # {} =>
       Cardinality(Workers(active')) + Cardinality(registered') <= capacity'.turns

LEMMA WithinFewer == ASSUME NEW M, NEW L \in SUBSET M, Within(M) PROVE Within(L)
BY DEF Within

LEMMA KindsAreSets ==
  ASSUME NEW S \in SUBSET Owners
  PROVE  /\ Turns(S) = S \cap Turns(Owners) /\ Checks(S) = S \cap Checks(Owners)
         /\ Workers(S) = S \cap Workers(Owners)
         /\ \A m : /\ LeadsFor(m, S) = S \cap LeadsFor(m, Owners)
                   /\ WorkersFor(m, S) = S \cap WorkersFor(m, Owners)
         /\ \A a : TurnsOn(a, S) = S \cap TurnsOn(a, Owners)
BY DEF Turns, Checks, Workers, LeadsFor, WorkersFor, TurnsOn

LEMMA WalkStaysWithin ==
  ASSUME NEW busy \in SUBSET Owners, NEW kept, NEW queue \in SUBSET (Owners \ busy),
         NEW line \in [Owners -> SUBSET Owners], IsLine(queue, line),
         capacity' \in Capacities, registered' \in SUBSET Missions,
         Pump(busy, kept, queue, line)
  PROVE  Within(active' \ busy)
<1>1. PICK A \in SUBSET queue :
        /\ \A o \in queue : o \in A <=>
             CanAdmit(o, busy \cup {r \in A : Before(r, o, line)}, capacity', registered', paused')
        /\ active' = busy \cup A
  BY DEF Pump
<1>2. active' \ busy = A /\ A \in SUBSET Owners /\ active' \in SUBSET Owners
  BY <1>1
<1> DEFINE S(o) == busy \cup {r \in A : Before(r, o, line)}
<1>3. ASSUME NEW K, A \cap K # {}
      PROVE  \E o \in A \cap K :
               /\ S(o) \in SUBSET Owners
               /\ CanAdmit(o, S(o), capacity', registered', paused')
               /\ active' \cap K \subseteq (S(o) \cap K) \cup {o}
               /\ Cardinality(S(o) \cap K) \in Nat /\ Cardinality(active' \cap K) \in Nat
               /\ Cardinality(active' \cap K) <= Cardinality(S(o) \cap K) + 1
  <2>1. A \cap K \in SUBSET queue /\ queue \in SUBSET Owners
    OBVIOUS
  <2>2. PICK o \in A \cap K : \A r \in A \cap K : r # o => Before(r, o, line)
    BY <1>3, <2>1, LineHasLast
  <2>3. /\ active' \cap K \subseteq (S(o) \cap K) \cup {o}
        /\ Cardinality(S(o) \cap K) \in Nat /\ Cardinality(active' \cap K) \in Nat
        /\ Cardinality(active' \cap K) <= Cardinality(S(o) \cap K) + 1
    <3>1. active' \cap K \subseteq (S(o) \cap K) \cup {o}
      BY <1>1, <2>2
    <3>2. PICK P, Q : P = active' \cap K /\ Q = S(o) \cap K
      OBVIOUS
    <3>3. P \in SUBSET Owners /\ Q \in SUBSET Owners /\ P \subseteq Q \cup {o}
      BY <1>2, <3>1, <3>2
    <3>4. Cardinality(P) \in Nat /\ Cardinality(Q) \in Nat /\ Cardinality(P) <= Cardinality(Q) + 1
      BY <3>3, OneMore
    <3> HIDE DEF S
    <3> QED BY <3>1, <3>2, <3>4
  <2>4. CanAdmit(o, S(o), capacity', registered', paused') /\ S(o) \in SUBSET Owners
    BY <1>1, <1>2
  <2> QED BY <2>3, <2>4
<1> HIDE DEF S
<1>4. /\ capacity'.turns \in Nat /\ capacity'.checks \in Nat /\ Cardinality(registered') \in Nat
      /\ \A a \in Accounts : capacity'.accounts[a] \in Nat
      /\ \A o \in Owners : AccountOf[o] \in Accounts /\ MissionOf[o] \in Missions
      /\ \A m \in Missions : LimitOf[m] \in Nat
  <2>1. Cardinality(registered') \in Nat
    BY SchedulerAssumption, FS_Subset, FS_CardinalityType
  <2> QED BY <2>1, SchedulerAssumption
<1>a. /\ Turns(active') = active' \cap Turns(Owners) /\ Checks(active') = active' \cap Checks(Owners)
      /\ Workers(active') = active' \cap Workers(Owners)
      /\ \A m : /\ LeadsFor(m, active') = active' \cap LeadsFor(m, Owners)
                /\ WorkersFor(m, active') = active' \cap WorkersFor(m, Owners)
      /\ \A a : TurnsOn(a, active') = active' \cap TurnsOn(a, Owners)
  BY <1>2, KindsAreSets
<1>5. A \cap Turns(Owners) # {} => Cardinality(Turns(active')) <= capacity'.turns
  <2> SUFFICES ASSUME A \cap Turns(Owners) # {} PROVE Cardinality(Turns(active')) <= capacity'.turns
    OBVIOUS
  <2>1. PICK o \in A \cap Turns(Owners) :
          /\ S(o) \in SUBSET Owners
          /\ CanAdmit(o, S(o), capacity', registered', paused')
          /\ Cardinality(S(o) \cap Turns(Owners)) \in Nat /\ Cardinality(active' \cap Turns(Owners)) \in Nat
          /\ Cardinality(active' \cap Turns(Owners)) <= Cardinality(S(o) \cap Turns(Owners)) + 1
    BY <1>3
  <2>2. TurnFits(o, S(o), capacity')
    BY <2>1, SchedulerAssumption DEF CanAdmit, Turns, Kinds
  <2>3. Cardinality(S(o) \cap Turns(Owners)) < capacity'.turns
    BY <2>1, <2>2, KindsAreSets DEF TurnFits
  <2> QED BY <1>4, <1>a, <2>1, <2>3
<1>6. A \cap Checks(Owners) # {} => Cardinality(Checks(active')) <= capacity'.checks
  <2> SUFFICES ASSUME A \cap Checks(Owners) # {} PROVE Cardinality(Checks(active')) <= capacity'.checks
    OBVIOUS
  <2>1. PICK o \in A \cap Checks(Owners) :
          /\ S(o) \in SUBSET Owners
          /\ CanAdmit(o, S(o), capacity', registered', paused')
          /\ Cardinality(S(o) \cap Checks(Owners)) \in Nat /\ Cardinality(active' \cap Checks(Owners)) \in Nat
          /\ Cardinality(active' \cap Checks(Owners)) <= Cardinality(S(o) \cap Checks(Owners)) + 1
    BY <1>3
  <2>2. Cardinality(Checks(S(o))) < capacity'.checks
    BY <2>1 DEF CanAdmit, Checks
  <2>3. Cardinality(S(o) \cap Checks(Owners)) < capacity'.checks
    BY <2>1, <2>2, KindsAreSets
  <2> QED BY <1>4, <1>a, <2>1, <2>3
<1>7. ASSUME NEW p \in A \cap Turns(Owners)
      PROVE  Cardinality(TurnsOn(AccountOf[p], active')) <= capacity'.accounts[AccountOf[p]]
  <2> DEFINE a == AccountOf[p]
             K == TurnsOn(a, Owners)
  <2>0. A \cap K # {} /\ a \in Accounts
    BY <1>2, <1>4 DEF Turns, TurnsOn
  <2> HIDE DEF K
  <2>1. PICK o \in A \cap K :
          /\ S(o) \in SUBSET Owners
          /\ CanAdmit(o, S(o), capacity', registered', paused')
          /\ Cardinality(S(o) \cap K) \in Nat /\ Cardinality(active' \cap K) \in Nat
          /\ Cardinality(active' \cap K) <= Cardinality(S(o) \cap K) + 1
    BY <1>3, <2>0
  <2>2. TurnFits(o, S(o), capacity') /\ AccountOf[o] = a
    BY <2>1, SchedulerAssumption DEF CanAdmit, TurnsOn, Kinds, K
  <2>3. Cardinality(S(o) \cap K) < capacity'.accounts[a]
    <3>1. TurnsOn(a, S(o)) = S(o) \cap K
      BY <2>1, KindsAreSets DEF K
    <3> QED BY <2>2, <3>1 DEF TurnFits
  <2>4. TurnsOn(a, active') = active' \cap K
    BY <1>a DEF K
  <2> QED BY <1>4, <2>0, <2>1, <2>3, <2>4
<1>8. ASSUME NEW m \in Missions, A \cap LeadsFor(m, Owners) # {}
      PROVE  Cardinality(LeadsFor(m, active')) = 1
  <2> DEFINE K == LeadsFor(m, Owners)
  <2>1. PICK o \in A \cap K :
          /\ S(o) \in SUBSET Owners
          /\ CanAdmit(o, S(o), capacity', registered', paused')
          /\ active' \cap K \subseteq (S(o) \cap K) \cup {o}
    <3> HIDE DEF K
    <3>1. A \cap K # {}
      BY <1>8 DEF K
    <3> QED BY <1>3, <3>1
  <2>2. LeadsFor(m, S(o)) = {}
    BY <2>1 DEF CanAdmit, LeadsFor
  <2>3. LeadsFor(m, active') = {o}
    <3>1. S(o) \cap K = {}
      BY <2>1, <2>2, KindsAreSets
    <3>2. o \in active'
      BY <1>1
    <3>3. LeadsFor(m, active') = active' \cap K
      BY <1>a
    <3> HIDE DEF K
    <3> QED BY <2>1, <3>1, <3>2, <3>3
  <2> QED BY <2>3, FS_Singleton
<1>9. ASSUME NEW m \in Missions, A \cap WorkersFor(m, Owners) # {}
      PROVE  Cardinality(WorkersFor(m, active')) <= LimitOf[m]
  <2> DEFINE K == WorkersFor(m, Owners)
  <2>1. PICK o \in A \cap K :
          /\ S(o) \in SUBSET Owners
          /\ CanAdmit(o, S(o), capacity', registered', paused')
          /\ Cardinality(S(o) \cap K) \in Nat /\ Cardinality(active' \cap K) \in Nat
          /\ Cardinality(active' \cap K) <= Cardinality(S(o) \cap K) + 1
    BY <1>3, <1>9
  <2>2. Cardinality(WorkersFor(m, S(o))) < LimitOf[m]
    BY <2>1 DEF CanAdmit, WorkersFor, WorkerFits
  <2>3. WorkersFor(m, S(o)) = S(o) \cap K /\ WorkersFor(m, active') = active' \cap K
    BY <1>2, <2>1, KindsAreSets
  <2> HIDE DEF K
  <2> QED BY <1>4, <2>1, <2>2, <2>3
<1>10. A \cap Workers(Owners) # {} =>
         Cardinality(Workers(active')) + Cardinality(registered') <= capacity'.turns
  <2> SUFFICES ASSUME A \cap Workers(Owners) # {}
               PROVE  Cardinality(Workers(active')) + Cardinality(registered') <= capacity'.turns
    OBVIOUS
  <2> DEFINE K == Workers(Owners)
  <2>1. PICK o \in A \cap K :
          /\ S(o) \in SUBSET Owners
          /\ CanAdmit(o, S(o), capacity', registered', paused')
          /\ Cardinality(S(o) \cap K) \in Nat /\ Cardinality(active' \cap K) \in Nat
          /\ Cardinality(active' \cap K) <= Cardinality(S(o) \cap K) + 1
    BY <1>3
  <2>2. Cardinality(Workers(S(o))) + Cardinality(registered') < capacity'.turns
    BY <2>1 DEF CanAdmit, Workers, WorkerFits
  <2>3. Workers(S(o)) = S(o) \cap K /\ Workers(active') = active' \cap K
    BY <1>2, <2>1, KindsAreSets
  <2> HIDE DEF K
  <2> QED BY <1>4, <2>1, <2>2, <2>3
<1> QED BY <1>2, <1>5, <1>6, <1>7, <1>8, <1>9, <1>10 DEF Within

(* A walk leaves a line, and what it lets in is within the ceilings. *)
LEMMA WalkKeepsLine ==
  ASSUME NEW busy \in SUBSET Owners, NEW queue \in SUBSET (Owners \ busy),
         NEW line \in [Owners -> SUBSET queue], IsLine(queue, line),
         capacity' \in Capacities, registered' \in SUBSET Missions,
         Pump(busy, busy, queue, line), NEW was, busy \subseteq was
  PROVE  IsLine(waiting', ahead') /\ Within(active' \ was)
<1>1. PICK A \in SUBSET queue : waiting' = queue \ A /\ ahead' = Removed(line, A)
  BY DEF Pump
<1>2. line \in [Owners -> SUBSET Owners] /\ queue \in SUBSET Owners
  OBVIOUS
<1>3. IsLine(waiting', ahead')
  BY <1>1, <1>2, RemovedIsLine
<1>4. Within(active' \ busy)
  BY <1>2, WalkStaysWithin
<1>5. active' \ was \in SUBSET (active' \ busy)
  OBVIOUS
<1> QED BY <1>3, <1>4, <1>5, WithinFewer

LEMMA NobodyIsWithin == Within({})
BY DEF Within

LEMMA StepStaysWithin ==
  ASSUME LineInv, [Next]_vars
  PROVE  IsLine(waiting, ahead)' /\ Within(Admitted)
<1>0. /\ capacity \in Capacities /\ registered \in SUBSET Missions /\ paused \in SUBSET registered
      /\ active \in SUBSET Owners /\ waiting \in SUBSET (Owners \ active) /\ waiting \in SUBSET Owners
      /\ ahead \in [Owners -> SUBSET waiting] /\ ahead \in [Owners -> SUBSET Owners] /\ leased = active
      /\ MissionOf \in [Owners -> Missions] /\ IsLine(waiting, ahead)
  BY SchedulerAssumption DEF LineInv, SchedulerInv, TypeOK, LeaseHoldsItsSlot
<1> SUFFICES IsLine(waiting', ahead') /\ (Within(active' \ active) \/ Admitted = {})
  BY NobodyIsWithin, WithinFewer DEF Admitted
<1>1. CASE UNCHANGED vars
  BY <1>0, <1>1 DEF vars, Admitted
<1>2. ASSUME NEW cap \in Capacities, Configure(cap)
      PROVE  IsLine(waiting', ahead') /\ Within(active' \ active)
  BY <1>0, <1>2, WalkKeepsLine DEF Configure
<1>3. ASSUME NEW m \in Missions, Register(m)
      PROVE  IsLine(waiting', ahead') /\ Within(active' \ active)
  <2>1. Pump(active, active, waiting, ahead) /\ capacity' = capacity /\ registered' \in SUBSET Missions
    BY <1>0, <1>3 DEF Register
  <2> QED BY <1>0, <2>1, WalkKeepsLine
<1>4. ASSUME NEW m \in Missions, Pause(m)
      PROVE  IsLine(waiting', ahead') /\ Admitted = {}
  BY <1>0, <1>4, RemovedIsLine DEF Pause, Rejects, Admitted
<1>5. ASSUME NEW m \in Missions, Resume(m)
      PROVE  IsLine(waiting', ahead') /\ Within(active' \ active)
  BY <1>0, <1>5, WalkKeepsLine DEF Resume
<1>6. ASSUME NEW m \in Missions, UnregisterRefused(m)
      PROVE  IsLine(waiting', ahead') /\ Admitted = {}
  BY <1>4, <1>6 DEF UnregisterRefused
<1>7. ASSUME NEW m \in Missions, Unregister(m)
      PROVE  IsLine(waiting', ahead') /\ Within(active' \ active)
  <2> DEFINE gone == {o \in waiting : MissionOf[o] = m}
             line == Removed(ahead, gone)
  <2>1. line \in [Owners -> SUBSET (waiting \ gone)]
    BY <1>0 DEF Removed
  <2>2. IsLine(waiting \ gone, line)
    BY <1>0, RemovedIsLine
  <2>3. Pump(active, active, waiting \ gone, line) /\ capacity' = capacity /\ registered' \in SUBSET Missions
    BY <1>0, <1>7 DEF Unregister
  <2> HIDE DEF line, gone
  <2>4. waiting \ gone \in SUBSET (Owners \ active)
    BY <1>0
  <2> QED BY <1>0, <2>1, <2>2, <2>3, <2>4, WalkKeepsLine
<1>8. ASSUME NEW o \in Owners, RetainUnknownLead(o)
      PROVE  IsLine(waiting', ahead') /\ Admitted = {}
  <2>1. IsLine(waiting', ahead')
    BY <1>0, <1>8, RemovedIsLine DEF RetainUnknownLead, Rejects
  <2>2. active' \ active = {o} /\ o \notin waiting /\ MissionOf[o] \in paused'
    BY <1>0, <1>8 DEF RetainUnknownLead
  <2> QED BY <2>1, <2>2 DEF Admitted
<1>9. ASSUME NEW o \in Owners, Acquire(o)
      PROVE  IsLine(waiting', ahead') /\ Within(active' \ active)
  <2> DEFINE line == [ahead EXCEPT ![o] = waiting]
             queue == waiting \cup {o}
  <2>1. o \notin waiting /\ o \notin active
    BY <1>9 DEF Acquire
  <2>2. line \in [Owners -> SUBSET queue] /\ queue \in SUBSET (Owners \ active)
    BY <1>0, <2>1
  <2>3. IsLine(queue, line)
    BY <1>0, <2>1 DEF IsLine
  <2>4. Pump(active, active, queue, line) /\ capacity' = capacity /\ registered' = registered
    BY <1>0, <1>9 DEF Acquire
  <2> HIDE DEF line, queue
  <2> QED BY <1>0, <2>2, <2>3, <2>4, WalkKeepsLine
<1>10. ASSUME NEW o \in Owners, Abort(o)
       PROVE  IsLine(waiting', ahead') /\ Admitted = {}
  BY <1>0, <1>10, RemovedIsLine DEF Abort, Admitted
<1>11. ASSUME NEW o \in Owners, Release(o)
       PROVE  IsLine(waiting', ahead') /\ Within(active' \ active)
  <2>1. Pump(active \ {o}, active \ {o}, waiting, ahead) /\ capacity' = capacity /\ registered' = registered
    BY <1>0, <1>11 DEF Release
  <2>2. waiting \in SUBSET (Owners \ (active \ {o})) /\ active \ {o} \in SUBSET Owners
    BY <1>0
  <2> QED BY <1>0, <2>1, <2>2, WalkKeepsLine
<1>12. ASSUME NEW o \in Owners, ReleaseAgain(o)
       PROVE  IsLine(waiting', ahead') /\ Admitted = {}
  BY <1>0, <1>12 DEF ReleaseAgain, Admitted
<1> QED BY <1>1, <1>2, <1>3, <1>4, <1>5, <1>6, <1>7, <1>8, <1>9, <1>10, <1>11, <1>12 DEF Next

(* CeilingsHold: whatever one call lets in at once stays within the settings, the one lead and the  *)
(* worker limit of each Mission, and the slots kept back for leads.                                 *)
THEOREM SchedulerCeilingsHold == Spec => CeilingsHold
<1>1. Init => LineInv
  BY InitEstablishes DEF Init, LineInv, IsLine
<1>2. LineInv /\ [Next]_vars => LineInv'
  BY StepKeeps, StepStaysWithin DEF LineInv
<1>3. LineInv /\ [Next]_vars => [LetInWithinCeilings]_vars
  <2>1. Within(Admitted) => LetInWithinCeilings
    BY DEF Within, LetInWithinCeilings
  <2> QED BY <2>1, StepStaysWithin
<1> QED BY <1>1, <1>2, <1>3, PTL DEF Spec, CeilingsHold
=============================================================================
