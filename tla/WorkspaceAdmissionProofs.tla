---------------------- MODULE WorkspaceAdmissionProofs ----------------------
(***************************************************************************)
(* Leases are disjoint, and what is held is quiet, for any directories,    *)
(* sessions, operations and bounds.                                        *)
(*                                                                         *)
(* LeasesAreDisjoint needs nothing else.  QuietWhileHeld is about a lease  *)
(* whose inspection has passed, so the invariant follows the inspection:   *)
(* sessions it has read have no claim any more (ReadHaveNoClaim).  That a  *)
(* turn which may write cannot be there either follows from the claims,    *)
(* which are taken before anything can write (WritersAreClaimed).          *)
(***************************************************************************)
EXTENDS WorkspaceAdmission, TLAPS

NoDispatchUnderLease == \A h \in Holders : Leased(h) => ~Dispatching(RootOf[h])

Trusts(h) == lease[h] \in {"held", "reinspecting"}
HasRead(h, s) == Trusts(h) \/ (lease[h] = "inspecting" /\ s \notin todo[h])

ReadHaveNoClaim ==
  \A h \in Holders, s \in Tracked : HasRead(h, s) /\ Overlap(RootOf[h], CwdOf[s]) => s \notin claim

NoShellUnderLease ==
  \A h \in Holders : Trusts(h) => \A s \in shells : ~Overlap(RootOf[h], CwdOf[s])

(* A runtime that could write: it is up, or its start has been let in. *)
Started(s) == runtime[s] = "up" \/ (runtime[s] = "starting" /\ call[<<s, "start">>] = "running")

WritersAreClaimed ==
  \A s \in Tracked : s \in reach \/ (mode[s] = "write" /\ Started(s)) => s \in claim

(* A session has one start at a time, and is not up before it ends. *)
StartsEndFirst == \A s \in Sessions : runtime[s] = "up" => call[<<s, "start">>] = "idle"

(* Only a runtime that reports its writers is widened by a dispatch. *)
WidenedAreTracked == \A c \in Calls : c[2] = "widen" /\ call[c] # "idle" => c[1] \in Tracked

CallsInOrder == StartsEndFirst /\ WidenedAreTracked

SessionsInv == TypeOK /\ WritersAreClaimed /\ CallsInOrder
LeasesInv == LeasesAreDisjoint /\ NoDispatchUnderLease /\ ReadHaveNoClaim /\ NoShellUnderLease
AdmissionInv == SessionsInv /\ LeasesInv
-----------------------------------------------------------------------------
LEMMA OverlapIsSymmetric == \A a, b : Overlap(a, b) <=> Overlap(b, a)
BY DEF Overlap

(* A call of dispatch() is a session and a kind. *)
LEMMA CallHasParts ==
  ASSUME NEW c \in Calls
  PROVE  /\ c[1] \in Sessions /\ c[2] \in {"start", "send", "widen"}
         /\ c = <<c[1], c[2]>>
         /\ \A s \in Sessions : (c[2] = "start" /\ c[1] = s) <=> c = <<s, "start">>
BY DEF Calls, Kinds

LEMMA StartIsACall == \A s \in Sessions : <<s, "start">> \in Calls
BY DEF Calls, Kinds

LEMMA InitEstablishes == Init => AdmissionInv
<1> SUFFICES ASSUME Init PROVE AdmissionInv
  OBVIOUS
<1>1. TypeOK
  BY AdmissionAssumption DEF Init, TypeOK
<1>2. WritersAreClaimed /\ CallsInOrder
  BY AdmissionAssumption DEF Init, CallsInOrder, WidenedAreTracked, WritersAreClaimed, StartsEndFirst, Started
<1>3. LeasesInv
  BY DEF Init, LeasesInv, LeasesAreDisjoint, NoDispatchUnderLease, ReadHaveNoClaim, NoShellUnderLease,
         Leased, Trusts, HasRead
<1> QED BY <1>1, <1>2, <1>3 DEF AdmissionInv, SessionsInv

-----------------------------------------------------------------------------
(* What keeps the leases' part: a step that is not theirs lets no dispatch in, *)
(* takes no claim and opens no shell below one of them.                        *)

LEMMA OthersKeepLeases ==
  ASSUME LeasesInv, TypeOK, UNCHANGED <<lease, todo>>,
         \A c \in Calls : call'[c] = "running" => call[c] = "running" \/ ~Held(CwdOf[c[1]]),
         \A s \in Tracked : s \in claim' => s \in claim \/ ~Held(CwdOf[s]),
         \A s \in shells' : s \in shells \/ ~Held(CwdOf[s])
  PROVE  LeasesInv'
<1>1. LeasesAreDisjoint'
  BY DEF LeasesInv, LeasesAreDisjoint, Leased
<1>2. \A p : \A h \in Holders : Leased(h) /\ Overlap(RootOf[h], p) => Held(p)
  BY DEF Held, HeldBy
<1>3. NoDispatchUnderLease'
  <2> SUFFICES ASSUME NEW h \in Holders, Leased(h), NEW c \in Calls,
                      call'[c] = "running", Overlap(CwdOf[c[1]], RootOf[h])
               PROVE  FALSE
    BY DEF NoDispatchUnderLease, Dispatching, Leased
  <2>1. ~Dispatching(RootOf[h])
    BY DEF LeasesInv, NoDispatchUnderLease
  <2>2. Held(CwdOf[c[1]])
    BY <1>2, OverlapIsSymmetric
  <2> QED BY <2>1, <2>2 DEF Dispatching
<1>4. ReadHaveNoClaim'
  <2>1. \A h \in Holders, s \in Tracked :
          HasRead(h, s) /\ Overlap(RootOf[h], CwdOf[s]) => s \notin claim /\ Held(CwdOf[s])
    BY <1>2 DEF LeasesInv, ReadHaveNoClaim, HasRead, Trusts, Leased
  <2> QED BY <2>1 DEF ReadHaveNoClaim, HasRead, Trusts
<1>5. NoShellUnderLease'
  <2>1. \A h \in Holders, s \in shells : Trusts(h) => ~Overlap(RootOf[h], CwdOf[s])
    BY DEF LeasesInv, NoShellUnderLease
  <2>2. \A s : \A h \in Holders : Trusts(h) /\ Overlap(RootOf[h], CwdOf[s]) => Held(CwdOf[s])
    BY <1>2 DEF Trusts, Leased
  <2> QED BY <2>1, <2>2 DEF NoShellUnderLease, Trusts
<1> QED BY <1>1, <1>3, <1>4, <1>5 DEF LeasesInv

(* What keeps the sessions' part: the actions of leases move calls only from waiting to waiting. *)
LEMMA LeasesKeepSessions ==
  ASSUME SessionsInv, UNCHANGED sessionVars, UNCHANGED <<shells, calls>>, UNCHANGED call \/ Wakes,
         closed' \in BOOLEAN, leases' \in Nat,
         lease' \in [Holders -> {"idle", "resolving", "inspecting", "held", "reinspecting"}],
         todo' \in [Holders -> SUBSET Sessions]
  PROVE  SessionsInv' /\ \A c \in Calls : call'[c] = "running" <=> call[c] = "running"
<1>1. /\ call' \in [Calls -> {"idle", "resolving", "parked", "rechecking", "running"}]
      /\ \A c \in Calls : call'[c] = "running" <=> call[c] = "running"
      /\ \A c \in Calls : call'[c] = "idle" <=> call[c] = "idle"
  BY DEF SessionsInv, TypeOK, Wakes
<1>2. TypeOK'
  BY <1>1 DEF SessionsInv, TypeOK, sessionVars
<1>3. WritersAreClaimed'
  BY <1>1, StartIsACall, AdmissionAssumption DEF SessionsInv, WritersAreClaimed, Started, sessionVars
<1>4. CallsInOrder'
  BY <1>1, StartIsACall DEF SessionsInv, CallsInOrder, StartsEndFirst, WidenedAreTracked, sessionVars
<1> QED BY <1>1, <1>2, <1>3, <1>4 DEF SessionsInv

-----------------------------------------------------------------------------
(* dispatch(). *)

LEMMA DispatchKeeps ==
  ASSUME AdmissionInv, NEW c \in Calls, Dispatch(c)
  PROVE  AdmissionInv'
<1> USE AdmissionAssumption, CallHasParts, StartIsACall
<1> DEFINE s == c[1]
<1>0. /\ call' = [call EXCEPT ![c] = "resolving"] /\ call[c] = "idle"
      /\ UNCHANGED <<closed, lease, todo, leases, turn, mode, claim, shells, reach>>
      /\ c[2] = "widen" => s \in Tracked
      /\ \/ c[2] = "start" /\ runtime[s] = "none" /\ runtime' = [runtime EXCEPT ![s] = "starting"]
         \/ c[2] # "start" /\ UNCHANGED runtime
  <2>1. c[2] = "start" \/ c[2] = "send" \/ c[2] = "widen"
    OBVIOUS
  <2> QED BY <2>1 DEF Dispatch, Moves, leaseVars
<1>1. calls' \in Nat
  BY DEF AdmissionInv, SessionsInv, TypeOK, Dispatch
<1>2. TypeOK'
  BY <1>0, <1>1 DEF AdmissionInv, SessionsInv, TypeOK
<1>3. WritersAreClaimed'
  BY <1>0, <1>1 DEF AdmissionInv, SessionsInv, TypeOK, WritersAreClaimed, Started
<1>4. CallsInOrder'
  BY <1>0, <1>1 DEF AdmissionInv, SessionsInv, TypeOK, CallsInOrder, StartsEndFirst, WidenedAreTracked
<1>5. LeasesInv'
  BY <1>0, OthersKeepLeases DEF AdmissionInv, SessionsInv, TypeOK
<1> QED BY <1>2, <1>3, <1>4, <1>5 DEF AdmissionInv, SessionsInv

(* A call that is turned away, from either of its two looks. *)
LEMMA RefusedKeeps ==
  ASSUME AdmissionInv, NEW c \in Calls, call[c] # "idle", Refused(c),
         UNCHANGED <<closed, leaseVars, shells, calls>>
  PROVE  AdmissionInv'
<1> USE AdmissionAssumption, CallHasParts, StartIsACall
<1> DEFINE s == c[1]
<1>1. /\ call' = [call EXCEPT ![c] = "idle"]
      /\ UNCHANGED <<closed, lease, todo, leases, turn, mode, reach, shells, calls>>
      /\ \/ /\ c[2] = "start" /\ runtime' = [runtime EXCEPT ![s] = "none"] /\ claim' = claim \ {s}
            /\ runtime[s] # "up"
         \/ c[2] # "start" /\ UNCHANGED <<runtime, claim>>
  BY DEF AdmissionInv, SessionsInv, CallsInOrder, StartsEndFirst, WidenedAreTracked, Refused, Moves, leaseVars
<1>2. TypeOK'
  BY <1>1 DEF AdmissionInv, SessionsInv, TypeOK
<1>3. WritersAreClaimed'
  BY <1>1 DEF AdmissionInv, SessionsInv, TypeOK, WritersAreClaimed, Started
<1>4. CallsInOrder'
  BY <1>1 DEF AdmissionInv, SessionsInv, TypeOK, CallsInOrder, StartsEndFirst, WidenedAreTracked
<1>5. LeasesInv'
  BY <1>1, OthersKeepLeases DEF AdmissionInv, SessionsInv, TypeOK
<1> QED BY <1>2, <1>3, <1>4, <1>5 DEF AdmissionInv, SessionsInv

(* A call that goes on waiting, or stops waiting to look again. *)
LEMMA StillWaitingKeeps ==
  ASSUME AdmissionInv, NEW c \in Calls, call[c] \notin {"idle", "running"},
         NEW to \in {"parked", "resolving", "rechecking"}, Moves(c, to),
         UNCHANGED <<closed, leaseVars, sessionVars, shells, calls>>
  PROVE  AdmissionInv'
<1> USE AdmissionAssumption, CallHasParts, StartIsACall
<1>1. /\ call' = [call EXCEPT ![c] = to]
      /\ UNCHANGED <<closed, lease, todo, leases, runtime, claim, turn, mode, reach, shells, calls>>
  BY DEF Moves, leaseVars, sessionVars
<1>2. TypeOK'
  BY <1>1 DEF AdmissionInv, SessionsInv, TypeOK
<1>3. WritersAreClaimed'
  BY <1>1 DEF AdmissionInv, SessionsInv, TypeOK, WritersAreClaimed, Started
<1>4. CallsInOrder'
  BY <1>1 DEF AdmissionInv, SessionsInv, TypeOK, CallsInOrder, StartsEndFirst, WidenedAreTracked
<1>5. LeasesInv'
  BY <1>1, OthersKeepLeases DEF AdmissionInv, SessionsInv, TypeOK
<1> QED BY <1>2, <1>3, <1>4, <1>5 DEF AdmissionInv, SessionsInv

LEMMA WaitsKeeps ==
  ASSUME AdmissionInv, NEW c \in Calls, Waits(c)
  PROVE  AdmissionInv'
<1>1. CASE Refused(c)
  BY <1>1, RefusedKeeps DEF Waits
<1>2. CASE Moves(c, "parked") /\ UNCHANGED sessionVars
  BY <1>2, StillWaitingKeeps DEF Waits
<1>3. CASE Moves(c, "rechecking") /\ UNCHANGED sessionVars
  BY <1>3, StillWaitingKeeps DEF Waits
<1> QED BY <1>1, <1>2, <1>3 DEF Waits

(* A call is let in: no lease is in its way at that moment. *)
LEMMA RunsKeeps ==
  ASSUME AdmissionInv, NEW c \in Calls, call[c] = "rechecking", ~Held(CwdOf[c[1]]), Runs(c),
         UNCHANGED <<closed, leaseVars, shells, calls>>
  PROVE  AdmissionInv'
<1> USE AdmissionAssumption, CallHasParts, StartIsACall
<1> DEFINE s == c[1]
<1>1. UNCHANGED <<closed, lease, todo, leases, shells, calls, runtime>> /\ s \in Sessions
  BY DEF Runs, leaseVars
<1>2. CASE runtime[s] = "none" \/ (c[2] = "send" /\ runtime[s] # "up")
  <2>1. call' = [call EXCEPT ![c] = "idle"] /\ UNCHANGED <<turn, mode, claim, reach>>
    BY <1>2 DEF Runs, Moves
  <2>2. TypeOK'
    BY <1>1, <2>1 DEF AdmissionInv, SessionsInv, TypeOK
  <2>3. WritersAreClaimed' /\ CallsInOrder'
    BY <1>1, <2>1 DEF AdmissionInv, SessionsInv, TypeOK, WritersAreClaimed, CallsInOrder, StartsEndFirst, WidenedAreTracked, Started
  <2>4. LeasesInv'
    BY <1>1, <2>1, OthersKeepLeases DEF AdmissionInv, SessionsInv, TypeOK
  <2> QED BY <2>2, <2>3, <2>4 DEF AdmissionInv, SessionsInv
<1>3. CASE ~(runtime[s] = "none" \/ (c[2] = "send" /\ runtime[s] # "up"))
  <2>1. call' = [call EXCEPT ![c] = "running"] /\ runtime[s] # "none"
    BY <1>3 DEF Runs, Moves
  <2>2. \/ c[2] = "start" /\ Starts(s)
        \/ c[2] = "send" /\ runtime[s] = "up" /\ Sends(s)
        \/ c[2] = "widen" /\ Widens(s)
    BY <1>3 DEF Runs
  <2>3. ~(\E x \in Tracked : x \in claim' /\ x \notin claim /\ x # s)
    BY <2>2 DEF Starts, Sends, Widens
  <2>4. LeasesInv'
    BY <1>1, <2>1, <2>3, OthersKeepLeases DEF AdmissionInv, SessionsInv, TypeOK
  <2>5. CASE c[2] = "start" /\ Starts(s)
    <3>1. TypeOK'
      BY <1>1, <2>1, <2>5 DEF AdmissionInv, SessionsInv, TypeOK, Starts
    <3>2. WritersAreClaimed'
      BY <1>1, <2>1, <2>5 DEF AdmissionInv, SessionsInv, TypeOK, WritersAreClaimed, Starts, Started
    <3>3. CallsInOrder'
      BY <1>1, <2>1, <2>5 DEF AdmissionInv, SessionsInv, TypeOK, CallsInOrder, StartsEndFirst, WidenedAreTracked
    <3> QED BY <2>4, <3>1, <3>2, <3>3 DEF AdmissionInv, SessionsInv
  <2>6. CASE c[2] = "send" /\ runtime[s] = "up" /\ Sends(s)
    <3>1. TypeOK'
      BY <1>1, <2>1, <2>6 DEF AdmissionInv, SessionsInv, TypeOK, Sends
    <3>2. WritersAreClaimed'
      BY <1>1, <2>1, <2>6 DEF AdmissionInv, SessionsInv, TypeOK, WritersAreClaimed, Sends, Started
    <3>3. CallsInOrder'
      BY <1>1, <2>1, <2>6 DEF AdmissionInv, SessionsInv, TypeOK, CallsInOrder, StartsEndFirst, WidenedAreTracked
    <3> QED BY <2>4, <3>1, <3>2, <3>3 DEF AdmissionInv, SessionsInv
  <2>7. CASE c[2] = "widen" /\ Widens(s)
    <3>1. TypeOK'
      BY <1>1, <2>1, <2>7 DEF AdmissionInv, SessionsInv, TypeOK, Widens, CallsInOrder, WidenedAreTracked
    <3>2. WritersAreClaimed'
      BY <1>1, <2>1, <2>7 DEF AdmissionInv, SessionsInv, TypeOK, WritersAreClaimed, Widens, Started
    <3>3. CallsInOrder'
      BY <1>1, <2>1, <2>7 DEF AdmissionInv, SessionsInv, TypeOK, CallsInOrder, StartsEndFirst, WidenedAreTracked
    <3> QED BY <2>4, <3>1, <3>2, <3>3 DEF AdmissionInv, SessionsInv
  <2> QED BY <2>2, <2>5, <2>6, <2>7
<1> QED BY <1>2, <1>3

LEMMA AdmitsKeeps ==
  ASSUME AdmissionInv, NEW c \in Calls, Admits(c)
  PROVE  AdmissionInv'
<1>1. CASE Refused(c)
  BY <1>1, RefusedKeeps DEF Admits
<1>2. CASE Moves(c, "resolving") /\ UNCHANGED sessionVars
  BY <1>2, StillWaitingKeeps DEF Admits
<1>3. CASE ~Held(CwdOf[c[1]]) /\ Runs(c)
  BY <1>3, RunsKeeps DEF Admits
<1> QED BY <1>1, <1>2, <1>3 DEF Admits

LEMMA FinishesKeeps ==
  ASSUME AdmissionInv, NEW c \in Calls, Finishes(c)
  PROVE  AdmissionInv'
<1> USE AdmissionAssumption, CallHasParts, StartIsACall
<1> DEFINE s == c[1]
<1>1. /\ call[c] = "running" /\ call' = [call EXCEPT ![c] = "idle"]
      /\ UNCHANGED <<closed, lease, todo, leases, turn, mode, reach, shells, calls>>
  BY DEF Finishes, Moves, leaseVars
<1>2. \/ /\ c[2] = "start" /\ runtime[s] = "starting"
         /\ runtime' = [runtime EXCEPT ![s] = "up"] /\ UNCHANGED claim
      \/ /\ c[2] = "start" /\ runtime[s] = "starting"
         /\ runtime' = [runtime EXCEPT ![s] = "none"] /\ claim' = claim \ {s}
      \/ /\ c[2] # "start" \/ runtime[s] # "starting"
         /\ UNCHANGED <<runtime, claim>>
  BY DEF Finishes
<1>3. TypeOK'
  BY <1>1, <1>2 DEF AdmissionInv, SessionsInv, TypeOK
<1>4. WritersAreClaimed'
  BY <1>1, <1>2 DEF AdmissionInv, SessionsInv, TypeOK, WritersAreClaimed, Started
<1>5. CallsInOrder'
  BY <1>1, <1>2 DEF AdmissionInv, SessionsInv, TypeOK, CallsInOrder, StartsEndFirst, WidenedAreTracked
<1>6. LeasesInv'
  BY <1>1, <1>2, OthersKeepLeases DEF AdmissionInv, SessionsInv, TypeOK
<1> QED BY <1>3, <1>4, <1>5, <1>6 DEF AdmissionInv, SessionsInv

-----------------------------------------------------------------------------
(* Sessions and shells. *)

LEMMA SessionStepKeeps ==
  ASSUME AdmissionInv, NEW s \in Sessions, SessionStep(s)
  PROVE  AdmissionInv'
<1> USE AdmissionAssumption, StartIsACall
<1>1. UNCHANGED <<closed, call, lease, todo, leases, calls>>
  BY DEF SessionStep, TurnEnds, FollowUp, Narrow, WidenNow, Stop, OpenShell, CloseShell, leaseVars
<1>2. claim' \subseteq claim /\ \A x \in shells' : x \in shells \/ ~Held(CwdOf[x])
  BY DEF SessionStep, TurnEnds, FollowUp, Narrow, WidenNow, Stop, OpenShell, CloseShell, Sends, sessionVars
<1>3. LeasesInv'
  BY <1>1, <1>2, OthersKeepLeases DEF AdmissionInv, SessionsInv
<1>4. CallsInOrder'
  <2>1. \A x \in Sessions : runtime'[x] = "up" => runtime[x] = "up"
    BY DEF SessionStep, TurnEnds, FollowUp, Narrow, WidenNow, Stop, OpenShell, CloseShell, sessionVars,
           AdmissionInv, SessionsInv, TypeOK
  <2> QED BY <1>1, <2>1 DEF AdmissionInv, SessionsInv, CallsInOrder, StartsEndFirst, WidenedAreTracked
<1>5. CASE TurnEnds(s)
  <2>1. TypeOK'
    BY <1>5 DEF TurnEnds, leaseVars, AdmissionInv, SessionsInv, TypeOK
  <2>2. WritersAreClaimed'
    BY <1>5 DEF TurnEnds, AdmissionInv, SessionsInv, WritersAreClaimed, Started
  <2> QED BY <1>3, <1>4, <2>1, <2>2 DEF AdmissionInv, SessionsInv
<1>6. CASE FollowUp(s)
  <2>1. TypeOK'
    BY <1>6 DEF FollowUp, Sends, leaseVars, AdmissionInv, SessionsInv, TypeOK
  <2>2. WritersAreClaimed'
    BY <1>6 DEF FollowUp, Sends, AdmissionInv, SessionsInv, WritersAreClaimed, Started
  <2> QED BY <1>3, <1>4, <2>1, <2>2 DEF AdmissionInv, SessionsInv
<1>7. CASE Narrow(s)
  <2>1. TypeOK'
    BY <1>7 DEF Narrow, leaseVars, AdmissionInv, SessionsInv, TypeOK
  <2>2. WritersAreClaimed'
    BY <1>7 DEF Narrow, AdmissionInv, SessionsInv, TypeOK, WritersAreClaimed, Started
  <2> QED BY <1>3, <1>4, <2>1, <2>2 DEF AdmissionInv, SessionsInv
<1>8. CASE WidenNow(s)
  <2>1. TypeOK'
    BY <1>8 DEF WidenNow, leaseVars, AdmissionInv, SessionsInv, TypeOK
  <2>2. WritersAreClaimed'
    BY <1>8 DEF WidenNow, AdmissionInv, SessionsInv, TypeOK, WritersAreClaimed, Started
  <2> QED BY <1>3, <1>4, <2>1, <2>2 DEF AdmissionInv, SessionsInv
<1>9. CASE Stop(s)
  <2>1. TypeOK'
    BY <1>9 DEF Stop, leaseVars, AdmissionInv, SessionsInv, TypeOK
  <2>2. WritersAreClaimed'
    BY <1>9 DEF Stop, AdmissionInv, SessionsInv, TypeOK, WritersAreClaimed, Started
  <2> QED BY <1>3, <1>4, <2>1, <2>2 DEF AdmissionInv, SessionsInv
<1>10. CASE OpenShell(s) \/ CloseShell(s)
  <2>1. TypeOK'
    BY <1>10 DEF OpenShell, CloseShell, leaseVars, sessionVars, AdmissionInv, SessionsInv, TypeOK
  <2>2. WritersAreClaimed'
    BY <1>10 DEF OpenShell, CloseShell, sessionVars, AdmissionInv, SessionsInv, WritersAreClaimed, Started
  <2> QED BY <1>3, <1>4, <2>1, <2>2 DEF AdmissionInv, SessionsInv
<1> QED BY <1>5, <1>6, <1>7, <1>8, <1>9, <1>10 DEF SessionStep

-----------------------------------------------------------------------------
(* Leases. *)

(* An operation that lets go, or comes to where it trusts nothing yet, keeps what the others have. *)
LEMMA LettingGoKeeps ==
  ASSUME AdmissionInv, NEW h \in Holders, NEW to \in {"idle", "resolving"}, LeaseMoves(h, to, {}),
         UNCHANGED <<closed, sessionVars, shells, calls>>, UNCHANGED call \/ Wakes, leases' \in Nat
  PROVE  AdmissionInv'
<1>1. /\ lease' = [lease EXCEPT ![h] = to] /\ todo' = [todo EXCEPT ![h] = {}]
      /\ UNCHANGED <<claim, shells>>
  BY DEF LeaseMoves, sessionVars
<1>2. /\ lease' \in [Holders -> {"idle", "resolving", "inspecting", "held", "reinspecting"}]
      /\ todo' \in [Holders -> SUBSET Sessions] /\ closed' \in BOOLEAN
  BY <1>1 DEF AdmissionInv, SessionsInv, TypeOK
<1>3. SessionsInv' /\ \A c \in Calls : call'[c] = "running" <=> call[c] = "running"
  BY <1>2, LeasesKeepSessions DEF AdmissionInv
<1>4. \A g \in Holders : /\ Leased(g)' => Leased(g) /\ g # h
                         /\ g # h => lease'[g] = lease[g] /\ todo'[g] = todo[g]
  BY <1>1 DEF AdmissionInv, SessionsInv, TypeOK, Leased
<1>5. \A g \in Holders : /\ Trusts(g)' => Trusts(g)
                         /\ \A s \in Tracked : HasRead(g, s)' => HasRead(g, s)
  BY <1>1 DEF AdmissionInv, SessionsInv, TypeOK, Trusts, HasRead
<1>6. LeasesAreDisjoint'
  BY <1>4 DEF AdmissionInv, LeasesInv, LeasesAreDisjoint
<1>7. NoDispatchUnderLease'
  BY <1>3, <1>4 DEF AdmissionInv, LeasesInv, NoDispatchUnderLease, Dispatching
<1>8. ReadHaveNoClaim' /\ NoShellUnderLease'
  BY <1>1, <1>5 DEF AdmissionInv, LeasesInv, ReadHaveNoClaim, NoShellUnderLease
<1> QED BY <1>3, <1>6, <1>7, <1>8 DEF AdmissionInv, LeasesInv

(* An operation that goes on with its lease, having read what it trusts. *)
LEMMA GoingOnKeeps ==
  ASSUME AdmissionInv, NEW h \in Holders, Leased(h), NEW to \in {"inspecting", "held", "reinspecting"},
         NEW rest \in SUBSET Sessions, LeaseMoves(h, to, rest),
         UNCHANGED <<closed, call, sessionVars, shells, calls, leases>>,
         \A s \in Tracked : HasRead(h, s)' /\ Overlap(RootOf[h], CwdOf[s]) => s \notin claim,
         Trusts(h)' => \A s \in shells : ~Overlap(RootOf[h], CwdOf[s])
  PROVE  AdmissionInv'
<1>1. /\ lease' = [lease EXCEPT ![h] = to] /\ todo' = [todo EXCEPT ![h] = rest]
      /\ UNCHANGED <<call, claim, shells>>
  BY DEF LeaseMoves, sessionVars
<1>2. SessionsInv'
  <2>1. /\ lease' \in [Holders -> {"idle", "resolving", "inspecting", "held", "reinspecting"}]
        /\ todo' \in [Holders -> SUBSET Sessions] /\ closed' \in BOOLEAN /\ leases' \in Nat
    BY <1>1 DEF AdmissionInv, SessionsInv, TypeOK
  <2> QED BY <2>1, LeasesKeepSessions DEF AdmissionInv
<1>3. \A g \in Holders : /\ Leased(g)' <=> Leased(g)
                         /\ g # h => (Trusts(g)' <=> Trusts(g))
                         /\ g # h => \A s \in Tracked : HasRead(g, s)' <=> HasRead(g, s)
  BY <1>1 DEF AdmissionInv, SessionsInv, TypeOK, Leased, Trusts, HasRead
<1>4. LeasesAreDisjoint' /\ NoDispatchUnderLease'
  BY <1>1, <1>3 DEF AdmissionInv, LeasesInv, LeasesAreDisjoint, NoDispatchUnderLease, Dispatching
<1>5. ReadHaveNoClaim'
  BY <1>1, <1>3 DEF AdmissionInv, LeasesInv, ReadHaveNoClaim
<1>6. NoShellUnderLease'
  BY <1>1, <1>3 DEF AdmissionInv, LeasesInv, NoShellUnderLease
<1> QED BY <1>2, <1>4, <1>5, <1>6 DEF AdmissionInv, LeasesInv

LEMMA ReservesKeeps ==
  ASSUME AdmissionInv, NEW h \in Holders, Reserves(h)
  PROVE  AdmissionInv'
<1>1. CASE LeaseMoves(h, "idle", {})
  BY <1>1, LettingGoKeeps DEF Reserves, AdmissionInv, SessionsInv, TypeOK
<1>2. CASE ~Held(RootOf[h]) /\ ~Dispatching(RootOf[h]) /\ LeaseMoves(h, "inspecting", Sessions)
  <2>1. /\ lease' = [lease EXCEPT ![h] = "inspecting"] /\ todo' = [todo EXCEPT ![h] = Sessions]
        /\ UNCHANGED <<closed, call, leases, claim, shells>>
    BY <1>2 DEF LeaseMoves, sessionVars, Reserves
  <2>2. SessionsInv'
    <3>1. /\ lease' \in [Holders -> {"idle", "resolving", "inspecting", "held", "reinspecting"}]
          /\ todo' \in [Holders -> SUBSET Sessions] /\ closed' \in BOOLEAN /\ leases' \in Nat
      BY <2>1 DEF AdmissionInv, SessionsInv, TypeOK
    <3> QED BY <3>1, LeasesKeepSessions DEF AdmissionInv, Reserves
  <2>3. \A g \in Holders : /\ g # h => (Leased(g)' <=> Leased(g))
                           /\ Trusts(g)' => Trusts(g)
                           /\ \A s \in Tracked : HasRead(g, s)' => HasRead(g, s)
    BY <2>1, AdmissionAssumption DEF AdmissionInv, SessionsInv, TypeOK, Leased, Trusts, HasRead
  <2>4. \A g \in Holders : Leased(g) => ~Overlap(RootOf[g], RootOf[h]) /\ ~Overlap(RootOf[h], RootOf[g])
    BY <1>2, OverlapIsSymmetric DEF Held, HeldBy
  <2>5. LeasesAreDisjoint'
    BY <2>3, <2>4 DEF AdmissionInv, LeasesInv, LeasesAreDisjoint
  <2>6. NoDispatchUnderLease'
    BY <1>2, <2>1, <2>3 DEF AdmissionInv, LeasesInv, NoDispatchUnderLease, Dispatching
  <2>7. ReadHaveNoClaim' /\ NoShellUnderLease'
    BY <2>1, <2>3 DEF AdmissionInv, LeasesInv, ReadHaveNoClaim, NoShellUnderLease
  <2> QED BY <2>2, <2>5, <2>6, <2>7 DEF AdmissionInv, LeasesInv
<1> QED BY <1>1, <1>2 DEF Reserves

(* A session the inspection lets pass has no claim, whatever its mode says. *)
LEMMA InspectKeeps ==
  ASSUME AdmissionInv, NEW h \in Holders, NEW s \in Sessions, Inspect(h, s)
  PROVE  AdmissionInv'
<1>1. CASE Releases(h)
  BY <1>1, LettingGoKeeps DEF Inspect, Releases, AdmissionInv, SessionsInv, TypeOK
<1>2. CASE ~Blocks(s, h) /\ LeaseMoves(h, lease[h], todo[h] \ {s}) /\ UNCHANGED call
  <2>1. lease[h] \in {"inspecting", "reinspecting"} /\ Leased(h) /\ todo[h] \ {s} \in SUBSET Sessions
    BY DEF Inspect, Inspecting, Leased, AdmissionInv, SessionsInv, TypeOK
  <2>2. \A x \in Tracked : HasRead(h, x)' => HasRead(h, x) \/ x = s
    BY <1>2 DEF LeaseMoves, HasRead, Trusts, AdmissionInv, SessionsInv, TypeOK
  <2>3. Overlap(RootOf[h], CwdOf[s]) => s \notin claim
    BY <1>2 DEF Blocks, Writer, Exempt
  <2>4. \A x \in Tracked : HasRead(h, x)' /\ Overlap(RootOf[h], CwdOf[x]) => x \notin claim
    BY <2>2, <2>3 DEF AdmissionInv, LeasesInv, ReadHaveNoClaim
  <2>5. Trusts(h)' => \A x \in shells : ~Overlap(RootOf[h], CwdOf[x])
    BY <1>2 DEF LeaseMoves, Trusts, AdmissionInv, LeasesInv, NoShellUnderLease, SessionsInv, TypeOK
  <2> QED BY <1>2, <2>1, <2>4, <2>5, GoingOnKeeps DEF Inspect
<1> QED BY <1>1, <1>2 DEF Inspect

LEMMA ConcludesKeeps ==
  ASSUME AdmissionInv, NEW h \in Holders, Concludes(h)
  PROVE  AdmissionInv'
<1>1. CASE Releases(h)
  BY <1>1, LettingGoKeeps DEF Concludes, Releases, AdmissionInv, SessionsInv, TypeOK
<1>2. CASE /\ \A s \in shells : ~Overlap(RootOf[h], CwdOf[s])
           /\ LeaseMoves(h, "held", {}) /\ UNCHANGED call
  <2>1. Leased(h) /\ \A s \in Tracked : HasRead(h, s)
    BY DEF Concludes, Inspecting, Leased, HasRead, Trusts
  <2>2. \A s \in Tracked : Overlap(RootOf[h], CwdOf[s]) => s \notin claim
    BY <2>1 DEF AdmissionInv, LeasesInv, ReadHaveNoClaim
  <2> QED BY <1>2, <2>1, <2>2, GoingOnKeeps DEF Concludes
<1> QED BY <1>1, <1>2 DEF Concludes

LEMMA ReassertKeeps ==
  ASSUME AdmissionInv, NEW h \in Holders, Reassert(h)
  PROVE  AdmissionInv'
<1>1. CASE Releases(h)
  BY <1>1, LettingGoKeeps DEF Reassert, Releases, AdmissionInv, SessionsInv, TypeOK
<1>2. CASE LeaseMoves(h, "reinspecting", Sessions) /\ UNCHANGED call
  <2>1. Leased(h) /\ Trusts(h) /\ \A s \in Tracked : HasRead(h, s)
    BY DEF Reassert, Leased, HasRead, Trusts
  <2>2. \A s \in Tracked : Overlap(RootOf[h], CwdOf[s]) => s \notin claim
    BY <2>1 DEF AdmissionInv, LeasesInv, ReadHaveNoClaim
  <2>3. \A s \in shells : ~Overlap(RootOf[h], CwdOf[s])
    BY <2>1 DEF AdmissionInv, LeasesInv, NoShellUnderLease
  <2> QED BY <1>2, <2>1, <2>2, <2>3, GoingOnKeeps DEF Reassert
<1> QED BY <1>1, <1>2 DEF Reassert

LEMMA AcquireKeeps ==
  ASSUME AdmissionInv, NEW h \in Holders, Acquire(h)
  PROVE  AdmissionInv'
<1>1. leases' \in Nat
  BY DEF Acquire, AdmissionInv, SessionsInv, TypeOK
<1> QED BY <1>1, LettingGoKeeps DEF Acquire

LEMMA ReleaseKeeps ==
  ASSUME AdmissionInv, NEW h \in Holders, Release(h)
  PROVE  AdmissionInv'
BY LettingGoKeeps DEF Release, Releases, AdmissionInv, SessionsInv, TypeOK

LEMMA CloseKeeps ==
  ASSUME AdmissionInv, Close
  PROVE  AdmissionInv'
<1>1. SessionsInv' /\ \A c \in Calls : call'[c] = "running" <=> call[c] = "running"
  BY LeasesKeepSessions DEF Close, AdmissionInv, SessionsInv, TypeOK, leaseVars
<1>2. LeasesInv'
  BY <1>1, OthersKeepLeases DEF Close, AdmissionInv, SessionsInv, leaseVars, sessionVars
<1> QED BY <1>1, <1>2 DEF AdmissionInv

-----------------------------------------------------------------------------
LEMMA StutterKeeps ==
  ASSUME AdmissionInv, UNCHANGED vars
  PROVE  AdmissionInv'
<1>1. SessionsInv'
  BY DEF vars, AdmissionInv, SessionsInv, TypeOK, WritersAreClaimed, Started,
         CallsInOrder, StartsEndFirst, WidenedAreTracked
<1>2. LeasesInv'
  BY OthersKeepLeases DEF vars, AdmissionInv, SessionsInv
<1> QED BY <1>1, <1>2 DEF AdmissionInv

(* Every behaviour of admission.ts keeps the invariant. *)
THEOREM AdmissionInvariant == Spec => []AdmissionInv
<1>1. AdmissionInv /\ [Next]_vars => AdmissionInv'
  <2> SUFFICES ASSUME AdmissionInv, [Next]_vars PROVE AdmissionInv'
    OBVIOUS
  <2>1. CASE \E c \in Calls : Dispatch(c) \/ CallStep(c)
    BY <2>1, DispatchKeeps, WaitsKeeps, AdmitsKeeps, FinishesKeeps DEF CallStep
  <2>2. CASE \E s \in Sessions : SessionStep(s)
    BY <2>2, SessionStepKeeps
  <2>3. CASE \E h \in Holders : Acquire(h) \/ Reassert(h) \/ HolderStep(h)
    BY <2>3, AcquireKeeps, ReassertKeeps, ReservesKeeps, ConcludesKeeps, ReleaseKeeps, InspectKeeps
       DEF HolderStep
  <2>4. CASE Close
    BY <2>4, CloseKeeps
  <2>5. CASE UNCHANGED vars
    BY <2>5, StutterKeeps
  <2> QED BY <2>1, <2>2, <2>3, <2>4, <2>5 DEF Next
<1> QED BY <1>1, InitEstablishes, PTL DEF Spec

(* acquire(): however its awaits interleave with others', no two leases overlap. *)
THEOREM LeasesStayDisjoint == Spec => []LeasesAreDisjoint
<1>1. AdmissionInv => LeasesAreDisjoint
  BY DEF AdmissionInv, LeasesInv
<1> QED BY <1>1, AdmissionInvariant, PTL

(* dispatch() and acquire() look again after every await: what an operation trusts stays quiet. *)
THEOREM HeldIsQuiet == Spec => []QuietWhileHeld
<1>1. AdmissionInv => QuietWhileHeld
  <2> SUFFICES ASSUME AdmissionInv, NEW h \in Holders, lease[h] \in {"held", "reinspecting"}
               PROVE  /\ ~Dispatching(RootOf[h])
                      /\ \A s \in Tracked : Overlap(RootOf[h], CwdOf[s]) => s \notin reach \cup claim
                      /\ \A s \in shells : ~Overlap(RootOf[h], CwdOf[s])
    BY DEF QuietWhileHeld
  <2>1. ~Dispatching(RootOf[h])
    BY DEF AdmissionInv, LeasesInv, NoDispatchUnderLease, Leased
  <2>2. \A s \in Tracked : Overlap(RootOf[h], CwdOf[s]) => s \notin claim
    BY DEF AdmissionInv, LeasesInv, ReadHaveNoClaim, HasRead, Trusts
  <2>3. \A s \in Tracked : s \in reach => s \in claim
    BY DEF AdmissionInv, SessionsInv, WritersAreClaimed
  <2>4. \A s \in shells : ~Overlap(RootOf[h], CwdOf[s])
    BY DEF AdmissionInv, LeasesInv, NoShellUnderLease, Trusts
  <2> QED BY <2>1, <2>2, <2>3, <2>4
<1> QED BY <1>1, AdmissionInvariant, PTL
=============================================================================
