------------------------- MODULE WorkspaceAdmission -------------------------
(***************************************************************************)
(* Who may write a workspace (src/main/mission/admission.ts): a Mission    *)
(* operation takes an exclusive lease on a directory and inspects every    *)
(* session and shell of the app before it trusts what it reads there;      *)
(* session starts, sends and permission changes run as dispatches, which   *)
(* wait for overlapping leases and exclude new ones while they run.        *)
(*                                                                         *)
(* A dispatch ends when its input is accepted, not when the turn does: the *)
(* rest is activity() of the session manager, read by the inspection. A    *)
(* session in plan mode is exempt, on the word of its harness.             *)
(*                                                                         *)
(* Abstracted: a path is its canonical form and does not move while it is  *)
(* in use; every flag of activity() that a running turn can raise is       *)
(* `turn`; a shell stays where it was opened. Mission sessions dispatch    *)
(* like the tracked ones and are left out.                                 *)
(***************************************************************************)
EXTENDS Naturals, FiniteSets

CONSTANTS Places,
          Under,      \* pairs <<root, place>>: place is root or below it
          Sessions,
          CwdOf,      \* the directory of each session
          Tracked,    \* sessions whose harness reports its writers (workspaceWriterState)
          Holders,    \* Mission operations
          RootOf,     \* the directory each operation leases
          MaxCalls,   \* bound on dispatches
          MaxLeases   \* bound on acquisitions

ASSUME AdmissionAssumption ==
  /\ Under \subseteq Places \X Places
  /\ CwdOf \in [Sessions -> Places] /\ RootOf \in [Holders -> Places]
  /\ Tracked \subseteq Sessions
  /\ {MaxCalls, MaxLeases} \subseteq Nat

Kinds == {"start", "send", "widen"}   \* ensureActive, dispatchReservedInput, setPermissionMode
Calls == Sessions \X Kinds

VARIABLES
  closed,    \* this.closed
  call,      \* each call of dispatch(): where it stands
  lease,     \* each operation: where it stands between acquire() and release()
  todo,      \* sessions its inspection has yet to read
  runtime,   \* "none", "starting" or "up"
  turn,      \* sessions whose activity() shows something running
  mode,      \* permissionMode: "plan" or "write"
  claim,     \* sessions whose runtime holds a writer claim
  shells,    \* sessions with an open shell
  calls, leases,
  reach      \* history: sessions whose running turn has been allowed to write

sessionVars == <<runtime, turn, mode, claim, reach>>
leaseVars == <<lease, todo, leases>>
vars == <<closed, call, lease, todo, runtime, turn, mode, claim, shells, calls, leases, reach>>

Init ==
  /\ closed = FALSE
  /\ call = [c \in Calls |-> "idle"]
  /\ lease = [h \in Holders |-> "idle"] /\ todo = [h \in Holders |-> {}]
  /\ runtime = [s \in Sessions |-> "none"]
  /\ turn = {} /\ claim = {} /\ shells = {} /\ reach = {}
  /\ mode \in [Sessions -> {"plan", "write"}]
  /\ calls = 0 /\ leases = 0

Overlap(a, b) == <<a, b>> \in Under \/ <<b, a>> \in Under
Leased(h) == lease[h] \in {"inspecting", "held", "reinspecting"}
HeldBy(h, place) == Leased(h) /\ Overlap(RootOf[h], place)
Held(place) == \E h \in Holders : HeldBy(h, place)
Dispatching(place) == \E c \in Calls : call[c] = "running" /\ Overlap(CwdOf[c[1]], place)

(* What a release or close() does to the calls waiting in wait(). *)
Wakes == call' = [c \in Calls |-> IF call[c] = "parked" THEN "resolving" ELSE call[c]]

-----------------------------------------------------------------------------
(* dispatch(). *)

Moves(c, to) == call' = [call EXCEPT ![c] = to]

Dispatch(c) ==
  /\ calls < MaxCalls /\ calls' = calls + 1
  /\ call[c] = "idle"
  /\ CASE c[2] = "start" -> /\ runtime[c[1]] = "none"
                            /\ runtime' = [runtime EXCEPT ![c[1]] = "starting"]
       [] c[2] = "send"  -> runtime[c[1]] = "up" /\ UNCHANGED runtime
       [] c[2] = "widen" -> /\ runtime[c[1]] # "none" /\ c[1] \in Tracked
                            /\ UNCHANGED runtime
  /\ Moves(c, "resolving")
  /\ UNCHANGED <<closed, leaseVars, turn, mode, claim, shells, reach>>

(* The call throws because admission has closed; a start disposes its runtime. *)
Refused(c) ==
  /\ closed
  /\ Moves(c, "idle")
  /\ IF c[2] = "start"
     THEN runtime' = [runtime EXCEPT ![c[1]] = "none"] /\ claim' = claim \ {c[1]}
     ELSE UNCHANGED <<runtime, claim>>
  /\ UNCHANGED <<turn, mode, reach>>

(* wait(): the directory is resolved. *)
Waits(c) ==
  /\ call[c] = "resolving"
  /\ \/ Refused(c)
     \/ /\ ~closed
        /\ Moves(c, IF Held(CwdOf[c[1]]) THEN "parked" ELSE "rechecking")
        /\ UNCHANGED sessionVars
  /\ UNCHANGED <<closed, leaseVars, shells, calls>>

(* The first step of run(): the runtime is checked again, a writer is claimed first. *)
Starts(s) ==
  /\ claim' = IF s \in Tracked /\ mode[s] = "write" THEN claim \cup {s} ELSE claim
  /\ UNCHANGED <<turn, mode, reach>>
Sends(s) ==
  /\ turn' = turn \cup {s}
  /\ reach' = IF mode[s] = "write" THEN reach \cup {s} ELSE reach
  /\ UNCHANGED <<mode, claim>>
Widens(s) ==
  /\ claim' = claim \cup {s}
  /\ mode' = [mode EXCEPT ![s] = "write"]
  /\ reach' = IF s \in turn THEN reach \cup {s} ELSE reach
  /\ UNCHANGED turn

Runs(c) ==
  LET s == c[1] IN
  /\ UNCHANGED runtime
  /\ IF runtime[s] = "none" \/ (c[2] = "send" /\ runtime[s] # "up")
     THEN Moves(c, "idle") /\ UNCHANGED <<turn, mode, claim, reach>>
     ELSE /\ Moves(c, "running")
          /\ CASE c[2] = "start" -> Starts(s)
               [] c[2] = "send"  -> Sends(s)
               [] c[2] = "widen" -> Widens(s)

(* Wrong variant: the second resolution is not followed by a second look at the leases. *)
AdmitsUnchecked(c) ==
  /\ call[c] = "rechecking"
  /\ Refused(c) \/ (~closed /\ Runs(c))
  /\ UNCHANGED <<closed, leaseVars, shells, calls>>

Admits(c) ==
  /\ call[c] = "rechecking"
  /\ \/ Refused(c)
     \/ ~closed /\ Held(CwdOf[c[1]]) /\ Moves(c, "resolving") /\ UNCHANGED sessionVars
     \/ ~closed /\ ~Held(CwdOf[c[1]]) /\ Runs(c)
  /\ UNCHANGED <<closed, leaseVars, shells, calls>>

(* run() resolves or throws; a start that fails has its runtime disposed. *)
Finishes(c) ==
  LET s == c[1] IN
  /\ call[c] = "running"
  /\ Moves(c, "idle")
  /\ \/ /\ c[2] = "start" /\ runtime[s] = "starting"
        /\ \/ runtime' = [runtime EXCEPT ![s] = "up"] /\ UNCHANGED claim
           \/ runtime' = [runtime EXCEPT ![s] = "none"] /\ claim' = claim \ {s}
     \/ /\ c[2] # "start" \/ runtime[s] # "starting"
        /\ UNCHANGED <<runtime, claim>>
  /\ UNCHANGED <<closed, leaseVars, turn, mode, shells, calls, reach>>

-----------------------------------------------------------------------------
(* What sessions and shells do on their own. *)

TurnEnds(s) ==
  /\ s \in turn
  /\ turn' = turn \ {s} /\ reach' = reach \ {s}
  /\ UNCHANGED <<closed, call, leaseVars, runtime, mode, claim, shells, calls>>

(* A queued input or a child's completion starts a turn no dispatch announced. *)
FollowUp(s) ==
  /\ s \in Tracked /\ s \notin turn /\ runtime[s] = "up"
  /\ Sends(s)
  /\ UNCHANGED <<closed, call, leaseVars, runtime, shells, calls>>

(* A tighter mode applies at once. *)
Narrow(s) ==
  /\ mode[s] = "write" /\ mode' = [mode EXCEPT ![s] = "plan"]
  /\ UNCHANGED <<closed, call, leaseVars, runtime, turn, claim, shells, calls, reach>>

(* A wider one applies at once if no tracked runtime is there to be claimed. *)
WidenNow(s) ==
  /\ s \notin Tracked \/ runtime[s] = "none"
  /\ mode[s] = "plan" /\ mode' = [mode EXCEPT ![s] = "write"]
  /\ reach' = IF s \in turn THEN reach \cup {s} ELSE reach
  /\ UNCHANGED <<closed, call, leaseVars, runtime, turn, claim, shells, calls>>

(* The end of a Stop whose disposal is proven. *)
Stop(s) ==
  /\ runtime[s] # "none" /\ runtime' = [runtime EXCEPT ![s] = "none"]
  /\ turn' = turn \ {s} /\ reach' = reach \ {s} /\ claim' = claim \ {s}
  /\ UNCHANGED <<closed, call, leaseVars, mode, shells, calls>>

OpenShell(s) ==
  /\ ~closed /\ ~Held(CwdOf[s])
  /\ s \notin shells /\ shells' = shells \cup {s}
  /\ UNCHANGED <<closed, call, leaseVars, sessionVars, calls>>

CloseShell(s) ==
  /\ s \in shells /\ shells' = shells \ {s}
  /\ UNCHANGED <<closed, call, leaseVars, sessionVars, calls>>

-----------------------------------------------------------------------------
(* acquire() and the lease. *)

LeaseMoves(h, to, rest) == lease' = [lease EXCEPT ![h] = to] /\ todo' = [todo EXCEPT ![h] = rest]

Acquire(h) ==
  /\ ~closed /\ leases < MaxLeases /\ leases' = leases + 1
  /\ lease[h] = "idle"
  /\ LeaseMoves(h, "resolving", {})
  /\ UNCHANGED <<closed, call, sessionVars, shells, calls>>

(* Wrong variant: only a lease on the very same directory is in the way. *)
ReservesInside(h) ==
  /\ lease[h] = "resolving"
  /\ IF closed \/ Dispatching(RootOf[h]) \/ \E g \in Holders : Leased(g) /\ RootOf[g] = RootOf[h]
     THEN LeaseMoves(h, "idle", {})
     ELSE LeaseMoves(h, "inspecting", Sessions)
  /\ UNCHANGED <<closed, call, sessionVars, shells, calls, leases>>

Reserves(h) ==
  /\ lease[h] = "resolving"
  /\ IF closed \/ Held(RootOf[h]) \/ Dispatching(RootOf[h])
     THEN LeaseMoves(h, "idle", {})
     ELSE LeaseMoves(h, "inspecting", Sessions)
  /\ UNCHANGED <<closed, call, sessionVars, shells, calls, leases>>

Inspecting(h) == lease[h] \in {"inspecting", "reinspecting"}
Writer(s) == call[<<s, "start">>] = "running" \/ s \in turn \/ s \in claim
Exempt(s) == mode[s] = "plan" /\ s \notin claim
Blocks(s, h) == Writer(s) /\ ~Exempt(s) /\ Overlap(RootOf[h], CwdOf[s])

(* acquire() answers undefined, or the operation's finally runs: the lease is gone. *)
Releases(h) == LeaseMoves(h, "idle", {}) /\ Wakes

(* assertNoWriter reads one session after the other; a path is resolved in between. *)
Inspect(h, s) ==
  /\ Inspecting(h) /\ s \in todo[h]
  /\ IF Blocks(s, h) THEN Releases(h)
     ELSE LeaseMoves(h, lease[h], todo[h] \ {s}) /\ UNCHANGED call
  /\ UNCHANGED <<closed, sessionVars, shells, calls, leases>>

Concludes(h) ==
  /\ Inspecting(h) /\ todo[h] = {}
  /\ IF closed \/ \E s \in shells : Overlap(RootOf[h], CwdOf[s]) THEN Releases(h)
     ELSE LeaseMoves(h, "held", {}) /\ UNCHANGED call
  /\ UNCHANGED <<closed, sessionVars, shells, calls, leases>>

Reassert(h) ==
  /\ lease[h] = "held"
  /\ IF closed \/ Dispatching(RootOf[h]) THEN Releases(h)
     ELSE LeaseMoves(h, "reinspecting", Sessions) /\ UNCHANGED call
  /\ UNCHANGED <<closed, sessionVars, shells, calls, leases>>

(* Wrong variant: nobody is woken. *)
ReleaseSilently(h) ==
  /\ lease[h] = "held"
  /\ LeaseMoves(h, "idle", {}) /\ UNCHANGED call
  /\ UNCHANGED <<closed, sessionVars, shells, calls, leases>>

Release(h) ==
  /\ lease[h] = "held"
  /\ Releases(h)
  /\ UNCHANGED <<closed, sessionVars, shells, calls, leases>>

Close ==
  /\ ~closed /\ closed' = TRUE
  /\ Wakes
  /\ UNCHANGED <<leaseVars, sessionVars, shells, calls>>

CallStep(c) == Waits(c) \/ Admits(c) \/ Finishes(c)
HolderStep(h) ==
  \/ Reserves(h) \/ Concludes(h) \/ Release(h)
  \/ \E s \in Sessions : Inspect(h, s)
SessionStep(s) ==
  \/ TurnEnds(s) \/ FollowUp(s) \/ Narrow(s) \/ WidenNow(s) \/ Stop(s)
  \/ OpenShell(s) \/ CloseShell(s)

Next ==
  \/ \E c \in Calls : Dispatch(c) \/ CallStep(c)
  \/ \E s \in Sessions : SessionStep(s)
  \/ \E h \in Holders : Acquire(h) \/ Reassert(h) \/ HolderStep(h)
  \/ Close

Spec == Init /\ [][Next]_vars

(* Promises settle, run() returns, and an operation asserts quiescence finitely often before its   *)
(* finally releases the lease.                                                                     *)
FairSpec ==
  /\ Spec
  /\ \A c \in Calls : WF_vars(Waits(c)) /\ WF_vars(Admits(c)) /\ WF_vars(Finishes(c))
  /\ \A h \in Holders : WF_vars(HolderStep(h)) /\ SF_vars(Release(h))

-----------------------------------------------------------------------------
(* Properties. *)

(* The shape of the state; turns and claims belong to a runtime. *)
TypeOK ==
  /\ closed \in BOOLEAN
  /\ call \in [Calls -> {"idle", "resolving", "parked", "rechecking", "running"}]
  /\ lease \in [Holders -> {"idle", "resolving", "inspecting", "held", "reinspecting"}]
  /\ todo \in [Holders -> SUBSET Sessions]
  /\ runtime \in [Sessions -> {"none", "starting", "up"}]
  /\ mode \in [Sessions -> {"plan", "write"}]
  /\ turn \subseteq {s \in Sessions : runtime[s] = "up"}
  /\ claim \subseteq {s \in Tracked : runtime[s] # "none"}
  /\ shells \subseteq Sessions /\ reach \subseteq turn
  /\ calls \in Nat /\ leases \in Nat

(* No two operations hold leases on directories one of which contains the other. *)
LeasesAreDisjoint ==
  \A g, h \in Holders : g # h /\ Leased(g) /\ Leased(h) => ~Overlap(RootOf[g], RootOf[h])

(* While an operation trusts what it reads (its inspection has passed), nothing is being started,  *)
(* sent or widened below its root, no tracked session has a turn there that may write or could     *)
(* start one, and no shell is open: the await gaps of dispatch() and of the inspection leave none. *)
QuietWhileHeld ==
  \A h \in Holders : lease[h] \in {"held", "reinspecting"} =>
    /\ ~Dispatching(RootOf[h])
    /\ \A s \in Tracked : Overlap(RootOf[h], CwdOf[s]) => s \notin reach \cup claim
    /\ \A s \in shells : ~Overlap(RootOf[h], CwdOf[s])

(* Every dispatch is answered: it runs, or it is told that admission has closed. Only finitely many *)
(* leases are taken: nothing in dispatch() keeps a stream of operations from starving a session.   *)
DispatchIsAnswered == \A c \in Calls : call[c] # "idle" ~> call[c] = "idle"
=============================================================================
