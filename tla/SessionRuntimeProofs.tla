------------------------ MODULE SessionRuntimeProofs ------------------------
(***************************************************************************)
(* Of a session whose harness advertises no commands, with any number of   *)
(* senders, or that has one caller, who may wait for the goal driver: its  *)
(* processes are owned and its approvals are answerable, for any number of *)
(* runtimes.                                                               *)
(***************************************************************************)
EXTENDS SessionRuntime, TLAPS, FiniteSetTheorems

(* Callers that race do so without waiting for the goal driver. *)
OneCaller == Advertises => \A c, d \in Sends : c = d

(* Between ensureActive's look for a runtime and its registration no other one is registered. *)
Drivers == \A c \in Sends : send[c] = "driver" => Advertises /\ active = 0 /\ born < MaxRuntimes

Driven ==
  /\ commands => Advertises
  /\ Drivers
  /\ \A c \in Sends : send[c] \in {"starting", "ready"} => on[c] # 0

(* What holds of a runtime r with the record v when runtime a is the active one. *)

(* It is the session's until it is retired. *)
Registered(a, r, v) == v.op = "none" <=> a = r

(* A process the adapter has let go of is in the hands of a dispose() call. *)
Gripped(v) == v.proc = "alive" /\ ~v.grip => v.disp = "running"

(* A harness that has come up, or failed to, is the session's or on its way to a dispose() that *)
(* knows its process.                                                                           *)
Handed(a, r, v) ==
  v.proc = "alive" /\ v.stage \notin {"queued", "preparing", "handshake"} =>
    \/ a = r
    \/ v.op \in {"opened", "flushing"}
    \/ v.disp = "running" /\ ~v.grip

Answerable(a, r, v) == v.asked => a = r \/ v.op = "opened"

Sound(a, r, v) == Registered(a, r, v) /\ Gripped(v) /\ Handed(a, r, v) /\ Answerable(a, r, v)

RuntimeInv ==
  /\ TypeOK
  /\ Driven
  /\ \A r \in Runtimes : IF r > born THEN rt[r] = Unborn ELSE Sound(active, r, rt[r])

-----------------------------------------------------------------------------
LEMMA InitInv == ASSUME Init PROVE RuntimeInv
<1>1. born = 0 /\ active = 0 /\ 0 \in 0 .. MaxRuntimes
  BY RuntimeAssumption DEF Init
<1>2. \A r \in Runtimes : rt[r] = Unborn /\ r > born
  BY <1>1 DEF Init, Runtimes
<1>3. rt \in [Runtimes -> RuntimeState] /\ \A r \in Runtimes : rt[r].stage = "unborn" /\ r > born
  BY <1>1 DEF Init, Unborn, RuntimeState, Runtimes
<1>4. on \in [Sends -> 0 .. born] /\ target \in [Closers -> 0 .. born]
  BY <1>1 DEF Init
<1>5. listed \in BOOLEAN /\ archived \in BOOLEAN /\ commands \in BOOLEAN /\ commands = Advertises /\ status = "idle"
  BY RuntimeAssumption DEF Init
<1>6. /\ send \in [Sends -> {"idle", "driver", "starting", "ready"}] /\ \A c \in Sends : send[c] = "idle"
      /\ closing \in [Closers -> {"idle", "stopping", "removing"}]
  BY DEF Init
<1>7. TypeOK
  BY <1>1, <1>3, <1>4, <1>5, <1>6 DEF TypeOK
<1>8. Driven
  BY <1>5, <1>6 DEF Driven, Drivers
<1>. QED
  BY <1>2, <1>7, <1>8 DEF RuntimeInv

(* The variables beside the runtimes. *)
MetaTyped == /\ listed \in BOOLEAN /\ archived \in BOOLEAN
             /\ commands \in BOOLEAN /\ (commands => Advertises)
             /\ status \in {"idle", "starting", "running", "awaiting", "error", "stopped"}

CallsTyped == /\ send \in [Sends -> {"idle", "driver", "starting", "ready"}] /\ on \in [Sends -> 0 .. born]
              /\ \A c \in Sends : send[c] \in {"starting", "ready"} => on[c] # 0
              /\ closing \in [Closers -> {"idle", "stopping", "removing"}]
              /\ target \in [Closers -> 0 .. born]

Rest == MetaTyped /\ CallsTyped

(* No send begins to wait for the goal driver. *)
DriversStay == \A c \in Sends : send'[c] = "driver" => send[c] = "driver"

LEMMA RestHolds == ASSUME RuntimeInv PROVE Rest
  BY DEF RuntimeInv, TypeOK, Driven, Rest, MetaTyped, CallsTyped

(* A runtime that is there has a record, one that is not has none. *)
LEMMA Known ==
  ASSUME RuntimeInv, NEW r \in Runtimes
  PROVE  /\ born \in Nat /\ r \in Nat \ {0}
         /\ rt \in [Runtimes -> RuntimeState] /\ rt[r] \in RuntimeState
         /\ rt[r].stage # "unborn" <=> r <= born
         /\ rt[r].proc # "none" \/ rt[r].op # "none" \/ rt[r].disp # "none" \/ rt[r].busy => r <= born
         /\ r <= born => Sound(active, r, rt[r])
  BY DEF RuntimeInv, TypeOK, Runtimes, Unborn

(* An action that changes no runtime. *)
LEMMA Apart == ASSUME RuntimeInv, Rest', DriversStay, UNCHANGED <<rt, active, born>> PROVE RuntimeInv'
<1>1. Driven' /\ TypeOK'
  BY DEF RuntimeInv, TypeOK, TearingDown, Driven, Drivers, DriversStay, Rest, MetaTyped, CallsTyped
<1>. QED
  BY <1>1 DEF RuntimeInv

(* An action that gives one runtime the record v, and may release it. *)
Releases(r) == active' = active \/ (active = r /\ active' = 0)

LEMMA Puts ==
  ASSUME RuntimeInv, Rest', DriversStay, NEW r \in Runtimes, r <= born, born' = born, Releases(r),
         NEW v \in RuntimeState, v.stage # "unborn", Sound(active', r, v), rt' = [rt EXCEPT ![r] = v]
  PROVE  RuntimeInv'
<1>1. rt \in [Runtimes -> RuntimeState] /\ born \in 0 .. MaxRuntimes /\ active \in 0 .. born
  BY DEF RuntimeInv, TypeOK
<1>2. rt' \in [Runtimes -> RuntimeState] /\ rt'[r] = v /\ \A s \in Runtimes : s # r => rt'[s] = rt[s]
  BY <1>1
<1>3. \A s \in Runtimes : IF s > born' THEN rt'[s] = Unborn ELSE Sound(active', s, rt'[s])
  <2> SUFFICES ASSUME NEW s \in Runtimes
               PROVE  IF s > born' THEN rt'[s] = Unborn ELSE Sound(active', s, rt'[s])
    OBVIOUS
  <2>1. CASE s = r
    BY <1>1, <1>2, <2>1 DEF Runtimes
  <2>2. CASE s # r
    <3>1. active = s <=> active' = s
      BY <1>1, <2>2 DEF Releases, Runtimes
    <3>. QED
      BY <1>2, <2>2, <3>1 DEF RuntimeInv, Sound, Registered, Handed, Answerable
  <2>. QED
    BY <2>1, <2>2
<1>4. active' \in 0 .. born' /\ (active' # 0 => ~TearingDown(active)')
  BY <1>1, <1>2, <1>3, RuntimeAssumption DEF Releases, Sound, Registered, TearingDown, Runtimes
<1>5. \A s \in Runtimes : rt'[s].stage = "unborn" <=> s > born'
  BY <1>1, <1>2 DEF RuntimeInv, TypeOK, Runtimes
<1>6. TypeOK'
  BY <1>1, <1>2, <1>4, <1>5 DEF Rest, MetaTyped, CallsTyped, TypeOK
<1>7. Driven'
  BY DEF RuntimeInv, Rest, MetaTyped, CallsTyped, Driven, Drivers, DriversStay, Releases
<1>. QED
  BY <1>3, <1>6, <1>7 DEF RuntimeInv

-----------------------------------------------------------------------------
(* The start of a runtime. *)
LEMMA StartRunsKeeps ==
  ASSUME RuntimeInv, NEW r \in Runtimes, StartRuns(r) PROVE RuntimeInv'
<1> DEFINE v == [rt[r] EXCEPT !.stage = "preparing"]
<1>1. Rest' /\ born' = born /\ DriversStay
  BY RestHolds DEF StartRuns, meta, calls, Rest, MetaTyped, CallsTyped, DriversStay
<1>2. r <= born /\ rt[r].stage = "queued"
  BY Known DEF StartRuns, Sound, Registered
<1>3. rt \in [Runtimes -> RuntimeState] /\ rt[r] \in RuntimeState
  BY Known
<1>4. v \in RuntimeState
  BY <1>3 DEF RuntimeState
<1>5. rt' = [rt EXCEPT ![r] = v] /\ active' = active
  BY <1>3 DEF StartRuns, RuntimeState
<1>6. v.stage # "unborn" /\ Sound(active', r, v)
  BY <1>2, <1>3, <1>5, Known
     DEF RuntimeState, Sound, Registered, Gripped, Handed, Answerable
<1>. HIDE DEF v
<1>. QED
  BY <1>1, <1>2, <1>4, <1>5, <1>6, Puts DEF Releases

LEMMA SpawnsKeeps ==
  ASSUME RuntimeInv, NEW r \in Runtimes, Spawns(r) PROVE RuntimeInv'
<1> DEFINE v == [rt[r] EXCEPT !.stage = "handshake", !.proc = "alive", !.grip = TRUE]
<1>1. Rest' /\ born' = born /\ DriversStay
  BY RestHolds DEF Spawns, meta, calls, Rest, MetaTyped, CallsTyped, DriversStay
<1>2. r <= born
  BY Known DEF Spawns, Sound, Registered
<1>3. rt \in [Runtimes -> RuntimeState] /\ rt[r] \in RuntimeState
  BY Known
<1>4. v \in RuntimeState
  BY <1>3 DEF RuntimeState
<1>5. rt' = [rt EXCEPT ![r] = v] /\ active' = active
  BY <1>3 DEF Spawns, RuntimeState
<1>6. v.stage # "unborn" /\ Sound(active', r, v)
  BY <1>2, <1>3, <1>5, Known
     DEF RuntimeState, Sound, Registered, Gripped, Handed, Answerable
<1>. HIDE DEF v
<1>. QED
  BY <1>1, <1>2, <1>4, <1>5, <1>6, Puts DEF Releases

LEMMA StartSucceedsKeeps ==
  ASSUME RuntimeInv, NEW r \in Runtimes, StartSucceeds(r) PROVE RuntimeInv'
<1>1. Rest' /\ born' = born /\ DriversStay
  BY RestHolds DEF StartSucceeds, Shows, meta, calls, Rest, MetaTyped, CallsTyped, DriversStay
<1>2. r <= born /\ (active = r <=> rt[r].op = "none")
  BY Known DEF StartSucceeds, TearingDown, Sound, Registered
<1>3. rt \in [Runtimes -> RuntimeState] /\ rt[r] \in RuntimeState
  BY Known
<1>4. CASE TearingDown(r)
  <2> DEFINE v == [rt[r] EXCEPT !.disp = "running", !.grip = FALSE, !.stage = "up"]
  <2>1. v \in RuntimeState
    BY <1>3 DEF RuntimeState
  <2>2. rt' = [rt EXCEPT ![r] = v] /\ active' = active
    BY <1>2, <1>3, <1>4 DEF StartSucceeds, Disposed, RuntimeState
  <2>3. v.stage # "unborn" /\ Sound(active', r, v)
    BY <1>2, <1>3, <1>4, <2>2, Known
       DEF TearingDown, RuntimeState, Sound, Registered, Gripped, Handed, Answerable
  <2>. HIDE DEF v
  <2>. QED
    BY <1>1, <1>2, <1>4, <2>1, <2>2, <2>3, Puts DEF Releases
<1>5. CASE ~TearingDown(r)
  <2> DEFINE v == [rt[r] EXCEPT !.stage = "up"]
  <2>1. v \in RuntimeState
    BY <1>3 DEF RuntimeState
  <2>2. rt' = [rt EXCEPT ![r] = v] /\ active' = active
    BY <1>2, <1>3, <1>5 DEF StartSucceeds, Disposed, RuntimeState
  <2>3. v.stage # "unborn" /\ Sound(active', r, v)
    BY <1>2, <1>3, <1>5, <2>2, Known
       DEF TearingDown, RuntimeState, Sound, Registered, Gripped, Handed, Answerable
  <2>. HIDE DEF v
  <2>. QED
    BY <1>1, <1>2, <1>5, <2>1, <2>2, <2>3, Puts DEF Releases
<1>. QED
  BY <1>4, <1>5

LEMMA StartFailsKeeps ==
  ASSUME RuntimeInv, NEW r \in Runtimes, StartFails(r) PROVE RuntimeInv'
<1>1. Rest' /\ born' = born /\ DriversStay
  BY RestHolds DEF StartFails, meta, calls, Rest, MetaTyped, CallsTyped, DriversStay
<1>2. r <= born /\ (active = r <=> rt[r].op = "none")
  BY Known DEF StartFails, Starting, Sound, Registered
<1>3. rt \in [Runtimes -> RuntimeState] /\ rt[r] \in RuntimeState
  BY Known
<1>4. CASE active = r
  <2> DEFINE v == [rt[r] EXCEPT !.stage = "failed", !.grip = FALSE,
                             !.proc = IF @ = "alive" /\ rt[r].grip THEN "killed" ELSE @,
                             !.op = "opened", !.explicit = FALSE]
  <2>1. v \in RuntimeState
    BY <1>3 DEF RuntimeState
  <2>2. rt' = [rt EXCEPT ![r] = v] /\ active' = 0
    BY <1>2, <1>3, <1>4 DEF StartFails, Retire, RuntimeState
  <2>3. v.stage # "unborn" /\ Sound(active', r, v)
    BY <1>2, <1>3, <1>4, <2>2, Known
       DEF Starting, RuntimeState, Sound, Registered, Gripped, Handed, Answerable
  <2>. HIDE DEF v
  <2>. QED
    BY <1>1, <1>2, <1>4, <2>1, <2>2, <2>3, Puts DEF Releases
<1>5. CASE active # r
  <2> DEFINE v == [rt[r] EXCEPT !.stage = "failed", !.grip = FALSE,
                             !.proc = IF @ = "alive" /\ rt[r].grip THEN "killed" ELSE @]
  <2>1. v \in RuntimeState
    BY <1>3 DEF RuntimeState
  <2>2. rt' = [rt EXCEPT ![r] = v] /\ active' = active
    BY <1>2, <1>3, <1>5 DEF StartFails, Retire, RuntimeState
  <2>3. v.stage # "unborn" /\ Sound(active', r, v)
    BY <1>2, <1>3, <1>5, <2>2, Known
       DEF Starting, RuntimeState, Sound, Registered, Gripped, Handed, Answerable
  <2>. HIDE DEF v
  <2>. QED
    BY <1>1, <1>2, <1>5, <2>1, <2>2, <2>3, Puts DEF Releases
<1>. QED
  BY <1>4, <1>5

-----------------------------------------------------------------------------
(* The rest of its retirement. *)
LEMMA DeniesApprovalsKeeps ==
  ASSUME RuntimeInv, NEW r \in Runtimes, DeniesApprovals(r) PROVE RuntimeInv'
<1> DEFINE v == [rt[r] EXCEPT !.op = "flushing", !.asked = FALSE]
<1>1. Rest' /\ born' = born /\ DriversStay
  BY RestHolds DEF DeniesApprovals, meta, calls, Rest, MetaTyped, CallsTyped, DriversStay
<1>2. r <= born /\ rt[r].op = "opened"
  BY Known DEF DeniesApprovals, Sound, Registered
<1>3. rt \in [Runtimes -> RuntimeState] /\ rt[r] \in RuntimeState
  BY Known
<1>4. v \in RuntimeState
  BY <1>3 DEF RuntimeState
<1>5. rt' = [rt EXCEPT ![r] = v] /\ active' = active
  BY <1>3 DEF DeniesApprovals, RuntimeState
<1>6. v.stage # "unborn" /\ Sound(active', r, v)
  BY <1>2, <1>3, <1>5, Known
     DEF RuntimeState, Sound, Registered, Gripped, Handed, Answerable
<1>. HIDE DEF v
<1>. QED
  BY <1>1, <1>2, <1>4, <1>5, <1>6, Puts DEF Releases

LEMMA FlushesKeeps ==
  ASSUME RuntimeInv, NEW r \in Runtimes, Flushes(r) PROVE RuntimeInv'
<1> DEFINE v == [rt[r] EXCEPT !.disp = "running", !.grip = FALSE, !.op = "waiting"]
<1>1. Rest' /\ born' = born /\ DriversStay
  BY RestHolds DEF Flushes, meta, calls, Rest, MetaTyped, CallsTyped, DriversStay
<1>2. r <= born /\ rt[r].op = "flushing"
  BY Known DEF Flushes, Sound, Registered
<1>3. rt \in [Runtimes -> RuntimeState] /\ rt[r] \in RuntimeState
  BY Known
<1>4. v \in RuntimeState
  BY <1>3 DEF RuntimeState
<1>5. rt' = [rt EXCEPT ![r] = v] /\ active' = active
  BY <1>3 DEF Flushes, Disposed, RuntimeState
<1>6. v.stage # "unborn" /\ Sound(active', r, v)
  BY <1>2, <1>3, <1>5, Known
     DEF RuntimeState, Sound, Registered, Gripped, Handed, Answerable
<1>. HIDE DEF v
<1>. QED
  BY <1>1, <1>2, <1>4, <1>5, <1>6, Puts DEF Releases

LEMMA DisposeSettlesKeeps ==
  ASSUME RuntimeInv, NEW r \in Runtimes, DisposeSettles(r) PROVE RuntimeInv'
<1> DEFINE v == [rt[r] EXCEPT !.disp = "settled",
                           !.proc = IF @ = "alive" /\ ~rt[r].grip THEN "killed" ELSE @]
<1>1. Rest' /\ born' = born /\ DriversStay
  BY RestHolds DEF DisposeSettles, meta, calls, Rest, MetaTyped, CallsTyped, DriversStay
<1>2. r <= born
  BY Known DEF DisposeSettles, Sound, Registered
<1>3. rt \in [Runtimes -> RuntimeState] /\ rt[r] \in RuntimeState
  BY Known
<1>4. v \in RuntimeState
  BY <1>3 DEF RuntimeState
<1>5. rt' = [rt EXCEPT ![r] = v] /\ active' = active
  BY <1>3 DEF DisposeSettles, RuntimeState
<1>6. v.stage # "unborn" /\ Sound(active', r, v)
  BY <1>2, <1>3, <1>5, Known
     DEF RuntimeState, Sound, Registered, Gripped, Handed, Answerable
<1>. HIDE DEF v
<1>. QED
  BY <1>1, <1>2, <1>4, <1>5, <1>6, Puts DEF Releases

LEMMA RetireEndsKeeps ==
  ASSUME RuntimeInv, NEW r \in Runtimes, RetireEnds(r) PROVE RuntimeInv'
<1> DEFINE v == [rt[r] EXCEPT !.op = "done"]
<1>1. Rest' /\ born' = born /\ DriversStay
  BY RestHolds DEF RetireEnds, meta, calls, Rest, MetaTyped, CallsTyped, DriversStay
<1>2. r <= born /\ rt[r].op = "waiting"
  BY Known DEF RetireEnds, Sound, Registered
<1>3. rt \in [Runtimes -> RuntimeState] /\ rt[r] \in RuntimeState
  BY Known
<1>4. v \in RuntimeState
  BY <1>3 DEF RuntimeState
<1>5. rt' = [rt EXCEPT ![r] = v] /\ active' = active
  BY <1>3 DEF RetireEnds, RuntimeState
<1>6. v.stage # "unborn" /\ Sound(active', r, v)
  BY <1>2, <1>3, <1>5, Known
     DEF RuntimeState, Sound, Registered, Gripped, Handed, Answerable
<1>. HIDE DEF v
<1>. QED
  BY <1>1, <1>2, <1>4, <1>5, <1>6, Puts DEF Releases

-----------------------------------------------------------------------------
(* What the harness does. *)
LEMMA ExitsKeeps ==
  ASSUME RuntimeInv, NEW r \in Runtimes, Exits(r) PROVE RuntimeInv'
<1>1. Rest' /\ born' = born /\ DriversStay
  BY RestHolds DEF Exits, meta, calls, Rest, MetaTyped, CallsTyped, DriversStay
<1>2. r <= born /\ (active = r <=> rt[r].op = "none")
  BY Known DEF Exits, Sound, Registered
<1>3. rt \in [Runtimes -> RuntimeState] /\ rt[r] \in RuntimeState
  BY Known
<1>4. CASE Current(r) /\ listed /\ ~(Adapter = "pi" /\ rt[r].disp = "settled") /\ active = r
  <2> DEFINE v == [rt[r] EXCEPT !.proc = "gone", !.grip = FALSE, !.busy = FALSE,
                             !.op = "opened", !.explicit = FALSE]
  <2>1. v \in RuntimeState
    BY <1>3 DEF RuntimeState
  <2>2. rt' = [rt EXCEPT ![r] = v] /\ active' = 0
    BY <1>2, <1>3, <1>4 DEF Exits, Retire, RuntimeState
  <2>3. v.stage # "unborn" /\ Sound(active', r, v)
    BY <1>2, <1>3, <1>4, <2>2, Known
       DEF RuntimeState, Sound, Registered, Gripped, Handed, Answerable
  <2>. HIDE DEF v
  <2>. QED
    BY <1>1, <1>2, <1>4, <2>1, <2>2, <2>3, Puts DEF Releases
<1>5. CASE ~(Current(r) /\ listed /\ ~(Adapter = "pi" /\ rt[r].disp = "settled") /\ active = r)
  <2> DEFINE v == [rt[r] EXCEPT !.proc = "gone", !.grip = FALSE, !.busy = FALSE]
  <2>1. v \in RuntimeState
    BY <1>3 DEF RuntimeState
  <2>2. rt' = [rt EXCEPT ![r] = v] /\ active' = active
    BY <1>2, <1>3, <1>5 DEF Exits, Retire, RuntimeState
  <2>3. v.stage # "unborn" /\ Sound(active', r, v)
    BY <1>2, <1>3, <1>5, <2>2, Known
       DEF RuntimeState, Sound, Registered, Gripped, Handed, Answerable
  <2>. HIDE DEF v
  <2>. QED
    BY <1>1, <1>2, <1>5, <2>1, <2>2, <2>3, Puts DEF Releases
<1>. QED
  BY <1>4, <1>5

LEMMA BreaksKeeps ==
  ASSUME RuntimeInv, NEW r \in Runtimes, Breaks(r) PROVE RuntimeInv'
<1>1. Rest' /\ born' = born /\ DriversStay
  BY RestHolds DEF Breaks, meta, calls, Rest, MetaTyped, CallsTyped, DriversStay
<1>2. r <= born /\ (active = r <=> rt[r].op = "none")
  BY Known DEF Breaks, Sound, Registered
<1>3. rt \in [Runtimes -> RuntimeState] /\ rt[r] \in RuntimeState
  BY Known
<1>4. CASE active = r
  <2> DEFINE v == [rt[r] EXCEPT !.op = "opened", !.explicit = FALSE]
  <2>1. v \in RuntimeState
    BY <1>3 DEF RuntimeState
  <2>2. rt' = [rt EXCEPT ![r] = v] /\ active' = 0
    BY <1>2, <1>3, <1>4 DEF Breaks, Retire, RuntimeState
  <2>3. v.stage # "unborn" /\ Sound(active', r, v)
    BY <1>2, <1>3, <1>4, <2>2, Known
       DEF RuntimeState, Sound, Registered, Gripped, Handed, Answerable
  <2>. HIDE DEF v
  <2>. QED
    BY <1>1, <1>2, <1>4, <2>1, <2>2, <2>3, Puts DEF Releases
<1>5. CASE active # r
  <2> DEFINE v == rt[r]
  <2>1. v \in RuntimeState
    BY <1>3 DEF RuntimeState
  <2>2. rt' = [rt EXCEPT ![r] = v] /\ active' = active
    BY <1>2, <1>3, <1>5 DEF Breaks, Retire, RuntimeState
  <2>3. v.stage # "unborn" /\ Sound(active', r, v)
    BY <1>2, <1>3, <1>5, <2>2, Known
       DEF RuntimeState, Sound, Registered, Gripped, Handed, Answerable
  <2>. HIDE DEF v
  <2>. QED
    BY <1>1, <1>2, <1>5, <2>1, <2>2, <2>3, Puts DEF Releases
<1>. QED
  BY <1>4, <1>5

LEMMA TurnEndsKeeps ==
  ASSUME RuntimeInv, NEW r \in Runtimes, TurnEnds(r) PROVE RuntimeInv'
<1> DEFINE v == [rt[r] EXCEPT !.busy = FALSE]
<1>1. Rest' /\ born' = born /\ DriversStay
  BY RestHolds DEF TurnEnds, Shows, meta, calls, Rest, MetaTyped, CallsTyped, DriversStay
<1>2. r <= born
  BY Known DEF TurnEnds, Sound, Registered
<1>3. rt \in [Runtimes -> RuntimeState] /\ rt[r] \in RuntimeState
  BY Known
<1>4. v \in RuntimeState
  BY <1>3 DEF RuntimeState
<1>5. rt' = [rt EXCEPT ![r] = v] /\ active' = active
  BY <1>3 DEF TurnEnds, RuntimeState
<1>6. v.stage # "unborn" /\ Sound(active', r, v)
  BY <1>2, <1>3, <1>5, Known
     DEF RuntimeState, Sound, Registered, Gripped, Handed, Answerable
<1>. HIDE DEF v
<1>. QED
  BY <1>1, <1>2, <1>4, <1>5, <1>6, Puts DEF Releases

LEMMA RequestApprovalKeeps ==
  ASSUME RuntimeInv, NEW r \in Runtimes, RequestApproval(r) PROVE RuntimeInv'
<1> DEFINE v == [rt[r] EXCEPT !.asked = TRUE]
<1>1. Rest' /\ born' = born /\ DriversStay
  BY RestHolds DEF RequestApproval, meta, calls, Rest, MetaTyped, CallsTyped, DriversStay
<1>2. r <= born /\ active = r
  BY Known DEF RequestApproval, Usable, Sound, Registered
<1>3. rt \in [Runtimes -> RuntimeState] /\ rt[r] \in RuntimeState
  BY Known
<1>4. v \in RuntimeState
  BY <1>3 DEF RuntimeState
<1>5. rt' = [rt EXCEPT ![r] = v] /\ active' = active
  BY <1>3 DEF RequestApproval, RuntimeState
<1>6. v.stage # "unborn" /\ Sound(active', r, v)
  BY <1>2, <1>3, <1>5, Known
     DEF RuntimeState, Sound, Registered, Gripped, Handed, Answerable
<1>. HIDE DEF v
<1>. QED
  BY <1>1, <1>2, <1>4, <1>5, <1>6, Puts DEF Releases

-----------------------------------------------------------------------------
(* What the user does. *)
(* An answer, and an interrupt, take back what the active runtime has asked. *)
LEMMA UnasksKeeps ==
  ASSUME RuntimeInv, Rest', DriversStay, active # 0, active' = active, born' = born,
         rt' = [rt EXCEPT ![active].asked = FALSE]
  PROVE  RuntimeInv'
<1> DEFINE v == [rt[active] EXCEPT !.asked = FALSE]
<1>1. active \in Runtimes /\ active <= born
  BY RuntimeAssumption DEF RuntimeInv, TypeOK, Runtimes
<1>2. rt \in [Runtimes -> RuntimeState] /\ rt[active] \in RuntimeState
  BY <1>1, Known
<1>3. v \in RuntimeState
  BY <1>2 DEF RuntimeState
<1>4. rt' = [rt EXCEPT ![active] = v]
  BY <1>2 DEF RuntimeState
<1>5. v.stage # "unborn" /\ Sound(active', active, v)
  BY <1>1, <1>2, Known DEF RuntimeState, Sound, Registered, Gripped, Handed, Answerable
<1>. HIDE DEF v
<1>. QED
  BY <1>1, <1>3, <1>4, <1>5, Puts DEF Releases

LEMMA RespondApprovalKeeps == ASSUME RuntimeInv, RespondApproval PROVE RuntimeInv'
<1>1. Rest' /\ DriversStay
  BY RestHolds DEF RespondApproval, calls, Rest, MetaTyped, CallsTyped, DriversStay
<1>. QED
  BY <1>1, UnasksKeeps DEF RespondApproval

LEMMA InterruptKeeps == ASSUME RuntimeInv, Interrupt PROVE RuntimeInv'
<1>1. Rest' /\ DriversStay
  BY RestHolds DEF Interrupt, meta, calls, Rest, MetaTyped, CallsTyped, DriversStay
<1>. QED
  BY <1>1, UnasksKeeps DEF Interrupt

LEMMA CloseBeginsKeeps == ASSUME RuntimeInv, NEW k \in Closers, CloseBegins(k) PROVE RuntimeInv'
<1>1. active \in 0 .. born /\ born \in 0 .. MaxRuntimes
  BY DEF RuntimeInv, TypeOK
<1>2. Rest' /\ born' = born /\ DriversStay
  <2>1. MetaTyped' /\ born' = born /\ UNCHANGED <<send, on>>
    BY RestHolds DEF CloseBegins, meta, Rest, MetaTyped
  <2>2. closing' \in [Closers -> {"idle", "stopping", "removing"}] /\ target' \in [Closers -> 0 .. born]
    BY RestHolds, <1>1 DEF CloseBegins, AfterStop, Rest, CallsTyped
  <2>. QED
    BY <2>1, <2>2, RestHolds DEF Rest, CallsTyped, DriversStay
<1>3. CASE active = 0
  BY <1>2, <1>3, Apart DEF CloseBegins
<1>4. CASE active # 0
  <2> DEFINE v == [rt[active] EXCEPT !.op = "opened", !.explicit = TRUE]
  <2>1. active \in Runtimes /\ active <= born
    BY <1>1, <1>4, RuntimeAssumption DEF Runtimes
  <2>2. rt \in [Runtimes -> RuntimeState] /\ rt[active] \in RuntimeState /\ rt[active].op = "none"
    BY <2>1, Known DEF Sound, Registered
  <2>3. v \in RuntimeState
    BY <2>2 DEF RuntimeState
  <2>4. rt' = [rt EXCEPT ![active] = v] /\ active' = 0
    BY <1>4, <2>2 DEF CloseBegins, Retire, RuntimeState
  <2>5. v.stage # "unborn" /\ Sound(active', active, v)
    BY <1>4, <2>1, <2>2, <2>4, Known DEF RuntimeState, Sound, Registered, Gripped, Handed, Answerable
  <2>. HIDE DEF v
  <2>. QED
    BY <1>2, <2>1, <2>3, <2>4, <2>5, Puts DEF Releases
<1>. QED
  BY <1>3, <1>4

LEMMA StopReturnsKeeps == ASSUME RuntimeInv, NEW k \in Closers, StopReturns(k) PROVE RuntimeInv'
<1>1. AfterStop(k) \in {"idle", "stopping", "removing"} /\ 0 \in 0 .. born
  BY DEF AfterStop, RuntimeInv, TypeOK
<1>2. closing' \in [Closers -> {"idle", "stopping", "removing"}] /\ target' \in [Closers -> 0 .. born]
  BY <1>1, RestHolds DEF StopReturns, Rest, CallsTyped
<1>3. Rest' /\ DriversStay
  BY <1>2, RestHolds DEF StopReturns, meta, Rest, MetaTyped, CallsTyped, DriversStay
<1>. QED
  BY <1>3, Apart DEF StopReturns

LEMMA PutAwayKeeps == ASSUME RuntimeInv, NEW k \in Closers, PutAway(k) PROVE RuntimeInv'
<1>1. Rest' /\ DriversStay
  BY RestHolds DEF PutAway, Rest, MetaTyped, CallsTyped, DriversStay
<1>. QED
  BY <1>1, Apart DEF PutAway

LEMMA UnarchiveKeeps == ASSUME RuntimeInv, Unarchive PROVE RuntimeInv'
<1>1. Rest' /\ DriversStay
  BY RestHolds DEF Unarchive, calls, Rest, MetaTyped, CallsTyped, DriversStay
<1>. QED
  BY <1>1, Apart DEF Unarchive

-----------------------------------------------------------------------------
(* send(). *)

(* A caller that waits for the goal driver is the only one. *)
LEMMA DriverIsAlone ==
  ASSUME OneCaller, RuntimeInv, NEW c \in Sends, NEW d \in Sends, send[d] = "driver"
  PROVE  c = d
  BY DEF OneCaller, RuntimeInv, Driven, Drivers

(* Nobody waits for it when another send begins, so that there is room for the runtime. *)
LEMMA RoomIsThere ==
  ASSUME OneCaller, RuntimeInv, NEW c \in Sends, send[c] = "idle", Room PROVE born < MaxRuntimes
<1>1. {d \in Sends : send[d] = "driver"} = {}
  BY DriverIsAlone
<1>2. born \in Nat
  BY DEF RuntimeInv, TypeOK
<1>. QED
  BY <1>1, <1>2, FS_EmptySet DEF Room

(* ensureActive without a runtime. *)
LEMMA NewRuntimeKeeps ==
  ASSUME OneCaller, RuntimeInv, NEW c \in Sends, active = 0, born < MaxRuntimes, NewRuntime(c),
         UNCHANGED <<listed, archived, commands, closing, target>>
  PROVE  RuntimeInv'
<1> DEFINE n == born + 1
           v == [Unborn EXCEPT !.stage = IF Admits THEN "queued" ELSE "preparing"]
<1>1. born \in 0 .. MaxRuntimes /\ n \in Runtimes /\ born' = n /\ active' = n
  BY RuntimeAssumption DEF RuntimeInv, TypeOK, NewRuntime, Runtimes
<1>2. Rest'
  BY <1>1, RestHolds DEF NewRuntime, Rest, MetaTyped, CallsTyped
<1>3. rt \in [Runtimes -> RuntimeState] /\ rt[n] = Unborn
  BY <1>1 DEF RuntimeInv, TypeOK, Runtimes
<1>4. v \in RuntimeState /\ v.stage # "unborn" /\ v.op = "none" /\ Sound(n, n, v)
  BY DEF RuntimeState, Unborn, Sound, Registered, Gripped, Handed, Answerable
<1>5. rt' = [rt EXCEPT ![n] = v]
  BY <1>3 DEF NewRuntime, Unborn, RuntimeState
<1>. HIDE DEF v
<1>6. rt' \in [Runtimes -> RuntimeState] /\ rt'[n] = v /\ \A s \in Runtimes : s # n => rt'[s] = rt[s]
  BY <1>1, <1>3, <1>4, <1>5
<1>7. \A s \in Runtimes : IF s > born' THEN rt'[s] = Unborn ELSE Sound(active', s, rt'[s])
  <2> SUFFICES ASSUME NEW s \in Runtimes
               PROVE  IF s > born' THEN rt'[s] = Unborn ELSE Sound(active', s, rt'[s])
    OBVIOUS
  <2>1. CASE s = n
    BY <1>1, <1>4, <1>6, <2>1 DEF Runtimes
  <2>2. CASE s # n
    <3>1. active # s /\ active' # s /\ (s > born <=> s > born')
      BY <1>1, <2>2 DEF Runtimes
    <3>. QED
      BY <1>6, <2>2, <3>1 DEF RuntimeInv, Sound, Registered, Handed, Answerable
  <2>. QED
    BY <2>1, <2>2
<1>8. active' \in 0 .. born' /\ born' \in 0 .. MaxRuntimes /\ ~TearingDown(active)'
  BY <1>1, <1>4, <1>6, RuntimeAssumption DEF TearingDown, Runtimes
<1>9. \A s \in Runtimes : rt'[s].stage = "unborn" <=> s > born'
  BY <1>1, <1>4, <1>6 DEF RuntimeInv, TypeOK, Runtimes
<1>10. TypeOK'
  BY <1>2, <1>6, <1>8, <1>9 DEF Rest, MetaTyped, CallsTyped, TypeOK
<1>11. \A d \in Sends : send'[d] # "driver"
  BY DriverIsAlone, RestHolds DEF NewRuntime, Rest, CallsTyped
<1>12. Driven'
  BY <1>2, <1>11 DEF Rest, MetaTyped, CallsTyped, Driven, Drivers
<1>. QED
  BY <1>7, <1>10, <1>12 DEF RuntimeInv

(* The harness has advertised commands: the send resets them and waits for the goal driver. *)
LEMMA DriverWaitKeeps ==
  ASSUME OneCaller, RuntimeInv, NEW c \in Sends, send[c] = "idle", active = 0, commands, Room,
         commands' = FALSE, send' = [send EXCEPT ![c] = "driver"],
         UNCHANGED <<listed, archived, status, active, born, rt, on, closing, target>>
  PROVE  RuntimeInv'
<1>1. MetaTyped' /\ CallsTyped'
  BY RestHolds DEF Rest, MetaTyped, CallsTyped
<1>2. TypeOK'
  BY <1>1 DEF RuntimeInv, TypeOK, TearingDown, MetaTyped, CallsTyped
<1>3. Advertises /\ born < MaxRuntimes
  BY RoomIsThere DEF RuntimeInv, Driven
<1>4. Driven'
  BY <1>1, <1>3, RestHolds DEF RuntimeInv, Driven, Drivers, MetaTyped, CallsTyped, Rest
<1>. QED
  BY <1>2, <1>4 DEF RuntimeInv

LEMMA SendBeginsKeeps == ASSUME OneCaller, RuntimeInv, NEW c \in Sends, SendBegins(c) PROVE RuntimeInv'
<1>1. active \in 0 .. born
  BY DEF RuntimeInv, TypeOK
<1>2. CASE active # 0
  <2>1. Rest' /\ DriversStay
    BY <1>1, <1>2, RestHolds DEF SendBegins, Rest, MetaTyped, CallsTyped, DriversStay
  <2>. QED
    BY <1>2, <2>1, Apart DEF SendBegins
<1>3. CASE active = 0 /\ commands
  BY <1>3, DriverWaitKeeps DEF SendBegins
<1>4. CASE active = 0 /\ ~commands
  BY <1>4, NewRuntimeKeeps, RoomIsThere DEF SendBegins
<1>. QED
  BY <1>2, <1>3, <1>4

LEMMA DriverAppliedKeeps ==
  ASSUME OneCaller, RuntimeInv, NEW c \in Sends, DriverApplied(c) PROVE RuntimeInv'
<1>1. active = 0 /\ born < MaxRuntimes
  BY DEF DriverApplied, RuntimeInv, Driven, Drivers
<1>. QED
  BY <1>1, NewRuntimeKeeps DEF DriverApplied

LEMMA ReturnsTyped ==
  ASSUME RuntimeInv, NEW c \in Sends, Returns(c), UNCHANGED <<born, closing, target>> PROVE CallsTyped' /\ DriversStay
<1>1. 0 \in 0 .. born
  BY DEF RuntimeInv, TypeOK
<1>. QED
  BY <1>1, RestHolds DEF Returns, Rest, CallsTyped, DriversStay

LEMMA SendContinuesKeeps == ASSUME RuntimeInv, NEW c \in Sends, SendContinues(c) PROVE RuntimeInv'
<1>1. MetaTyped' /\ UNCHANGED <<born, closing, target>>
  BY RestHolds DEF SendContinues, meta, Rest, MetaTyped
<1>2. CallsTyped' /\ DriversStay
  <2>1. CASE Returns(c)
    BY <1>1, <2>1, ReturnsTyped
  <2>2. CASE send' = [send EXCEPT ![c] = "ready"] /\ UNCHANGED on
    BY <1>1, <2>2, RestHolds DEF SendContinues, Rest, CallsTyped, DriversStay
  <2>. QED
    BY <2>1, <2>2 DEF SendContinues
<1>. QED
  BY <1>1, <1>2, Apart DEF SendContinues, Rest

LEMMA SendDeliversKeeps == ASSUME RuntimeInv, NEW c \in Sends, SendDelivers(c) PROVE RuntimeInv'
<1> DEFINE r == on[c]
           v == [rt[r] EXCEPT !.busy = TRUE]
<1>1. Rest' /\ born' = born /\ DriversStay
  BY RestHolds, ReturnsTyped DEF SendDelivers, Shows, Rest, MetaTyped
<1>2. CASE Usable(r) /\ rt[r].proc = "alive"
  <2>1. r \in Runtimes /\ active = r /\ r <= born
    BY <1>2, RuntimeAssumption DEF SendDelivers, Driven, RuntimeInv, TypeOK, Usable, Runtimes
  <2>2. rt \in [Runtimes -> RuntimeState] /\ rt[r] \in RuntimeState
    BY <2>1, Known
  <2>3. v \in RuntimeState
    BY <2>2 DEF RuntimeState
  <2>4. rt' = [rt EXCEPT ![r] = v] /\ active' = active
    BY <1>2, <2>2 DEF SendDelivers, RuntimeState
  <2>5. v.stage # "unborn" /\ Sound(active', r, v)
    BY <2>1, <2>2, <2>4, Known DEF RuntimeState, Sound, Registered, Gripped, Handed, Answerable
  <2>. HIDE DEF r, v
  <2>. QED
    BY <1>1, <2>1, <2>3, <2>4, <2>5, Puts DEF Releases
<1>3. CASE ~(Usable(r) /\ rt[r].proc = "alive")
  BY <1>1, <1>3, Apart DEF SendDelivers
<1>. QED
  BY <1>2, <1>3

-----------------------------------------------------------------------------
LEMMA NextInv == ASSUME OneCaller, RuntimeInv, [Next]_vars PROVE RuntimeInv'
<1>1. CASE \E c \in Sends : SendBegins(c) \/ SendStep(c)
  BY <1>1, SendBeginsKeeps, DriverAppliedKeeps, SendContinuesKeeps, SendDeliversKeeps DEF SendStep
<1>2. CASE \E r \in Runtimes : StartStep(r)
  BY <1>2, StartRunsKeeps, SpawnsKeeps, StartSucceedsKeeps, StartFailsKeeps DEF StartStep
<1>3. CASE \E r \in Runtimes : RetireStep(r) \/ DisposeSettles(r)
  BY <1>3, DeniesApprovalsKeeps, FlushesKeeps, RetireEndsKeeps, DisposeSettlesKeeps DEF RetireStep
<1>4. CASE \E r \in Runtimes : HarnessStep(r)
  BY <1>4, ExitsKeeps, BreaksKeeps, TurnEndsKeeps, RequestApprovalKeeps DEF HarnessStep
<1>5. CASE RespondApproval \/ Interrupt \/ Unarchive
  BY <1>5, RespondApprovalKeeps, InterruptKeeps, UnarchiveKeeps
<1>6. CASE \E k \in Closers : CloseBegins(k) \/ StopReturns(k) \/ PutAway(k)
  BY <1>6, CloseBeginsKeeps, StopReturnsKeeps, PutAwayKeeps
<1>7. CASE UNCHANGED vars
  <2>1. Rest' /\ DriversStay /\ UNCHANGED <<rt, active, born>>
    BY <1>7, RestHolds DEF vars, meta, calls, Rest, MetaTyped, CallsTyped, DriversStay
  <2>. QED
    BY <2>1, Apart
<1>. QED
  BY <1>1, <1>2, <1>3, <1>4, <1>5, <1>6, <1>7 DEF Next

(* The invariant the theorems rest on: SessionRuntime's runtimes, record by record. *)
THEOREM RuntimeInvariant == ASSUME OneCaller PROVE Spec => []RuntimeInv
<1>1. Init => RuntimeInv
  BY InitInv
<1>2. RuntimeInv /\ [Next]_vars => RuntimeInv'
  BY NextInv
<1>. QED
  BY <1>1, <1>2, PTL DEF Spec

(* The shape of the session's runtimes; a retired one is never the active one. *)
THEOREM RuntimeTypes == ASSUME OneCaller PROVE Spec => []TypeOK
  BY RuntimeInvariant, PTL DEF RuntimeInv

(* requestApproval, respondApproval and retireOrdinary: a pending approval belongs to the runtime *)
(* an answer looks up, or is about to be denied.                                                  *)
THEOREM ApprovalsStayAnswerable == ASSUME OneCaller PROVE Spec => []ApprovalsAreAnswerable
<1>1. RuntimeInv => ApprovalsAreAnswerable
  BY DEF RuntimeInv, Unborn, Sound, Answerable, ApprovalsAreAnswerable
<1>. QED
  BY <1>1, RuntimeInvariant, PTL

(* send, stop and the startup of a runtime: in whatever order they meet, a harness process to which *)
(* no kill was issued is the active runtime's, or a start, a teardown or a dispose() holds it.      *)
THEOREM NoProcessIsOrphaned == ASSUME OneCaller PROVE Spec => []NothingRunsUnowned
<1>1. RuntimeInv => NothingRunsUnowned
  BY DEF RuntimeInv, Unborn, Sound, Handed, NothingRunsUnowned, Starting
<1>. QED
  BY <1>1, RuntimeInvariant, PTL
=============================================================================
