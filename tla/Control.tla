------------------------------- MODULE Control -------------------------------
(***************************************************************************)
(* The app-owned control domain (src/main/control): an external controller *)
(* asks the app to start a turn, and the app answers with a receipt that   *)
(* must stay true across retries, revocation, storage failure and crashes. *)
(*                                                                         *)
(* ControlJournal keeps one JSON document. Its transactions are serialised *)
(* by a promise chain (`queue`); the head transaction takes a snapshot,    *)
(* prunes it, applies its change and persists it (`writing`), and only a   *)
(* persist that succeeded replaces the in-memory value. ControlService     *)
(* admits requests, runs one job per fresh operation and lets the owner    *)
(* enable, grant and revoke.                                               *)
(*                                                                         *)
(* Abstracted: scopes, projects, permission modes, harnesses and the 30 s  *)
(* life of a principal are reasons a check may refuse (a refusal is always *)
(* possible where the code checks them); prompt text is a member of        *)
(* Payloads; UUIDs are members of Ops and Windows, never issued twice.     *)
(***************************************************************************)
EXTENDS Naturals, Sequences, FiniteSets

CONSTANTS Controllers,  \* (accountId, controllerId) pairs
          Windows,      \* admission window ids
          Keys,         \* a method with an idempotency key
          Payloads,     \* parameters, as hashed
          Ops,          \* operation ids
          None,
          WindowLife,   \* WINDOW_MS in ticks
          RetryGrace,   \* CONTROL_RETRY_GRACE_MS in ticks
          MaxTime,      \* bound on the clock
          MaxQueue,     \* bound on owner and controller calls waiting in the journal
          MaxCrashes    \* bound on process crashes

Live == {"accepted", "dispatched"}
Terminal == {"succeeded", "failed", "interrupted", "unknown"}
Outcomes == Terminal
States == {"none"} \cup Live \cup Terminal

Identity == [who : Controllers, window : Windows, key : Keys, payload : Payloads]

(* One committed document: what `snapshot()` returns. *)
Journals == [enabled : BOOLEAN,
             grants : [Controllers -> Nat],   \* expiry of the unrevoked grant, 0 without one
             windows : SUBSET Windows,
             state : [Ops -> States]]

Txns == [kind : {"admit"}, who : Controllers, window : Windows, key : Keys, payload : Payloads]
        \cup [kind : {"window"}, who : Controllers]
        \cup [kind : {"grant", "revoke"}, who : Controllers, until : Nat]
        \cup [kind : {"enable"}, on : BOOLEAN]
        \cup [kind : {"dispatch", "abandon"}, op : Ops]
        \cup [kind : {"settle"}, op : Ops, outcome : Outcomes]

ASSUME ControlAssumption ==
  /\ None \notin Journals \cup Identity
  /\ {WindowLife, RetryGrace, MaxTime, MaxQueue, MaxCrashes} \subseteq Nat

VARIABLES
  up,        \* the process runs and the journal is loaded
  mem,       \* ControlJournal.value
  disk,      \* control.json
  queue,     \* transactions waiting on the promise chain; the head is the current one
  writing,   \* the document the head is persisting, or None
  fault,     \* ControlService.storageFault
  job,       \* where execute() of each operation stands
  now,       \* the wall clock
  crashes,
  (* Attributes of ids, fixed when the id is minted. *)
  ident,     \* of an operation: who asked, in which window, under which key, for what
  owner, expires,   \* of an admission window
  (* History. *)
  written,   \* operation ids that ever reached the disk
  issued,    \* window ids that ever reached the disk
  ran,       \* what the harness did for each operation
  withdrawn  \* operations still accepted when their authority was withdrawn

journalVars == <<mem, disk, queue, writing>>
idVars == <<ident, owner, expires, written, issued>>
vars == <<up, mem, disk, queue, writing, fault, job, now, crashes,
          ident, owner, expires, written, issued, ran, withdrawn>>

JobStates == {"none", "ready", "dispatching", "running", "settling", "abandoning", "done", "dead"}
RanStates == {"no", "running"} \cup Outcomes

TypeOK ==
  /\ up \in BOOLEAN
  /\ mem \in Journals
  /\ disk \in Journals
  /\ queue \in Seq(Txns)
  /\ writing \in Journals \cup {None}
  /\ fault \in BOOLEAN
  /\ job \in [Ops -> JobStates]
  /\ now \in Nat
  /\ crashes \in Nat
  /\ ident \in [Ops -> Identity \cup {None}]
  /\ owner \in [Windows -> Controllers \cup {None}]
  /\ expires \in [Windows -> Nat]
  /\ written \subseteq Ops
  /\ issued \subseteq Windows
  /\ ran \in [Ops -> RanStates]
  /\ withdrawn \subseteq Ops

EmptyJournal == [enabled |-> FALSE, grants |-> [c \in Controllers |-> 0],
                 windows |-> {}, state |-> [o \in Ops |-> "none"]]

(* load() of a missing file: the fresh document is persisted before use. *)
Init ==
  /\ up = TRUE
  /\ mem = EmptyJournal
  /\ disk = EmptyJournal
  /\ queue = <<>>
  /\ writing = None
  /\ fault = FALSE
  /\ job = [o \in Ops |-> "none"]
  /\ now = 1
  /\ crashes = 0
  /\ ident = [o \in Ops |-> None]
  /\ owner = [w \in Windows |-> None]
  /\ expires = [w \in Windows |-> 0]
  /\ written = {}
  /\ issued = {}
  /\ ran = [o \in Ops |-> "no"]
  /\ withdrawn = {}

-----------------------------------------------------------------------------
(* Operators on a document. *)

LiveOps(j) == {o \in Ops : j.state[o] \in Live}

(* Wrong variant: an expired window goes even under live work. *)
PrunableAny(j) == {w \in j.windows : expires[w] + RetryGrace <= now}

(* prune(): an expired window plus its grace goes, with its receipts, unless *)
(* one of its operations is still live.                                      *)
Prunable(j) == {w \in j.windows : /\ expires[w] + RetryGrace <= now
                                  /\ \A o \in LiveOps(j) : ident[o].window # w}

Prune(j) ==
  [j EXCEPT !.windows = @ \ Prunable(j),
            !.state = [o \in Ops |-> IF @[o] # "none" /\ ident[o].window \in Prunable(j)
                                       THEN "none" ELSE @[o]]]

(* Wrong variant: a restart loses every receipt, not only the live ones. *)
RecoverAll(j) ==
  [j EXCEPT !.state = [o \in Ops |-> IF @[o] # "none" THEN "unknown" ELSE @[o]]]

(* load(): a restart is not permission to run a saved intent. *)
Recover(j) ==
  [j EXCEPT !.state = [o \in Ops |-> IF @[o] \in Live THEN "unknown" ELSE @[o]]]

(* authorize(), the part that depends on the document and the clock. *)
Authorized(j, c) == j.enabled /\ j.grants[c] > now

(* failPending(): withdrawing authority fails the intents not yet dispatched. *)
Withdrawn(j, cs) == {o \in Ops : j.state[o] = "accepted" /\ ident[o].who \in cs}
(* Wrong variants: the intents survive; dispatched work is failed as well. *)
FailNothing(j, cs) == j
FailLive(j, cs) ==
  [j EXCEPT !.state = [o \in Ops |-> IF @[o] \in Live /\ ident[o].who \in cs THEN "failed" ELSE @[o]]]

FailPending(j, cs) ==
  [j EXCEPT !.state = [o \in Ops |-> IF o \in Withdrawn(j, cs) THEN "failed" ELSE @[o]]]

(* Wrong variant: a retry looks only for work in progress. *)
ExistingLive(j, t) == {o \in Ops : /\ j.state[o] \in Live
                                   /\ ident[o].who = t.who
                                   /\ ident[o].window = t.window
                                   /\ ident[o].key = t.key}

(* The receipts a retry under the same window, key and controller would find. *)
Existing(j, t) == {o \in Ops : /\ j.state[o] # "none"
                               /\ ident[o].who = t.who
                               /\ ident[o].window = t.window
                               /\ ident[o].key = t.key}

(* transaction(): a terminal receipt never changes. *)
LegalChange(old, new) ==
  \A o \in Ops : old.state[o] \in Terminal /\ new.state[o] # "none"
                   => new.state[o] = old.state[o]

SetState(j, o, s) == [j EXCEPT !.state[o] = s]

-----------------------------------------------------------------------------
(* Calls that put a transaction on the chain. *)

Submit(t) == queue' = Append(queue, t)
Room == up /\ Len(queue) < MaxQueue

idle == <<up, mem, disk, writing, fault, now, crashes, idVars, ran, withdrawn>>

(* windows.create and sessions.send / sessions.create, any number of times: *)
(* a client that saw no answer retries with the key it used before.         *)
RequestWindow(c) ==
  /\ Room /\ ~fault /\ Authorized(mem, c)
  /\ Submit([kind |-> "window", who |-> c])
  /\ UNCHANGED <<idle, job>>

Request(c, w, k, p) ==
  /\ Room /\ ~fault /\ Authorized(mem, c)
  /\ Submit([kind |-> "admit", who |-> c, window |-> w, key |-> k, payload |-> p])
  /\ UNCHANGED <<idle, job>>

SetEnabled(b) ==
  /\ Room
  /\ Submit([kind |-> "enable", on |-> b])
  /\ UNCHANGED <<idle, job>>

(* grant() reads the snapshot first, which a storage fault refuses. *)
Grant(c, until) ==
  /\ Room /\ ~fault /\ until > now
  /\ Submit([kind |-> "grant", who |-> c, until |-> until])
  /\ UNCHANGED <<idle, job>>

(* revoke() names one grant: a replacement made meanwhile is not touched. *)
Revoke(c) ==
  /\ Room /\ mem.grants[c] > 0
  /\ Submit([kind |-> "revoke", who |-> c, until |-> mem.grants[c]])
  /\ UNCHANGED <<idle, job>>

(* execute(): everything runControlled or createControlled checks before     *)
(* dispatch passes, and beforeDispatch asks the journal for the intent ...   *)
JobAsksDispatch(o) ==
  /\ up /\ job[o] = "ready"
  /\ job' = [job EXCEPT ![o] = "dispatching"]
  /\ Submit([kind |-> "dispatch", op |-> o])
  /\ UNCHANGED idle

(* ... or one of those checks throws (busy session, changed project, stop).  *)
JobAborts(o) ==
  /\ up /\ job[o] = "ready"
  /\ job' = [job EXCEPT ![o] = "abandoning"]
  /\ Submit([kind |-> "abandon", op |-> o])
  /\ UNCHANGED idle

(* The turn ends; an uncertain one is reported unknown whatever it did. *)
RunEnds(o, outcome) ==
  /\ up /\ job[o] = "running"
  /\ ran' = [ran EXCEPT ![o] = outcome]
  /\ job' = [job EXCEPT ![o] = "settling"]
  /\ \E reported \in {outcome, "unknown"} :
       Submit([kind |-> "settle", op |-> o, outcome |-> reported])
  /\ UNCHANGED <<up, mem, disk, writing, fault, now, crashes, idVars, withdrawn>>

(* runControlled throws after the dispatch: a barrier write or a disposal failed. *)
RunThrows(o, outcome) ==
  /\ up /\ job[o] = "running"
  /\ ran' = [ran EXCEPT ![o] = outcome]
  /\ job' = [job EXCEPT ![o] = "abandoning"]
  /\ Submit([kind |-> "abandon", op |-> o])
  /\ UNCHANGED <<up, mem, disk, writing, fault, now, crashes, idVars, withdrawn>>

-----------------------------------------------------------------------------
(* ControlJournal.transaction: the head computes its change on a pruned      *)
(* snapshot. `writing` is then on its way to the disk and no reader sees it. *)

Ready(kinds) == up /\ writing = None /\ queue # <<>> /\ Head(queue).kind \in kinds
Propose(j) == LegalChange(mem, j) /\ writing' = j
begun == <<up, mem, disk, queue, fault, job, now, crashes, written, issued, ran, withdrawn>>

MinOf(a, b) == IF a < b THEN a ELSE b

BeginWindow ==
  /\ Ready({"window"})
  /\ LET t == Head(queue)
         j == Prune(mem)
     IN \E w \in Windows \ issued :
          /\ Authorized(j, t.who)
          /\ Propose([j EXCEPT !.windows = @ \cup {w}])
          /\ owner' = [owner EXCEPT ![w] = t.who]
          /\ expires' = [expires EXCEPT ![w] = MinOf(now + WindowLife, j.grants[t.who])]
  /\ UNCHANGED <<begun, ident>>

(* A retry finds its receipt even in an expired window, until it is pruned. *)
BeginAdmit ==
  /\ Ready({"admit"})
  /\ LET t == Head(queue)
         j == Prune(mem)
     IN /\ Authorized(j, t.who)
        /\ t.window \in j.windows /\ owner[t.window] = t.who
        /\ \/ /\ Existing(j, t) # {}
              /\ \A o \in Existing(j, t) : ident[o].payload = t.payload
              /\ Propose(j)
              /\ UNCHANGED ident
           \/ /\ Existing(j, t) = {}
              /\ expires[t.window] > now
              /\ \E o \in Ops \ written :
                   /\ Propose(SetState(j, o, "accepted"))
                   /\ ident' = [ident EXCEPT ![o] = [who |-> t.who, window |-> t.window,
                                                    key |-> t.key, payload |-> t.payload]]
  /\ UNCHANGED <<begun, owner, expires>>

(* Which controllers an owner call takes authority from, and the call itself. *)
Loses(j, t) ==
  CASE t.kind = "enable" -> IF t.on THEN {} ELSE Controllers
    [] t.kind = "grant"  -> {t.who}
    [] t.kind = "revoke" -> IF j.grants[t.who] = t.until THEN {t.who} ELSE {}

OwnerChange(j, t) ==
  CASE t.kind = "enable" -> [j EXCEPT !.enabled = t.on]
    [] t.kind = "grant"  -> [j EXCEPT !.grants[t.who] = t.until]
    [] t.kind = "revoke" -> [j EXCEPT !.grants[t.who] = IF @ = t.until THEN 0 ELSE @]

BeginOwnerCall ==
  /\ Ready({"enable", "grant", "revoke"})
  /\ LET t == Head(queue)
         j == Prune(mem)
     IN Propose(FailPending(OwnerChange(j, t), Loses(j, t)))
  /\ UNCHANGED <<begun, ident, owner, expires>>

(* Authorization and dispatch intent commit together. *)
BeginDispatch ==
  /\ Ready({"dispatch"})
  /\ LET o == Head(queue).op
         j == Prune(mem)
     IN /\ Authorized(j, ident[o].who)
        /\ j.state[o] = "accepted"
        /\ Propose(SetState(j, o, "dispatched"))
  /\ UNCHANGED <<begun, ident, owner, expires>>

BeginSettle ==
  /\ Ready({"settle"})
  /\ LET t == Head(queue)
         j == Prune(mem)
     IN j.state[t.op] \in Live /\ Propose(SetState(j, t.op, t.outcome))
  /\ UNCHANGED <<begun, ident, owner, expires>>

(* Wrong variant: the catch takes every error for a failure. *)
BeginAbandonFails ==
  /\ Ready({"abandon"})
  /\ LET o == Head(queue).op
         j == Prune(mem)
     IN Propose(IF j.state[o] \in Live THEN SetState(j, o, "failed") ELSE j)
  /\ UNCHANGED <<begun, ident, owner, expires>>

(* The catch of execute(): decided on the document, never on a stale snapshot. *)
BeginAbandon ==
  /\ Ready({"abandon"})
  /\ LET o == Head(queue).op
         j == Prune(mem)
     IN Propose(CASE j.state[o] = "accepted"   -> SetState(j, o, "failed")
                  [] j.state[o] = "dispatched" -> SetState(j, o, "unknown")
                  [] OTHER -> j)
  /\ UNCHANGED <<begun, ident, owner, expires>>

-----------------------------------------------------------------------------
(* The end of a transaction. *)

(* The persist succeeded: the rename put the document on disk, then memory follows. *)
Committed ==
  /\ up /\ writing # None
  /\ mem' = writing /\ disk' = writing /\ writing' = None
  /\ written' = written \cup {o \in Ops : writing.state[o] # "none"}
  /\ issued' = issued \cup writing.windows
  /\ UNCHANGED <<up, fault, now, crashes, ident, owner, expires>>

CommitWindow ==
  /\ Committed /\ Head(queue).kind = "window"
  /\ queue' = Tail(queue)
  /\ UNCHANGED <<job, ran, withdrawn>>

(* Wrong variant: the receipt is answered and its job never starts. *)
CommitAdmitOnly ==
  /\ Committed /\ Head(queue).kind = "admit"
  /\ queue' = Tail(queue)
  /\ UNCHANGED <<job, ran, withdrawn>>

(* Only a fresh operation starts a job. *)
CommitAdmit ==
  /\ Committed /\ Head(queue).kind = "admit"
  /\ queue' = Tail(queue)
  /\ job' = [o \in Ops |-> IF writing.state[o] # "none" /\ o \notin written
                            THEN "ready" ELSE job[o]]
  /\ UNCHANGED <<ran, withdrawn>>

CommitOwnerCall ==
  /\ Committed /\ Head(queue).kind \in {"enable", "grant", "revoke"}
  /\ queue' = Tail(queue)
  /\ withdrawn' = withdrawn \cup Withdrawn(mem, Loses(mem, Head(queue)))
  /\ UNCHANGED <<job, ran>>

(* Wrong variant: the grant is not looked at again once the intent is durable. *)
CommitDispatchUnchecked ==
  /\ Committed /\ Head(queue).kind = "dispatch"
  /\ ran' = [ran EXCEPT ![Head(queue).op] = "running"]
  /\ job' = [job EXCEPT ![Head(queue).op] = "running"]
  /\ queue' = Tail(queue)
  /\ UNCHANGED withdrawn

(* No await separates the second authorize() from adapter.send: the          *)
(* continuation runs in the microtasks of the commit, before the next        *)
(* transaction's file write can finish.                                      *)
CommitDispatch ==
  /\ Committed /\ Head(queue).kind = "dispatch"
  /\ LET o == Head(queue).op
     IN \/ /\ ~fault /\ Authorized(writing, ident[o].who)
           /\ ran' = [ran EXCEPT ![o] = "running"]
           /\ job' = [job EXCEPT ![o] = "running"]
           /\ queue' = Tail(queue)
        \/ /\ job' = [job EXCEPT ![o] = "abandoning"]   \* refused, or the lease was cancelled
           /\ queue' = Append(Tail(queue), [kind |-> "abandon", op |-> o])
           /\ UNCHANGED ran
  /\ UNCHANGED withdrawn

CommitReceipt ==
  /\ Committed /\ Head(queue).kind \in {"settle", "abandon"}
  /\ queue' = Tail(queue)
  /\ job' = [job EXCEPT ![Head(queue).op] = "done"]
  /\ UNCHANGED <<ran, withdrawn>>

(* Wrong variant: an outcome that cannot be written is dropped. *)
BouncedDropsOutcome ==
  LET t == Head(queue)
  IN CASE t.kind = "dispatch" ->
            /\ job' = [job EXCEPT ![t.op] = "abandoning"]
            /\ queue' = Append(Tail(queue), [kind |-> "abandon", op |-> t.op])
            /\ UNCHANGED fault
       [] t.kind = "abandon" ->
            /\ job' = [job EXCEPT ![t.op] = "dead"]
            /\ queue' = Tail(queue)
            /\ fault' = TRUE
       [] OTHER -> queue' = Tail(queue) /\ UNCHANGED <<job, fault>>

(* The transaction rejects: its caller's catch runs. A job whose receipt     *)
(* cannot be written at all takes the whole service out of use.              *)
Bounced ==
  LET t == Head(queue)
  IN CASE t.kind \in {"dispatch", "settle"} ->
            /\ job' = [job EXCEPT ![t.op] = "abandoning"]
            /\ queue' = Append(Tail(queue), [kind |-> "abandon", op |-> t.op])
            /\ UNCHANGED fault
       [] t.kind = "abandon" ->
            /\ job' = [job EXCEPT ![t.op] = "dead"]
            /\ queue' = Tail(queue)
            /\ fault' = TRUE
       [] OTHER -> queue' = Tail(queue) /\ UNCHANGED <<job, fault>>

(* The change throws. Unknown projects, lapsed principals and schema limits  *)
(* make refusal possible for every call except the two that only record.     *)
Reject ==
  /\ Ready({"window", "admit", "grant", "dispatch", "settle"})
  /\ Head(queue).kind = "settle" => Prune(mem).state[Head(queue).op] \notin Live
  /\ Bounced
  /\ UNCHANGED <<up, mem, disk, writing, now, crashes, idVars, ran, withdrawn>>

(* writeJson throws before the rename: disk and memory keep the old document. *)
PersistFails ==
  /\ up /\ writing # None
  /\ writing' = None
  /\ Bounced
  /\ UNCHANGED <<up, mem, disk, now, crashes, idVars, ran, withdrawn>>

-----------------------------------------------------------------------------
(* The process dies at any point: the write in flight may have been renamed  *)
(* into place or not. What a running turn did is then known to nobody.       *)
Crash ==
  /\ up /\ crashes < MaxCrashes
  /\ up' = FALSE /\ crashes' = crashes + 1
  /\ disk' \in {disk} \cup ({writing} \ {None})
  /\ mem' = disk' /\ queue' = <<>> /\ writing' = None /\ fault' = FALSE
  /\ written' = written \cup {o \in Ops : disk'.state[o] # "none"}
  /\ issued' = issued \cup disk'.windows
  /\ job' = [o \in Ops |-> "none"]
  /\ ran' = [o \in Ops |-> IF ran[o] = "running" THEN "unknown" ELSE ran[o]]
  /\ UNCHANGED <<now, ident, owner, expires, withdrawn>>

(* load(): recover, prune and persist before anything is served. *)
Load ==
  /\ ~up /\ up' = TRUE
  /\ mem' = Prune(Recover(disk))
  /\ disk' = mem'
  /\ UNCHANGED <<queue, writing, fault, job, now, crashes, idVars, ran, withdrawn>>

Tick ==
  /\ now < MaxTime /\ now' = now + 1
  /\ UNCHANGED <<up, journalVars, fault, job, crashes, idVars, ran, withdrawn>>

Call == \/ \E c \in Controllers : RequestWindow(c) \/ Revoke(c)
        \/ \E c \in Controllers, until \in 1..MaxTime : Grant(c, until)
        \/ \E c \in Controllers, w \in Windows, k \in Keys, p \in Payloads : Request(c, w, k, p)
        \/ \E b \in BOOLEAN : SetEnabled(b)
JobStep == \E o \in Ops : JobAsksDispatch(o) \/ JobAborts(o)
TurnEnd == \E o \in Ops, outcome \in Outcomes : RunEnds(o, outcome) \/ RunThrows(o, outcome)
JournalStep ==
  \/ BeginWindow \/ BeginAdmit \/ BeginOwnerCall \/ BeginDispatch \/ BeginSettle \/ BeginAbandon
  \/ CommitWindow \/ CommitAdmit \/ CommitOwnerCall \/ CommitDispatch \/ CommitReceipt
  \/ Reject \/ PersistFails

Next == Call \/ JobStep \/ TurnEnd \/ JournalStep \/ Crash \/ Load \/ Tick

Spec == Init /\ [][Next]_vars

(* The chain drains, jobs move and the receipts get written. Turns, owner    *)
(* and controller calls, crashes and restarts happen as they like.           *)
Fairness == WF_vars(JobStep) /\ WF_vars(JournalStep)
FairSpec == Spec /\ Fairness

-----------------------------------------------------------------------------
(* Properties. *)

(* One idempotency key of one admission window starts at most one turn, for  *)
(* ever: across retries, pruned receipts, failed writes and restarts.        *)
OncePerKey ==
  \A a, b \in Ops :
    /\ ran[a] # "no" /\ ran[b] # "no"
    /\ ident[a].who = ident[b].who
    /\ ident[a].window = ident[b].window
    /\ ident[a].key = ident[b].key
    => a = b

(* While a turn runs, the disk says it was dispatched, so a crash at any     *)
(* moment leaves evidence; pruning and cancellation never touch it.          *)
RunningIsRecorded ==
  \A o \in Ops : ran[o] = "running" =>
    /\ up /\ disk.state[o] = "dispatched"
    /\ writing # None => writing.state[o] = "dispatched"

(* What a durable receipt says of the work is what the work was: success and *)
(* interruption are never guessed, and "failed" is never said of a turn that *)
(* did something else.                                                       *)
HonestReceipts ==
  \A o \in Ops :
    /\ disk.state[o] \in {"succeeded", "interrupted"} => ran[o] = disk.state[o]
    /\ disk.state[o] = "failed" => ran[o] \in {"no", "failed"}
    /\ disk.state[o] = "accepted" => ran[o] = "no"

(* An intent whose authority the owner withdrew before its dispatch never    *)
(* runs, even if the controller is granted access again at once.             *)
WithdrawnNeverRuns == \A o \in withdrawn : ran[o] = "no"

(* What is written of an operation and what it did agree, whatever is lost   *)
(* in a crash, canceled or pruned: every turn is on record while it runs, no  *)
(* receipt claims another outcome than the work's, and what was withdrawn is  *)
(* not done.                                                                 *)
ReceiptsAreTrue == RunningIsRecorded /\ HonestReceipts /\ WithdrawnNeverRuns

(* A terminal receipt on disk never changes its answer, over a restart too:  *)
(* it stays, or it is pruned for good.                                       *)
ReceiptsAreFinal ==
  [][\A o \in Ops : disk.state[o] \in Terminal => disk'.state[o] \in {disk.state[o], "none"}]_vars

(* A turn starts only in a step at which the durable document dispatches it  *)
(* and still authorises its controller.                                      *)
StartsAuthorized ==
  [][\A o \in Ops : ran[o] = "no" /\ ran'[o] # "no" =>
       /\ disk'.state[o] = "dispatched"
       /\ Authorized(disk', ident'[o].who)]_vars

(* An accepted operation does not hang: it is dispatched or given a receipt, *)
(* unless the process dies or the storage fault ends the service.            *)
AcceptedIsDecided ==
  \A o \in Ops : (up /\ mem.state[o] = "accepted")
                    ~> (~up \/ fault \/ mem.state[o] # "accepted")

(* A turn that ended gets its terminal receipt. *)
EndedIsRecorded ==
  \A o \in Ops : (up /\ job[o] \in {"settling", "abandoning"})
                    ~> (~up \/ fault \/ mem.state[o] \notin Live)

(* No operation is left in the middle: neither before its dispatch, whatever *)
(* bounced or cancelled it, nor after its turn.                              *)
OperationsAreSettled == AcceptedIsDecided /\ EndedIsRecorded

-----------------------------------------------------------------------------
(* The journal, the jobs and the crashes together implement the ledger.      *)

Receipt == [o \in Ops |-> IF disk.state[o] # "none" THEN disk.state[o]
                          ELSE IF o \in written THEN "forgotten" ELSE "none"]

Ledger == INSTANCE OperationLedger WITH receipt <- Receipt, work <- ran

(* Every behaviour of the control domain is one the ledger allows. *)
ImplementsLedger == Ledger!Spec
=============================================================================
