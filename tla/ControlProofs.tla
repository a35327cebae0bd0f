---------------------------- MODULE ControlProofs ----------------------------
(***************************************************************************)
(* Proofs about Control, for every set of controllers, windows, keys,      *)
(* payloads and operations and every bound: first typing and facts of the  *)
(* operators on documents, then its inductive invariant with one lemma per *)
(* action and what follows from it, and last that it implements            *)
(* OperationLedger, with the action properties of receipts and starts.     *)
(***************************************************************************)
EXTENDS ControlInv, SequenceTheorems, TLAPS

-----------------------------------------------------------------------------
(* The operators on a document. *)

(* What a member of Journals is made of. *)
LEMMA JournalFields ==
  ASSUME NEW j \in Journals
  PROVE  /\ j.enabled \in BOOLEAN
         /\ j.grants \in [Controllers -> Nat]
         /\ j.windows \subseteq Windows
         /\ j.state \in [Ops -> States]
BY DEF Journals

(* What a transaction's fields are, by its kind. *)
LEMMA TxnFields ==
  ASSUME NEW t \in Txns
  PROVE  /\ t.kind \in {"window", "admit", "enable", "grant", "revoke",
                        "dispatch", "settle", "abandon"}
         /\ t.kind \in {"window", "admit", "grant", "revoke"} => t.who \in Controllers
         /\ t.kind = "admit" => t.window \in Windows /\ t.key \in Keys /\ t.payload \in Payloads
         /\ t.kind \in {"grant", "revoke"} => t.until \in Nat
         /\ t.kind = "enable" => t.on \in BOOLEAN
         /\ t.kind \in OpKinds => t.op \in Ops
         /\ t.kind = "settle" => t.outcome \in Outcomes
BY DEF Txns, OpKinds, Outcomes, Terminal

(* Pruning (journal.ts prune) yields a document, drops whole windows with    *)
(* their receipts, and never drops an operation that is still live.          *)
LEMMA PruneFacts ==
  ASSUME NEW j \in Journals
  PROVE  /\ Prune(j) \in Journals
         /\ Prune(j).enabled = j.enabled
         /\ Prune(j).grants = j.grants
         /\ Prune(j).windows = j.windows \ Prunable(j)
         /\ Prunable(j) \subseteq j.windows
         /\ \A o \in Ops : Prune(j).state[o] =
              IF j.state[o] # "none" /\ ident[o].window \in Prunable(j) THEN "none" ELSE j.state[o]
         /\ \A o \in Ops : j.state[o] \in Live => ident[o].window \notin Prunable(j)
BY DEF Prune, Prunable, Journals, States, LiveOps

LEMMA RecoverFacts ==
  ASSUME NEW j \in Journals
  PROVE  /\ Recover(j) \in Journals
         /\ Recover(j).windows = j.windows
         /\ \A o \in Ops : Recover(j).state[o] = IF j.state[o] \in Live THEN "unknown" ELSE j.state[o]
BY DEF Recover, Journals, States, Live, Terminal

LEMMA SetStateFacts ==
  ASSUME NEW j \in Journals, NEW o \in Ops, NEW s \in States
  PROVE  /\ SetState(j, o, s) \in Journals
         /\ SetState(j, o, s).enabled = j.enabled
         /\ SetState(j, o, s).grants = j.grants
         /\ SetState(j, o, s).windows = j.windows
         /\ SetState(j, o, s).state[o] = s
         /\ \A p \in Ops : p # o => SetState(j, o, s).state[p] = j.state[p]
BY DEF SetState, Journals

(* An owner call changes the switch or one grant, and its failPending fails  *)
(* exactly the accepted intents of the controllers that lose authority.      *)
LEMMA OwnerFacts ==
  ASSUME NEW j \in Journals, NEW t \in Txns, t.kind \in {"enable", "grant", "revoke"}
  PROVE  LET n == FailPending(OwnerChange(j, t), Loses(j, t))
         IN /\ n \in Journals
            /\ n.windows = j.windows
            /\ \A o \in Ops : n.state[o] =
                 IF o \in Withdrawn(j, Loses(j, t)) THEN "failed" ELSE j.state[o]
<1>1. /\ OwnerChange(j, t) \in Journals
      /\ OwnerChange(j, t).windows = j.windows
      /\ OwnerChange(j, t).state = j.state
  BY TxnFields DEF OwnerChange, Journals
<1>2. Withdrawn(OwnerChange(j, t), Loses(j, t)) = Withdrawn(j, Loses(j, t))
  BY <1>1 DEF Withdrawn
<1>. QED
  BY <1>1, <1>2 DEF FailPending, Journals, States, Terminal

-----------------------------------------------------------------------------
(* Type correctness. *)

LEMMA InitTypeOK == Init => TypeOK
<1> SUFFICES ASSUME Init PROVE TypeOK
  OBVIOUS
<1>1. EmptyJournal \in Journals
  BY DEF EmptyJournal, Journals, States
<1>2. up \in BOOLEAN /\ fault \in BOOLEAN
  BY DEF Init
<1>3. queue \in Seq(Txns)
  BY EmptySeq DEF Init
<1>4. /\ job \in [Ops -> JobStates]
      /\ ran \in [Ops -> RanStates]
      /\ ident \in [Ops -> Identity \cup {None}]
      /\ owner \in [Windows -> Controllers \cup {None}]
      /\ expires \in [Windows -> Nat]
  BY DEF Init, JobStates, RanStates
<1>. QED
  BY <1>1, <1>2, <1>3, <1>4 DEF Init, TypeOK

(* The four shapes a queue takes. *)
LEMMA AppendTyped ==
  ASSUME queue \in Seq(Txns), NEW t \in Txns
  PROVE  Append(queue, t) \in Seq(Txns)
OBVIOUS

LEMMA HeadTailTyped ==
  ASSUME queue \in Seq(Txns), queue # <<>>
  PROVE  /\ Head(queue) \in Txns
         /\ Tail(queue) \in Seq(Txns)
         /\ \A t \in Txns : Append(Tail(queue), t) \in Seq(Txns)
OBVIOUS

(* The document is untouched by the steps that only move the queue. *)
LEMMA BouncedTyped ==
  ASSUME TypeOK, queue # <<>>, Bounced
  PROVE  queue' \in Seq(Txns) /\ fault' \in BOOLEAN /\ job' \in [Ops -> JobStates]
<1> DEFINE t == Head(queue)
<1>1. t \in Txns /\ Tail(queue) \in Seq(Txns)
  BY HeadTailTyped DEF TypeOK
<1>2. CASE t.kind \in {"dispatch", "settle"}
  <2>1. t.op \in Ops
    BY <1>1, <1>2, TxnFields DEF OpKinds
  <2>2. [kind |-> "abandon", op |-> t.op] \in Txns
    BY <2>1 DEF Txns
  <2>3. /\ job' = [job EXCEPT ![t.op] = "abandoning"]
        /\ queue' = Append(Tail(queue), [kind |-> "abandon", op |-> t.op])
        /\ UNCHANGED fault
    BY <1>2 DEF Bounced
  <2>. QED
    BY <1>1, <2>1, <2>2, <2>3, HeadTailTyped DEF TypeOK, JobStates
<1>3. CASE t.kind = "abandon"
  BY <1>1, <1>3 DEF Bounced, TypeOK, JobStates
<1>4. CASE t.kind \notin {"dispatch", "settle", "abandon"}
  BY <1>1, <1>4 DEF Bounced, TypeOK
<1>. QED
  BY <1>2, <1>3, <1>4

(* Every step keeps the types. *)
LEMMA NextTypeOK == TypeOK /\ Durable /\ [Next]_vars => TypeOK'
<1> SUFFICES ASSUME TypeOK, Durable, [Next]_vars PROVE TypeOK'
  OBVIOUS
<1> USE DEF idVars, journalVars
<1>1. ASSUME NEW c \in Controllers, RequestWindow(c) PROVE TypeOK'
  <2>1. [kind |-> "window", who |-> c] \in Txns
    BY DEF Txns
  <2>. QED
    BY <1>1, <2>1 DEF RequestWindow, Submit, idle, TypeOK
<1>2. ASSUME NEW c \in Controllers, NEW w \in Windows, NEW k \in Keys, NEW p \in Payloads,
             Request(c, w, k, p)
      PROVE  TypeOK'
  <2>1. [kind |-> "admit", who |-> c, window |-> w, key |-> k, payload |-> p] \in Txns
    BY DEF Txns
  <2>. QED
    BY <1>2, <2>1 DEF Request, Submit, idle, TypeOK
<1>3. ASSUME NEW b \in BOOLEAN, SetEnabled(b) PROVE TypeOK'
  <2>1. [kind |-> "enable", on |-> b] \in Txns
    BY DEF Txns
  <2>. QED
    BY <1>3, <2>1 DEF SetEnabled, Submit, idle, TypeOK
<1>4. ASSUME NEW c \in Controllers, NEW until \in 1..MaxTime, Grant(c, until) PROVE TypeOK'
  <2>1. [kind |-> "grant", who |-> c, until |-> until] \in Txns
    BY ControlAssumption DEF Txns
  <2>. QED
    BY <1>4, <2>1 DEF Grant, Submit, idle, TypeOK
<1>5. ASSUME NEW c \in Controllers, Revoke(c) PROVE TypeOK'
  <2>1. [kind |-> "revoke", who |-> c, until |-> mem.grants[c]] \in Txns
    BY JournalFields DEF Txns, TypeOK
  <2>. QED
    BY <1>5, <2>1 DEF Revoke, Submit, idle, TypeOK
<1>6. ASSUME NEW o \in Ops, JobAsksDispatch(o) PROVE TypeOK'
  <2>1. [kind |-> "dispatch", op |-> o] \in Txns
    BY DEF Txns
  <2>. QED
    BY <1>6, <2>1 DEF JobAsksDispatch, Submit, idle, TypeOK, JobStates
<1>7. ASSUME NEW o \in Ops, JobAborts(o) PROVE TypeOK'
  <2>1. [kind |-> "abandon", op |-> o] \in Txns
    BY DEF Txns
  <2>. QED
    BY <1>7, <2>1 DEF JobAborts, Submit, idle, TypeOK, JobStates
<1>8. ASSUME NEW o \in Ops, NEW outcome \in Outcomes, RunEnds(o, outcome) PROVE TypeOK'
  <2>1. \A r \in {outcome, "unknown"} : [kind |-> "settle", op |-> o, outcome |-> r] \in Txns
    BY DEF Txns, Outcomes, Terminal
  <2>. QED
    BY <1>8, <2>1 DEF RunEnds, Submit, TypeOK, JobStates, RanStates
<1>9. ASSUME NEW o \in Ops, NEW outcome \in Outcomes, RunThrows(o, outcome) PROVE TypeOK'
  <2>1. [kind |-> "abandon", op |-> o] \in Txns
    BY DEF Txns
  <2>. QED
    BY <1>9, <2>1 DEF RunThrows, Submit, TypeOK, JobStates, RanStates
<1>10. CASE BeginWindow
  <2> DEFINE t == Head(queue)
             j == Prune(mem)
  <2>1. j \in Journals /\ t.who \in Controllers /\ j.grants[t.who] \in Nat
    BY <1>10, PruneFacts, HeadTailTyped, TxnFields, JournalFields DEF BeginWindow, Ready, TypeOK
  <2>2. PICK w \in Windows \ issued :
          /\ writing' = [j EXCEPT !.windows = @ \cup {w}]
          /\ owner' = [owner EXCEPT ![w] = t.who]
          /\ expires' = [expires EXCEPT ![w] = MinOf(now + WindowLife, j.grants[t.who])]
    BY <1>10 DEF BeginWindow, Propose
  <2>3. writing' \in Journals
    BY <2>1, <2>2 DEF Journals
  <2>4. MinOf(now + WindowLife, j.grants[t.who]) \in Nat
    BY <2>1, ControlAssumption DEF MinOf, TypeOK
  <2>. QED
    BY <1>10, <2>1, <2>2, <2>3, <2>4 DEF BeginWindow, begun, TypeOK
<1>11. CASE BeginAdmit
  <2> DEFINE t == Head(queue)
             j == Prune(mem)
  <2>1. j \in Journals
    BY PruneFacts DEF TypeOK
  <2>2. /\ t.who \in Controllers /\ t.window \in Windows
        /\ t.key \in Keys /\ t.payload \in Payloads
    BY <1>11, HeadTailTyped, TxnFields DEF BeginAdmit, Ready, TypeOK
  <2>3. [who |-> t.who, window |-> t.window, key |-> t.key, payload |-> t.payload] \in Identity
    BY <2>2 DEF Identity
  <2>4. \A o \in Ops : SetState(j, o, "accepted") \in Journals
    BY <2>1, SetStateFacts DEF States, Live
  <2>5. \/ writing' = j /\ UNCHANGED ident
        \/ \E o \in Ops : /\ writing' = SetState(j, o, "accepted")
                          /\ ident' = [ident EXCEPT ![o] = [who |-> t.who, window |-> t.window,
                                                            key |-> t.key, payload |-> t.payload]]
    BY <1>11 DEF BeginAdmit, Propose
  <2>6. writing' \in Journals
    BY <2>1, <2>4, <2>5
  <2>7. ident' \in [Ops -> Identity \cup {None}]
    BY <2>3, <2>5 DEF TypeOK
  <2>. QED
    BY <1>11, <2>6, <2>7 DEF BeginAdmit, begun, TypeOK
<1>12. CASE BeginOwnerCall
  <2>1. writing' = FailPending(OwnerChange(Prune(mem), Head(queue)), Loses(Prune(mem), Head(queue)))
    BY <1>12 DEF BeginOwnerCall, Propose
  <2>2. writing' \in Journals
    BY <1>12, <2>1, PruneFacts, OwnerFacts, HeadTailTyped DEF BeginOwnerCall, Ready, TypeOK
  <2>. QED
    BY <1>12, <2>2 DEF BeginOwnerCall, begun, TypeOK
<1>13. CASE BeginDispatch
  <2>1. Head(queue).op \in Ops
    BY <1>13, HeadTailTyped, TxnFields DEF BeginDispatch, Ready, TypeOK, OpKinds
  <2>2. writing' \in Journals
    BY <1>13, <2>1, PruneFacts, SetStateFacts
    DEF BeginDispatch, Propose, TypeOK, States, Live
  <2>. QED
    BY <1>13, <2>2 DEF BeginDispatch, begun, TypeOK
<1>14. CASE BeginSettle
  <2>1. Head(queue).op \in Ops /\ Head(queue).outcome \in States
    BY <1>14, HeadTailTyped, TxnFields
    DEF BeginSettle, Ready, TypeOK, OpKinds, Outcomes, States
  <2>2. writing' \in Journals
    BY <1>14, <2>1, PruneFacts, SetStateFacts DEF BeginSettle, Propose, TypeOK
  <2>. QED
    BY <1>14, <2>2 DEF BeginSettle, begun, TypeOK
<1>15. CASE BeginAbandon
  <2>1. Head(queue).op \in Ops
    BY <1>15, HeadTailTyped, TxnFields DEF BeginAbandon, Ready, TypeOK, OpKinds
  <2>2. writing' \in {Prune(mem), SetState(Prune(mem), Head(queue).op, "failed"),
                      SetState(Prune(mem), Head(queue).op, "unknown")}
    BY <1>15 DEF BeginAbandon, Propose
  <2>3. writing' \in Journals
    BY <2>1, <2>2, PruneFacts, SetStateFacts DEF TypeOK, States, Terminal
  <2>. QED
    BY <1>15, <2>3 DEF BeginAbandon, begun, TypeOK
<1>16. ASSUME Committed
       PROVE  /\ queue # <<>> /\ Head(queue) \in Txns /\ Tail(queue) \in Seq(Txns)
              /\ up' \in BOOLEAN /\ mem' \in Journals /\ disk' \in Journals
              /\ writing' \in Journals \cup {None}
              /\ fault' \in BOOLEAN /\ now' \in Nat /\ crashes' \in Nat
              /\ ident' \in [Ops -> Identity \cup {None}]
              /\ owner' \in [Windows -> Controllers \cup {None}]
              /\ expires' \in [Windows -> Nat]
              /\ written' \subseteq Ops /\ issued' \subseteq Windows
  BY <1>16, HeadTailTyped, JournalFields DEF Committed, Durable, TypeOK
<1>17. CASE CommitWindow
  BY <1>17, <1>16 DEF CommitWindow, TypeOK
<1>18. CASE CommitAdmit
  <2>1. job' \in [Ops -> JobStates]
    BY <1>18 DEF CommitAdmit, TypeOK, JobStates
  <2>. QED
    BY <1>18, <1>16, <2>1 DEF CommitAdmit, TypeOK
<1>19. CASE CommitOwnerCall
  BY <1>19, <1>16 DEF CommitOwnerCall, Withdrawn, TypeOK
<1>20. CASE CommitDispatch
  <2>1. Head(queue).op \in Ops
    BY <1>20, <1>16, TxnFields DEF CommitDispatch, OpKinds
  <2>2. [kind |-> "abandon", op |-> Head(queue).op] \in Txns
    BY <2>1 DEF Txns
  <2>3. queue' \in Seq(Txns)
    <3>1. \/ queue' = Tail(queue)
          \/ queue' = Append(Tail(queue), [kind |-> "abandon", op |-> Head(queue).op])
      BY <1>20 DEF CommitDispatch
    <3>2. queue # <<>> /\ queue \in Seq(Txns)
      BY <1>20, <1>16 DEF CommitDispatch, TypeOK
    <3>. QED
      BY <2>2, <3>1, <3>2, HeadTailTyped
  <2>4. job' \in [Ops -> JobStates] /\ ran' \in [Ops -> RanStates]
    BY <1>20, <2>1 DEF CommitDispatch, TypeOK, JobStates, RanStates
  <2>. QED
    BY <1>20, <1>16, <2>3, <2>4 DEF CommitDispatch, TypeOK
<1>21. CASE CommitReceipt
  <2>1. job' \in [Ops -> JobStates]
    BY <1>21 DEF CommitReceipt, TypeOK, JobStates
  <2>. QED
    BY <1>21, <1>16, <2>1 DEF CommitReceipt, TypeOK
<1>22. CASE Reject
  BY <1>22, BouncedTyped DEF Reject, Ready, TypeOK
<1>23. CASE PersistFails
  BY <1>23, BouncedTyped DEF PersistFails, Durable, TypeOK
<1>24. CASE Crash
  <2>1. disk' \in Journals
    BY <1>24 DEF Crash, TypeOK
  <2>2. written' \subseteq Ops /\ issued' \subseteq Windows
    BY <1>24, <2>1, JournalFields DEF Crash, TypeOK
  <2>3. job' \in [Ops -> JobStates] /\ ran' \in [Ops -> RanStates]
    BY <1>24 DEF Crash, TypeOK, JobStates, RanStates, Outcomes, Terminal
  <2>4. up' \in BOOLEAN /\ fault' \in BOOLEAN
    BY <1>24 DEF Crash
  <2>5. queue' \in Seq(Txns)
    BY <1>24, EmptySeq DEF Crash
  <2>. QED
    BY <1>24, <2>1, <2>2, <2>3, <2>4, <2>5 DEF Crash, TypeOK
<1>25. CASE Load
  BY <1>25, PruneFacts, RecoverFacts DEF Load, TypeOK
<1>26. CASE Tick
  BY <1>26 DEF Tick, TypeOK
<1>27. CASE UNCHANGED vars
  BY <1>27 DEF vars, TypeOK
<1>. QED
  BY <1>1, <1>2, <1>3, <1>4, <1>5, <1>6, <1>7, <1>8, <1>9, <1>10, <1>11, <1>12, <1>13, <1>14,
     <1>15, <1>17, <1>18, <1>19, <1>20, <1>21, <1>22, <1>23, <1>24, <1>25, <1>26, <1>27
  DEF Next, Call, JobStep, TurnEnd, JournalStep

-----------------------------------------------------------------------------
(* The inductive invariant of Control and what follows from it. *)

(* The promise chain. *)

(* A call that belongs to no job leaves every job's entry where it was. *)
LEMMA QueueCall ==
  ASSUME queue \in Seq(Txns), QueueOK, NEW t \in Txns, t.kind \notin OpKinds,
         queue' = Append(queue, t), UNCHANGED <<job, ran>>
  PROVE  QueueOK'
BY DEF QueueOK, OpKinds

(* A job that waits for nothing may put one entry on the chain. *)
LEMMA QueueJobAsks ==
  ASSUME queue \in Seq(Txns), QueueOK, NEW t \in Txns, t.kind \in OpKinds,
         \A i \in 1..Len(queue) : queue[i].kind \in OpKinds => queue[i].op # t.op,
         queue' = Append(queue, t),
         \A o \in Ops : o # t.op => job'[o] = job[o] /\ ran'[o] = ran[o],
         t.kind = "dispatch" => job'[t.op] = "dispatching",
         t.kind = "abandon" => job'[t.op] = "abandoning",
         t.kind = "settle" => job'[t.op] = "settling" /\ t.outcome \in {ran'[t.op], "unknown"}
  PROVE  QueueOK'
BY TxnFields DEF QueueOK, OpKinds

(* The head leaves, with whatever becomes of the job it belonged to. *)
LEMMA QueueTail ==
  ASSUME queue \in Seq(Txns), queue # <<>>, QueueOK, queue' = Tail(queue),
         \A i \in 2..Len(queue) : queue[i].kind \in OpKinds =>
            job'[queue[i].op] = job[queue[i].op] /\ ran'[queue[i].op] = ran[queue[i].op]
  PROVE  QueueOK'
BY DEF QueueOK, OpKinds

(* The head leaves and its job puts another entry at the end. *)
LEMMA QueueRotate ==
  ASSUME queue \in Seq(Txns), queue # <<>>, QueueOK, NEW t \in Txns,
         queue' = Append(Tail(queue), t),
         Head(queue).kind \in OpKinds, t.kind = "abandon", t.op = Head(queue).op,
         job'[t.op] = "abandoning",
         \A o \in Ops : o # t.op => job'[o] = job[o] /\ ran'[o] = ran[o]
  PROVE  QueueOK'
BY TxnFields DEF QueueOK, OpKinds

-----------------------------------------------------------------------------
(* Pruning under the invariant. *)

(* A pruned document still pairs each receipt with its window, and differs   *)
(* from the disk only by terminal receipts that are gone.                    *)
LEMMA PruneCoherent ==
  ASSUME TypeOK, WindowsOK
  PROVE  /\ \A o \in Ops : Prune(disk).state[o] # disk.state[o]
                             => disk.state[o] \in Terminal /\ Prune(disk).state[o] = "none"
         /\ \A o \in Ops : disk.state[o] \in Live => Prune(disk).state[o] = disk.state[o]
         /\ \A o \in written :
              Prune(disk).state[o] # "none" <=> ident[o].window \in Prune(disk).windows
         /\ Prune(disk).windows \subseteq disk.windows
<1>1. disk \in Journals /\ disk.state \in [Ops -> States]
  BY JournalFields DEF TypeOK
<1>2. /\ \A o \in Ops : Prune(disk).state[o] =
           IF disk.state[o] # "none" /\ ident[o].window \in Prunable(disk)
             THEN "none" ELSE disk.state[o]
      /\ \A o \in Ops : disk.state[o] \in Live => ident[o].window \notin Prunable(disk)
      /\ Prune(disk).windows = disk.windows \ Prunable(disk)
  BY <1>1, PruneFacts
<1>3. \A o \in written :
        Prune(disk).state[o] # "none" <=> ident[o].window \in Prune(disk).windows
  BY <1>2 DEF WindowsOK, TypeOK
<1>. QED
  BY <1>1, <1>2, <1>3 DEF States

(* The intents an owner call cancels are the same on the pruned document. *)
LEMMA PruneWithdrawn ==
  ASSUME TypeOK, WindowsOK, NEW t \in Txns, t.kind \in {"enable", "grant", "revoke"}
  PROVE  Withdrawn(Prune(disk), Loses(Prune(disk), t)) = Withdrawn(disk, Loses(disk, t))
<1>1. Loses(Prune(disk), t) = Loses(disk, t)
  BY PruneFacts DEF Loses, TypeOK
<1>2. \A o \in Ops : Prune(disk).state[o] = "accepted" <=> disk.state[o] = "accepted"
  BY PruneCoherent DEF Live, Terminal
<1>. QED
  BY <1>1, <1>2 DEF Withdrawn

-----------------------------------------------------------------------------
(* The document being written. *)

(* While a turn runs, no transaction moves its receipt: neither its own job  *)
(* (it waits for the turn), nor the owner, nor pruning.                      *)
LEMMA RunningStays ==
  ASSUME IInv, NEW o \in Ops, ran[o] = "running", writing # None
  PROVE  writing.state[o] = "dispatched"
<1> DEFINE t == Head(queue)
<1>1. /\ disk.state[o] = "dispatched" /\ job[o] = "running" /\ o \in written
  BY DEF IInv, JobOK
<1>2. queue # <<>> /\ t \in Txns /\ t = queue[1] /\ 1 \in 1..Len(queue)
  BY HeadTailTyped DEF IInv, Durable, TypeOK
<1>3. ~Decided(t, o)
  BY <1>1, <1>2 DEF Decided, IInv, QueueOK, OpKinds, Live
<1>4. ~Canceled(t, o) /\ ~Fresh(t, o)
  BY <1>1 DEF Canceled, Fresh, Withdrawn
<1>5. Effect(t, o)
  BY DEF IInv, WritingOK
<1>. QED
  BY <1>1, <1>3, <1>4, <1>5 DEF Effect, Terminal

-----------------------------------------------------------------------------
(* Frames: what a step leaves alone keeps the conjuncts that mention it.     *)

LEMMA WritingFrame ==
  ASSUME WritingOK, UNCHANGED <<writing, disk, written, issued, ident>>,
         writing # None => Head(queue') = Head(queue)
  PROVE  WritingOK'
BY DEF WritingOK, Effect, Fresh, Canceled, Decided, SameKey, Withdrawn, Loses

LEMMA LedgerFrame ==
  ASSUME JobOK, HonestReceipts, WindowsOK, WithdrawnOK,
         UNCHANGED <<disk, ran, job, ident, written, issued, withdrawn>>
  PROVE  JobOK' /\ HonestReceipts' /\ WindowsOK' /\ WithdrawnOK'
BY DEF JobOK, HonestReceipts, WindowsOK, WithdrawnOK, SameKey

(* Appending keeps the head. *)
LEMMA AppendHead ==
  ASSUME queue \in Seq(Txns), NEW t \in Txns, Durable, queue' = Append(queue, t)
  PROVE  writing # None => Head(queue') = Head(queue)
BY DEF Durable

(* A call of the owner or of a controller. *)
LEMMA CallKeeps ==
  ASSUME IInv, NEW t \in Txns, t.kind \notin OpKinds, up, Submit(t), UNCHANGED <<idle, job>>, TypeOK'
  PROVE  IInv'
<1>1. Durable'
  <2>1. /\ up' /\ UNCHANGED <<mem, disk, writing>>
        /\ queue' = Append(queue, t) /\ queue \in Seq(Txns)
    BY DEF IInv, Submit, idle, idVars, TypeOK
  <2>. QED
    BY <2>1 DEF IInv, Durable
<1>2. QueueOK'
  BY QueueCall DEF IInv, Submit, idle, TypeOK
<1>3. JobOK' /\ HonestReceipts' /\ WindowsOK' /\ WithdrawnOK'
  BY LedgerFrame DEF IInv, idle, idVars
<1>4. WritingOK'
  BY AppendHead, WritingFrame DEF IInv, Submit, idle, idVars, TypeOK
<1>. QED
  BY <1>1, <1>2, <1>3, <1>4 DEF IInv

(* A job that moves on and asks the journal for something. *)
LEMMA JobKeeps ==
  ASSUME IInv, NEW t \in Txns, t.kind \in OpKinds, up, Submit(t), TypeOK',
         job[t.op] \in {"ready", "running"},
         job' = [job EXCEPT ![t.op] = CASE t.kind = "dispatch" -> "dispatching"
                                        [] t.kind = "settle" -> "settling"
                                        [] OTHER -> "abandoning"],
         UNCHANGED <<up, mem, disk, writing, ident, written, issued, withdrawn>>,
         \/ job[t.op] = "ready" /\ t.kind # "settle" /\ UNCHANGED ran
         \/ /\ job[t.op] = "running" /\ t.kind # "dispatch"
            /\ \E x \in Outcomes : /\ ran' = [ran EXCEPT ![t.op] = x]
                                   /\ t.kind = "settle" => t.outcome \in {x, "unknown"}
  PROVE  IInv'
<1>1. t.op \in Ops
  BY TxnFields
<1>2. /\ \A o \in Ops : o # t.op => job'[o] = job[o] /\ ran'[o] = ran[o]
      /\ t.kind = "dispatch" => job'[t.op] = "dispatching"
      /\ t.kind = "abandon" => job'[t.op] = "abandoning"
      /\ t.kind = "settle" => job'[t.op] = "settling" /\ t.outcome \in {ran'[t.op], "unknown"}
  BY <1>1 DEF IInv, TypeOK
<1>3. ran'[t.op] \in {"no"} \cup Outcomes /\ (ran'[t.op] # "no" <=> job[t.op] = "running")
  BY <1>1 DEF IInv, JobOK, TypeOK, Outcomes, Terminal
<1>4. Durable'
  BY DEF IInv, Durable, Submit, TypeOK
<1>5. QueueOK'
  <2>1. \A i \in 1..Len(queue) : queue[i].kind \in OpKinds => queue[i].op # t.op
    BY DEF IInv, QueueOK, OpKinds
  <2>. QED
    BY <1>2, <2>1, QueueJobAsks DEF IInv, Submit, TypeOK
<1>6. JobOK'
  BY <1>1, <1>2, <1>3 DEF IInv, JobOK, OpKinds, Outcomes, Terminal
<1>7. HonestReceipts'
  BY <1>1, <1>2, <1>3 DEF IInv, HonestReceipts, JobOK
<1>8. WindowsOK'
  BY DEF IInv, WindowsOK, SameKey
<1>9. WithdrawnOK'
  BY <1>1, <1>2, <1>3 DEF IInv, WithdrawnOK, JobOK, Live, TypeOK
<1>10. WritingOK'
  BY AppendHead, WritingFrame DEF IInv, Submit, TypeOK
<1>. QED
  BY <1>4, <1>5, <1>6, <1>7, <1>8, <1>9, <1>10 DEF IInv

-----------------------------------------------------------------------------
(* The head transaction computes the document it will persist.               *)

(* Such a step disturbs WritingOK alone: it may give an id nobody used its   *)
(* attributes, and no other conjunct speaks of such an id.                   *)
LEMMA BeginKeeps ==
  ASSUME IInv, TypeOK', up, queue # <<>>, UNCHANGED begun,
         \A o \in written : ident'[o] = ident[o],
         WritingOK'
  PROVE  IInv'
<1> USE DEF begun
<1>1. Durable' /\ QueueOK' /\ JobOK' /\ HonestReceipts' /\ WithdrawnOK'
  BY DEF IInv, Durable, QueueOK, JobOK, HonestReceipts, WithdrawnOK
<1>2. WindowsOK'
  BY DEF IInv, WindowsOK, SameKey
<1>. QED
  BY <1>1, <1>2 DEF IInv

(* What every one of these steps knows.                                      *)
LEMMA BeginFacts ==
  ASSUME IInv, writing = None, queue # <<>>
  PROVE  /\ mem = disk /\ disk \in Journals /\ Prune(disk) \in Journals
         /\ Head(queue) \in Txns
         /\ \A o \in Ops : disk.state[o] \in {"none"} \cup Live \cup Terminal
         /\ \A o \in Ops \ written : disk.state[o] = "none"
         /\ written \subseteq Ops
BY PruneFacts, HeadTailTyped, JournalFields DEF IInv, Durable, TypeOK, JobOK, States

LEMMA BeginWindowKeeps == IInv /\ TypeOK' /\ BeginWindow => IInv'
<1> SUFFICES ASSUME IInv, TypeOK', BeginWindow PROVE IInv'
  OBVIOUS
<1> DEFINE j == Prune(disk)
<1>1. writing = None /\ queue # <<>> /\ up /\ Head(queue).kind = "window"
  BY DEF BeginWindow, Ready
<1>2. PICK w \in Windows \ issued : writing' = [j EXCEPT !.windows = @ \cup {w}]
  BY <1>1, BeginFacts DEF BeginWindow, Propose
<1>3. writing'.state = j.state /\ writing'.windows = j.windows \cup {w}
  BY <1>1, <1>2, BeginFacts DEF Journals
<1>4. UNCHANGED begun /\ UNCHANGED ident
  BY DEF BeginWindow
<1>5. WritingOK'
  <2>1. \A o \in Ops : Effect(Head(queue), o)'
    BY <1>3, <1>4, PruneCoherent DEF IInv, Effect, begun
  <2>2. \A o \in written : writing'.state[o] # "none" <=> ident[o].window \in writing'.windows
    BY <1>2, <1>3, PruneCoherent DEF IInv, WindowsOK
  <2>3. writing'.windows \cap issued \subseteq disk.windows
    BY <1>2, <1>3, PruneCoherent DEF IInv
  <2>4. \A o \in Ops \ written : writing'.state[o] = "none"
    BY <1>1, <1>3, BeginFacts, PruneCoherent DEF IInv, Terminal
  <2>. QED
    BY <1>1, <1>4, <2>1, <2>2, <2>3, <2>4 DEF WritingOK, begun
<1>. QED
  BY <1>1, <1>4, <1>5, BeginKeeps DEF IInv, TypeOK

LEMMA BeginAdmitKeeps == IInv /\ TypeOK' /\ BeginAdmit => IInv'
<1> SUFFICES ASSUME IInv, TypeOK', BeginAdmit PROVE IInv'
  OBVIOUS
<1> DEFINE j == Prune(disk)
           t == Head(queue)
<1>1. writing = None /\ queue # <<>> /\ up /\ t.kind = "admit"
  BY DEF BeginAdmit, Ready
<1>2. UNCHANGED begun /\ t.window \in j.windows
  BY <1>1, BeginFacts DEF BeginAdmit
<1>3. CASE writing' = j /\ UNCHANGED ident
  <2>1. WritingOK'
    <3>1. \A o \in Ops : Effect(t, o)'
      BY <1>2, <1>3, PruneCoherent DEF IInv, Effect, begun
    <3>2. \A o \in Ops \ written : writing'.state[o] = "none"
      BY <1>1, <1>3, BeginFacts, PruneCoherent DEF IInv, Terminal
    <3>. QED
      BY <1>1, <1>2, <1>3, <3>1, <3>2, PruneCoherent DEF IInv, WritingOK, begun
  <2>. QED
    BY <1>1, <1>2, <1>3, <2>1, BeginKeeps DEF IInv, TypeOK
<1>4. CASE /\ Existing(j, t) = {}
           /\ \E o \in Ops \ written :
                /\ writing' = SetState(j, o, "accepted")
                /\ ident' = [ident EXCEPT ![o] = [who |-> t.who, window |-> t.window,
                                                 key |-> t.key, payload |-> t.payload]]
  <2>1. PICK o \in Ops \ written :
          /\ writing' = SetState(j, o, "accepted")
          /\ ident' = [ident EXCEPT ![o] = [who |-> t.who, window |-> t.window,
                                           key |-> t.key, payload |-> t.payload]]
    BY <1>4
  <2>2. /\ writing'.state[o] = "accepted" /\ writing'.windows = j.windows
        /\ \A p \in Ops : p # o => writing'.state[p] = j.state[p]
    BY <1>1, <2>1, BeginFacts, SetStateFacts DEF States, Live
  <2>3. /\ ident'[o] = [who |-> t.who, window |-> t.window, key |-> t.key, payload |-> t.payload]
        /\ ident'[o] # None
        /\ \A p \in Ops : p # o => ident'[p] = ident[p]
    <3>1. [who |-> t.who, window |-> t.window, key |-> t.key, payload |-> t.payload] \in Identity
      BY <1>1, BeginFacts, TxnFields DEF Identity
    <3>. QED
      BY <2>1, <3>1, ControlAssumption DEF IInv, TypeOK
  <2>4. \A p \in written : p # o /\ p \in Ops
    BY <2>1 DEF IInv, TypeOK
  <2>5. t.window \in issued
    BY <1>2, PruneCoherent DEF IInv, WindowsOK
  (* A written operation with this key would have been found: its window is  *)
  (* there, so its receipt is.                                               *)
  <2>6. \A a \in written : ~SameKey(a, o)'
    <3>1. SUFFICES ASSUME NEW a \in written, SameKey(a, o)' PROVE FALSE
      OBVIOUS
    <3>2. ident[a].who = t.who /\ ident[a].window = t.window /\ ident[a].key = t.key
      BY <2>3, <2>4, <3>1 DEF SameKey
    <3>3. j.state[a] # "none"
      BY <1>2, <3>2, PruneCoherent DEF IInv
    <3>. QED
      BY <1>4, <2>4, <3>2, <3>3 DEF Existing
  <2>7. Effect(t, o)'
    BY <1>1, <1>2, <2>1, <2>2, <2>3, <2>5, <2>6 DEF Effect, Fresh, begun
  <2>8. \A p \in Ops : p # o => Effect(t, p)'
    BY <1>2, <2>2, PruneCoherent DEF IInv, Effect, begun
  <2>9. \A p \in Ops \ written : p # o => writing'.state[p] = "none"
    BY <1>1, <2>2, BeginFacts, PruneCoherent DEF IInv, Terminal
  <2>10. \A p \in written : writing'.state[p] # "none" <=> ident'[p].window \in writing'.windows
    BY <2>2, <2>3, <2>4, PruneCoherent DEF IInv
  <2>11. WritingOK'
    BY <1>1, <1>2, <2>2, <2>7, <2>8, <2>9, <2>10, PruneCoherent DEF IInv, WritingOK, begun
  <2>. QED
    BY <1>1, <1>2, <2>3, <2>4, <2>11, BeginKeeps
<1>. QED
  BY <1>1, <1>3, <1>4, BeginFacts DEF BeginAdmit, Propose

LEMMA BeginOwnerCallKeeps == IInv /\ TypeOK' /\ BeginOwnerCall => IInv'
<1> SUFFICES ASSUME IInv, TypeOK', BeginOwnerCall PROVE IInv'
  OBVIOUS
<1> DEFINE j == Prune(disk)
           t == Head(queue)
           lost == Withdrawn(disk, Loses(disk, t))
<1>1. /\ writing = None /\ queue # <<>> /\ up /\ t.kind \in {"enable", "grant", "revoke"}
      /\ UNCHANGED begun /\ UNCHANGED ident
  BY DEF BeginOwnerCall, Ready
<1>2. writing' = FailPending(OwnerChange(j, t), Loses(j, t))
  BY <1>1, BeginFacts DEF BeginOwnerCall, Propose
<1>3. /\ writing'.windows = j.windows
      /\ \A o \in Ops : writing'.state[o] = IF o \in lost THEN "failed" ELSE j.state[o]
  BY <1>1, <1>2, BeginFacts, OwnerFacts, PruneWithdrawn DEF IInv
<1>4. \A o \in lost : o \in Ops /\ disk.state[o] = "accepted" /\ o \in written
  BY <1>1, BeginFacts DEF Withdrawn
<1>5. \A o \in lost : Canceled(t, o)'
  BY <1>1, <1>3, <1>4 DEF Canceled, begun, Withdrawn, Loses
<1>6. \A o \in Ops : Effect(t, o)'
  BY <1>1, <1>3, <1>5, PruneCoherent DEF IInv, Effect, begun
<1>7. \A o \in Ops \ written : writing'.state[o] = "none"
  BY <1>1, <1>3, <1>4, BeginFacts, PruneCoherent DEF IInv, Terminal
<1>8. \A o \in written : writing'.state[o] # "none" <=> ident[o].window \in writing'.windows
  BY <1>1, <1>3, <1>4, BeginFacts, PruneCoherent DEF IInv, Live
<1>9. t.kind # "dispatch" /\ UNCHANGED <<queue, disk, written, issued>>
  BY <1>1 DEF begun
<1>10. Withdrawn(disk, Loses(disk, t))' = lost
  BY <1>1, <1>9 DEF Withdrawn, Loses
<1>11. WritingOK'
  BY <1>1, <1>3, <1>5, <1>6, <1>7, <1>8, <1>9, <1>10, PruneCoherent DEF IInv, WritingOK
<1>. QED
  BY <1>1, <1>11, BeginKeeps

(* The three transactions of a job move its own live receipt, nothing else.  *)
LEMMA BeginJobKeeps ==
  ASSUME IInv, TypeOK', up, writing = None, queue # <<>>, Head(queue).kind \in OpKinds,
         UNCHANGED begun, UNCHANGED ident,
         NEW s \in States \ {"none"},
         disk.state[Head(queue).op] \in Live,
         writing' = SetState(Prune(disk), Head(queue).op, s),
         writing'.state[Head(queue).op] = s => Decided(Head(queue), Head(queue).op)'
  PROVE  IInv'
<1> DEFINE j == Prune(disk)
           t == Head(queue)
<1>1. t.op \in Ops /\ j \in Journals
  BY BeginFacts, TxnFields
<1>2. /\ writing'.windows = j.windows
      /\ writing'.state[t.op] = s
      /\ \A o \in Ops : o # t.op => writing'.state[o] = j.state[o]
  BY <1>1, SetStateFacts
<1>3. t.op \in written /\ j.state[t.op] = disk.state[t.op] /\ disk.state[t.op] # "none"
  BY <1>1, BeginFacts, PruneCoherent DEF IInv, Live
<1>4. \A o \in Ops : Effect(t, o)'
  BY <1>2, PruneCoherent DEF IInv, Effect, begun
<1>5. \A o \in Ops \ written : writing'.state[o] = "none"
  BY <1>2, <1>3, BeginFacts, PruneCoherent DEF IInv, Terminal
<1>6. \A o \in written : writing'.state[o] # "none" <=> ident[o].window \in writing'.windows
  BY <1>2, <1>3, BeginFacts, PruneCoherent DEF IInv
<1>7. t.kind \notin {"enable", "grant", "revoke"} /\ UNCHANGED <<queue, disk, written, issued>>
  BY DEF OpKinds, begun
<1>8. WritingOK'
  BY <1>2, <1>4, <1>5, <1>6, <1>7, PruneCoherent DEF IInv, WritingOK
<1>. QED
  BY <1>8, BeginKeeps

LEMMA BeginDispatchKeeps == IInv /\ TypeOK' /\ BeginDispatch => IInv'
<1> SUFFICES ASSUME IInv, TypeOK', BeginDispatch PROVE IInv'
  OBVIOUS
<1> DEFINE o == Head(queue).op
<1>1. /\ writing = None /\ queue # <<>> /\ up /\ Head(queue).kind = "dispatch"
      /\ UNCHANGED begun /\ UNCHANGED ident
  BY DEF BeginDispatch, Ready
<1>2. o \in Ops
  BY <1>1, BeginFacts, TxnFields DEF OpKinds
<1>3. Prune(disk).state[o] = "accepted" /\ writing' = SetState(Prune(disk), o, "dispatched")
  BY <1>1, BeginFacts DEF BeginDispatch, Propose
<1>4. disk.state[o] = "accepted"
  BY <1>2, <1>3, PruneCoherent DEF IInv
<1>5. writing'.state[o] = "dispatched" => Decided(Head(queue), o)'
  BY <1>1, <1>4 DEF Decided, begun, OpKinds
<1>. QED
  BY <1>1, <1>3, <1>4, <1>5, BeginJobKeeps DEF OpKinds, States, Live

LEMMA BeginSettleKeeps == IInv /\ TypeOK' /\ BeginSettle => IInv'
<1> SUFFICES ASSUME IInv, TypeOK', BeginSettle PROVE IInv'
  OBVIOUS
<1> DEFINE t == Head(queue)
<1>1. /\ writing = None /\ queue # <<>> /\ up /\ t.kind = "settle"
      /\ UNCHANGED begun /\ UNCHANGED ident
  BY DEF BeginSettle, Ready
<1>2. t.op \in Ops /\ t.outcome \in States \ {"none"}
  BY <1>1, BeginFacts, TxnFields DEF OpKinds, States, Outcomes, Terminal
<1>3. Prune(disk).state[t.op] \in Live /\ writing' = SetState(Prune(disk), t.op, t.outcome)
  BY <1>1, BeginFacts DEF BeginSettle, Propose
<1>4. disk.state[t.op] \in Live
  BY <1>2, <1>3, PruneCoherent DEF IInv, Live
<1>5. writing'.state[t.op] = t.outcome => Decided(t, t.op)'
  BY <1>1, <1>4 DEF Decided, begun, OpKinds
<1>. QED
  BY <1>1, <1>2, <1>3, <1>4, <1>5, BeginJobKeeps DEF OpKinds

LEMMA BeginAbandonKeeps == IInv /\ TypeOK' /\ BeginAbandon => IInv'
<1> SUFFICES ASSUME IInv, TypeOK', BeginAbandon PROVE IInv'
  OBVIOUS
<1> DEFINE t == Head(queue)
           j == Prune(disk)
<1>1. /\ writing = None /\ queue # <<>> /\ up /\ t.kind = "abandon"
      /\ UNCHANGED begun /\ UNCHANGED ident
  BY DEF BeginAbandon, Ready
<1>2. t.op \in Ops
  BY <1>1, BeginFacts, TxnFields DEF OpKinds
<1>3. writing' = CASE j.state[t.op] = "accepted"   -> SetState(j, t.op, "failed")
                   [] j.state[t.op] = "dispatched" -> SetState(j, t.op, "unknown")
                   [] OTHER -> j
  BY <1>1, BeginFacts DEF BeginAbandon, Propose
<1>4. CASE j.state[t.op] = "accepted"
  <2>1. disk.state[t.op] = "accepted"
    BY <1>2, <1>4, PruneCoherent DEF IInv
  <2>2. writing' = SetState(j, t.op, "failed")
    BY <1>3, <1>4
  <2>3. writing'.state[t.op] = "failed" => Decided(t, t.op)'
    BY <1>1, <2>1 DEF Decided, begun, OpKinds
  <2>. QED
    BY <1>1, <2>1, <2>2, <2>3, BeginJobKeeps DEF OpKinds, States, Terminal, Live
<1>5. CASE j.state[t.op] = "dispatched"
  <2>1. disk.state[t.op] = "dispatched"
    BY <1>2, <1>5, PruneCoherent DEF IInv
  <2>2. writing' = SetState(j, t.op, "unknown")
    BY <1>3, <1>5
  <2>3. writing'.state[t.op] = "unknown" => Decided(t, t.op)'
    BY <1>1, <2>1 DEF Decided, begun, OpKinds
  <2>. QED
    BY <1>1, <2>1, <2>2, <2>3, BeginJobKeeps DEF OpKinds, States, Terminal, Live
<1>6. CASE j.state[t.op] \notin {"accepted", "dispatched"}
  <2>1. writing' = j
    BY <1>3, <1>6
  <2>2. \A o \in Ops : Effect(t, o)'
    BY <1>1, <2>1, PruneCoherent DEF IInv, Effect, begun
  <2>3. \A o \in Ops \ written : writing'.state[o] = "none"
    BY <1>1, <2>1, BeginFacts, PruneCoherent DEF IInv, Terminal
  <2>4. WritingOK'
    BY <1>1, <2>1, <2>2, <2>3, PruneCoherent DEF IInv, WritingOK, begun
  <2>. QED
    BY <1>1, <2>4, BeginKeeps
<1>. QED
  BY <1>4, <1>5, <1>6

-----------------------------------------------------------------------------
(* The document reaches the disk, whether or not the process lives to see it. *)

(* What its receipts then claim is still true of the work.                   *)
LEMMA LandedHonest ==
  ASSUME IInv, writing # None, NEW o \in Ops
  PROVE  /\ writing.state[o] \in {"succeeded", "interrupted"} => ran[o] = writing.state[o]
         /\ writing.state[o] = "failed" => ran[o] \in {"no", "failed"}
         /\ writing.state[o] = "accepted" => ran[o] = "no"
<1> DEFINE t == Head(queue)
<1>1. queue # <<>> /\ t \in Txns /\ t = queue[1] /\ 1 \in 1..Len(queue)
  BY HeadTailTyped DEF IInv, Durable, TypeOK
<1>2. CASE writing.state[o] = disk.state[o]
  BY <1>2 DEF IInv, HonestReceipts
<1>3. CASE writing.state[o] = "none"
  BY <1>3
<1>4. CASE Fresh(t, o)
  <2>1. writing.state[o] = "accepted" /\ o \notin written
    BY <1>4 DEF Fresh
  <2>. QED
    BY <2>1 DEF IInv, JobOK
<1>5. CASE Canceled(t, o)
  <2>1. writing.state[o] = "failed" /\ disk.state[o] = "accepted"
    BY <1>5 DEF Canceled, Withdrawn
  <2>. QED
    BY <2>1 DEF IInv, HonestReceipts
<1>6. CASE Decided(t, o)
  <2>1. CASE t.kind = "settle"
    <3>1. writing.state[o] \in {ran[o], "unknown"} /\ ran[o] \in Outcomes
      BY <1>1, <1>6, <2>1 DEF Decided, IInv, QueueOK, JobOK
    <3>. QED
      BY <3>1 DEF Outcomes, Terminal
  <2>2. CASE t.kind # "settle"
    BY <1>6, <2>2 DEF Decided, IInv, HonestReceipts
  <2>. QED
    BY <2>1, <2>2
<1>7. Effect(t, o)
  BY DEF IInv, WritingOK
<1>. QED
  BY <1>2, <1>3, <1>4, <1>5, <1>6, <1>7 DEF Effect

(* What was withdrawn stays decided: nothing revives a receipt.              *)
LEMMA LandedWithdrawn ==
  ASSUME IInv, writing # None, NEW o \in withdrawn
  PROVE  writing.state[o] \notin Live
<1> DEFINE t == Head(queue)
<1>1. o \in Ops /\ o \in written /\ disk.state[o] \notin Live
  BY DEF IInv, WithdrawnOK, TypeOK
<1>2. Effect(t, o)
  BY <1>1 DEF IInv, WritingOK
<1>3. ~Fresh(t, o) /\ ~Canceled(t, o) /\ ~Decided(t, o)
  BY <1>1 DEF Fresh, Canceled, Decided, Withdrawn, Live
<1>. QED
  BY <1>1, <1>2, <1>3 DEF Effect, Live

(* Windows, receipts and keys stay paired.                                   *)
LEMMA LandedWindows ==
  ASSUME IInv, writing # None, disk' = writing, UNCHANGED ident,
         written' = written \cup {o \in Ops : writing.state[o] # "none"},
         issued' = issued \cup writing.windows
  PROVE  WindowsOK'
<1> DEFINE t == Head(queue)
<1>1. \A o \in Ops \ written : writing.state[o] # "none" => Fresh(t, o)
  <2>1. SUFFICES ASSUME NEW o \in Ops \ written, writing.state[o] # "none" PROVE Fresh(t, o)
    OBVIOUS
  <2>2. disk.state[o] = "none"
    BY DEF IInv, JobOK
  <2>3. Effect(t, o) /\ ~Canceled(t, o) /\ ~Decided(t, o)
    BY <2>2 DEF IInv, WritingOK, Canceled, Withdrawn, Decided, Live
  <2>. QED
    BY <2>1, <2>2, <2>3 DEF Effect, Terminal
<1>2. \A o \in written' : ident[o] # None /\ ident[o].window \in issued
  BY <1>1 DEF IInv, WindowsOK, Fresh
<1>3. \A o \in written' : writing.state[o] # "none" <=> ident[o].window \in writing.windows
  BY <1>1 DEF IInv, WritingOK, Fresh
<1>4. \A a, b \in written' : SameKey(a, b) => a = b
  <2>1. SUFFICES ASSUME NEW a \in written', NEW b \in written', SameKey(a, b) PROVE a = b
    OBVIOUS
  <2>2. SameKey(b, a)
    BY <2>1 DEF SameKey
  <2>3. a \in written => b \in written
    BY <1>1, <2>1 DEF Fresh
  <2>4. b \in written => a \in written
    BY <1>1, <2>2 DEF Fresh
  <2>. QED
    BY <2>1, <2>3, <2>4 DEF IInv, WindowsOK, WritingOK
<1>. QED
  BY <1>2, <1>3, <1>4 DEF WindowsOK, SameKey

-----------------------------------------------------------------------------
(* The end of a transaction. *)

LEMMA CommitFacts ==
  ASSUME IInv, Committed
  PROVE  /\ queue # <<>> /\ queue \in Seq(Txns) /\ Head(queue) \in Txns
         /\ Head(queue) = queue[1] /\ 1 \in 1..Len(queue)
         /\ writing \in Journals /\ writing # None
         /\ Durable' /\ WritingOK' /\ WindowsOK'
         /\ written \subseteq written' /\ disk' = writing
         /\ \A o \in Ops : writing.state[o] # "none" => o \in written'
<1>1. /\ queue # <<>> /\ queue \in Seq(Txns) /\ Head(queue) \in Txns
      /\ Head(queue) = queue[1] /\ 1 \in 1..Len(queue)
  BY HeadTailTyped DEF IInv, Committed, Durable, TypeOK
<1>2. writing \in Journals /\ writing # None /\ up'
  BY DEF IInv, Committed, TypeOK
<1>3. Durable' /\ WritingOK'
  BY <1>2 DEF Committed, Durable, WritingOK
<1>4. WindowsOK'
  BY <1>2, LandedWindows DEF Committed
<1>. QED
  BY <1>1, <1>2, <1>3, <1>4 DEF Committed

(* A commit that starts no turn and moves no job keeps what receipts claim.  *)
LEMMA CommitLedger ==
  ASSUME IInv, Committed, UNCHANGED ran
  PROVE  /\ HonestReceipts'
         /\ \A o \in Ops : ran'[o] = "running" => disk'.state[o] = "dispatched"
         /\ \A o \in Ops : ran'[o] # "no" \/ disk'.state[o] # "none" => o \in written'
         /\ \A o \in withdrawn : o \in written' /\ ran'[o] = "no" /\ disk'.state[o] \notin Live
<1>1. HonestReceipts'
  BY CommitFacts, LandedHonest DEF HonestReceipts
<1>2. \A o \in Ops : ran'[o] = "running" => disk'.state[o] = "dispatched"
  BY CommitFacts, RunningStays
<1>3. \A o \in Ops : ran'[o] # "no" \/ disk'.state[o] # "none" => o \in written'
  BY CommitFacts DEF IInv, JobOK
<1>4. \A o \in withdrawn : o \in written' /\ ran'[o] = "no" /\ disk'.state[o] \notin Live
  BY CommitFacts, LandedWithdrawn DEF IInv, WithdrawnOK
<1>. QED
  BY <1>1, <1>2, <1>3, <1>4

(* When the head leaves, entries of other jobs are still waited for.         *)
LEMMA CommitQueue ==
  ASSUME IInv, Committed, queue' = Tail(queue), UNCHANGED ran,
         Head(queue).kind \in OpKinds => \A o \in Ops : o # Head(queue).op => job'[o] = job[o],
         Head(queue).kind \notin OpKinds => UNCHANGED job
  PROVE  QueueOK'
<1>1. \A i \in 2..Len(queue) : queue[i].kind \in OpKinds => queue[i].op \in Ops /\ queue[i] \in Txns
  BY CommitFacts, TxnFields
<1>2. \A i \in 2..Len(queue) : queue[i].kind \in OpKinds =>
         job'[queue[i].op] = job[queue[i].op] /\ ran'[queue[i].op] = ran[queue[i].op]
  BY <1>1, CommitFacts DEF IInv, QueueOK
<1>. QED
  BY <1>2, CommitFacts, QueueTail DEF IInv

LEMMA CommitWindowKeeps == IInv /\ TypeOK' /\ CommitWindow => IInv'
<1> SUFFICES ASSUME IInv, TypeOK', CommitWindow PROVE IInv'
  OBVIOUS
<1>1. /\ Committed /\ Head(queue).kind = "window" /\ queue' = Tail(queue)
      /\ UNCHANGED <<job, ran, withdrawn>>
  BY DEF CommitWindow
<1>2. QueueOK'
  BY <1>1, CommitQueue DEF OpKinds
<1>3. JobOK'
  BY <1>1, CommitFacts, CommitLedger DEF IInv, JobOK
<1>4. WithdrawnOK'
  BY <1>1, CommitLedger DEF WithdrawnOK
<1>. QED
  BY <1>1, <1>2, <1>3, <1>4, CommitFacts, CommitLedger DEF IInv

LEMMA CommitOwnerCallKeeps == IInv /\ TypeOK' /\ CommitOwnerCall => IInv'
<1> SUFFICES ASSUME IInv, TypeOK', CommitOwnerCall PROVE IInv'
  OBVIOUS
<1> DEFINE t == Head(queue)
           lost == Withdrawn(disk, Loses(disk, t))
<1>1. /\ Committed /\ t.kind \in {"enable", "grant", "revoke"} /\ queue' = Tail(queue)
      /\ UNCHANGED <<job, ran>>
  BY DEF CommitOwnerCall
<1>2. QueueOK'
  BY <1>1, CommitQueue DEF OpKinds
<1>3. JobOK'
  BY <1>1, CommitFacts, CommitLedger DEF IInv, JobOK
<1>4. withdrawn' = withdrawn \cup lost
  BY DEF CommitOwnerCall, IInv, Durable
<1>5. \A o \in lost : o \in Ops /\ disk.state[o] = "accepted" /\ writing.state[o] = "failed"
  BY <1>1, CommitFacts DEF IInv, WritingOK, Canceled, Withdrawn
<1>6. WithdrawnOK'
  BY <1>1, <1>4, <1>5, CommitFacts, CommitLedger DEF WithdrawnOK, IInv, HonestReceipts, Live
<1>. QED
  BY <1>1, <1>2, <1>3, <1>6, CommitFacts, CommitLedger DEF IInv

LEMMA CommitAdmitKeeps == IInv /\ TypeOK' /\ CommitAdmit => IInv'
<1> SUFFICES ASSUME IInv, TypeOK', CommitAdmit PROVE IInv'
  OBVIOUS
<1>1. /\ Committed /\ Head(queue).kind = "admit" /\ queue' = Tail(queue)
      /\ UNCHANGED <<ran, withdrawn>>
      /\ \A o \in Ops : job'[o] = IF writing.state[o] # "none" /\ o \notin written
                                    THEN "ready" ELSE job[o]
  BY DEF CommitAdmit
<1>2. \A o \in Ops \ written : job[o] = "none" /\ ran[o] = "no"
  BY DEF IInv, JobOK
<1>3. QueueOK'
  <2>1. \A i \in 2..Len(queue) : queue[i].kind \in OpKinds => queue[i].op \in Ops
    BY <1>1, CommitFacts, TxnFields
  <2>2. \A i \in 2..Len(queue) : queue[i].kind \in OpKinds => job[queue[i].op] # "none"
    BY <1>1, CommitFacts DEF IInv, QueueOK, OpKinds
  <2>3. \A i \in 2..Len(queue) : queue[i].kind \in OpKinds => job'[queue[i].op] = job[queue[i].op]
    BY <1>1, <1>2, <2>1, <2>2
  <2>. QED
    BY <1>1, <2>3, CommitFacts, QueueTail DEF IInv
<1>4. JobOK'
  BY <1>1, <1>2, CommitFacts, CommitLedger DEF IInv, JobOK
<1>5. WithdrawnOK'
  BY <1>1, CommitLedger DEF WithdrawnOK
<1>. QED
  BY <1>1, <1>3, <1>4, <1>5, CommitFacts, CommitLedger DEF IInv

(* The dispatch intent is durable in the very step that starts the turn.     *)
LEMMA CommitDispatchKeeps == IInv /\ TypeOK' /\ CommitDispatch => IInv'
<1> SUFFICES ASSUME IInv, TypeOK', CommitDispatch PROVE IInv'
  OBVIOUS
<1> DEFINE t == Head(queue)
           o == t.op
<1>1. Committed /\ t.kind = "dispatch" /\ UNCHANGED withdrawn
  BY DEF CommitDispatch
<1>2. /\ o \in Ops /\ job[o] = "dispatching" /\ ran[o] = "no"
      /\ disk.state[o] = "accepted" /\ writing.state[o] = "dispatched"
  <2>1. o \in Ops
    BY <1>1, CommitFacts, TxnFields DEF OpKinds
  <2>2. Decided(t, o)
    BY <1>1, CommitFacts DEF IInv, WritingOK
  <2>. QED
    BY <1>1, <2>1, <2>2, CommitFacts DEF IInv, QueueOK, JobOK, Decided
<1>3. o \notin withdrawn
  BY <1>2 DEF IInv, WithdrawnOK, Live
<1>4. \A p \in Ops \ {o} : ran[p] = "running" => writing.state[p] = "dispatched"
  BY CommitFacts, <1>1, RunningStays
<1>5. CASE /\ ran' = [ran EXCEPT ![o] = "running"]
           /\ job' = [job EXCEPT ![o] = "running"]
           /\ queue' = Tail(queue)
  <2>1. /\ ran'[o] = "running" /\ job'[o] = "running"
        /\ \A p \in Ops : p # o => ran'[p] = ran[p] /\ job'[p] = job[p]
    BY <1>2, <1>5 DEF IInv, TypeOK
  <2>2. QueueOK'
    <3>1. \A i \in 2..Len(queue) : queue[i].kind \in OpKinds =>
             queue[i].op \in Ops /\ queue[i].op # o
      BY <1>1, CommitFacts, TxnFields DEF IInv, QueueOK, OpKinds
    <3>. QED
      BY <1>1, <1>5, <2>1, <3>1, CommitFacts, QueueTail DEF IInv
  <2>3. JobOK'
    BY <1>1, <1>2, <1>4, <2>1, CommitFacts DEF IInv, JobOK
  <2>4. HonestReceipts'
    BY <1>1, <1>2, <2>1, CommitFacts, LandedHonest DEF HonestReceipts
  <2>5. WithdrawnOK'
    BY <1>1, <1>3, <2>1, CommitFacts, LandedWithdrawn DEF IInv, WithdrawnOK, TypeOK
  <2>. QED
    BY <1>1, <2>2, <2>3, <2>4, <2>5, CommitFacts DEF IInv
<1>6. CASE /\ job' = [job EXCEPT ![o] = "abandoning"]
           /\ queue' = Append(Tail(queue), [kind |-> "abandon", op |-> o])
           /\ UNCHANGED ran
  <2>1. job'[o] = "abandoning" /\ \A p \in Ops : p # o => job'[p] = job[p]
    BY <1>2, <1>6 DEF IInv, TypeOK
  <2>2. QueueOK'
    <3>1. [kind |-> "abandon", op |-> o] \in Txns
      BY <1>2 DEF Txns
    <3>. QED
      BY <1>1, <1>6, <2>1, <3>1, CommitFacts, QueueRotate DEF IInv, OpKinds
  <2>3. JobOK'
    BY <1>1, <1>2, <1>6, <2>1, CommitFacts, CommitLedger DEF IInv, JobOK
  <2>4. WithdrawnOK'
    BY <1>1, <1>6, CommitLedger DEF WithdrawnOK
  <2>. QED
    BY <1>1, <1>6, <2>2, <2>3, <2>4, CommitFacts, CommitLedger DEF IInv
<1>. QED
  BY <1>5, <1>6 DEF CommitDispatch

LEMMA CommitReceiptKeeps == IInv /\ TypeOK' /\ CommitReceipt => IInv'
<1> SUFFICES ASSUME IInv, TypeOK', CommitReceipt PROVE IInv'
  OBVIOUS
<1> DEFINE o == Head(queue).op
<1>1. /\ Committed /\ Head(queue).kind \in {"settle", "abandon"} /\ queue' = Tail(queue)
      /\ job' = [job EXCEPT ![o] = "done"] /\ UNCHANGED <<ran, withdrawn>>
  BY DEF CommitReceipt
<1>2. o \in Ops /\ job[o] \in {"settling", "abandoning"}
  BY <1>1, CommitFacts, TxnFields DEF IInv, QueueOK, OpKinds
<1>3. job'[o] = "done" /\ \A p \in Ops : p # o => job'[p] = job[p]
  BY <1>1, <1>2 DEF IInv, TypeOK
<1>4. QueueOK'
  BY <1>1, <1>3, CommitQueue DEF OpKinds
<1>5. JobOK'
  BY <1>1, <1>2, <1>3, CommitFacts, CommitLedger DEF IInv, JobOK
<1>6. WithdrawnOK'
  BY <1>1, CommitLedger DEF WithdrawnOK
<1>. QED
  BY <1>1, <1>4, <1>5, <1>6, CommitFacts, CommitLedger DEF IInv

-----------------------------------------------------------------------------
(* A transaction that rejects. *)

LEMMA BouncedKeeps ==
  ASSUME IInv, TypeOK', up, queue # <<>>, Bounced, writing' = None,
         UNCHANGED <<up, mem, disk, ident, written, issued, ran, withdrawn>>
  PROVE  IInv'
<1> DEFINE t == Head(queue)
           o == t.op
<1>1. /\ queue \in Seq(Txns) /\ t \in Txns /\ t = queue[1] /\ 1 \in 1..Len(queue)
  BY HeadTailTyped DEF IInv, TypeOK
<1>2. Durable' /\ WritingOK'
  BY DEF IInv, Durable, WritingOK
<1>3. HonestReceipts' /\ WindowsOK' /\ WithdrawnOK'
  BY DEF IInv, HonestReceipts, WindowsOK, WithdrawnOK, SameKey
<1>4. t.kind \in OpKinds => o \in Ops /\ job[o] \in {"dispatching", "settling", "abandoning"}
  BY <1>1, TxnFields DEF IInv, QueueOK, OpKinds
<1>5. CASE t.kind \in {"dispatch", "settle"}
  <2>1. /\ job' = [job EXCEPT ![o] = "abandoning"]
        /\ queue' = Append(Tail(queue), [kind |-> "abandon", op |-> o])
    BY <1>5 DEF Bounced
  <2>2. job'[o] = "abandoning" /\ \A p \in Ops : p # o => job'[p] = job[p]
    BY <1>4, <1>5, <2>1 DEF IInv, TypeOK, OpKinds
  <2>3. [kind |-> "abandon", op |-> o] \in Txns
    BY <1>4, <1>5 DEF Txns, OpKinds
  <2>4. QueueOK'
    BY <1>1, <1>5, <2>1, <2>2, <2>3, QueueRotate DEF IInv, OpKinds
  <2>5. JobOK'
    BY <1>4, <1>5, <2>2 DEF IInv, JobOK, OpKinds
  <2>. QED
    BY <1>2, <1>3, <2>4, <2>5 DEF IInv
<1>6. CASE t.kind = "abandon"
  <2>1. job' = [job EXCEPT ![o] = "dead"] /\ queue' = Tail(queue)
    BY <1>6 DEF Bounced
  <2>2. job'[o] = "dead" /\ \A p \in Ops : p # o => job'[p] = job[p]
    BY <1>4, <1>6, <2>1 DEF IInv, TypeOK, OpKinds
  <2>3. \A i \in 2..Len(queue) : queue[i].kind \in OpKinds => queue[i].op \in Ops /\ queue[i].op # o
    BY <1>1, <1>6, TxnFields DEF IInv, QueueOK, OpKinds
  <2>4. QueueOK'
    BY <1>1, <2>1, <2>2, <2>3, QueueTail DEF IInv
  <2>5. JobOK'
    BY <1>4, <1>6, <2>2 DEF IInv, JobOK, OpKinds
  <2>. QED
    BY <1>2, <1>3, <2>4, <2>5 DEF IInv
<1>7. CASE t.kind \notin OpKinds
  <2>1. queue' = Tail(queue) /\ UNCHANGED job
    BY <1>7 DEF Bounced, OpKinds
  <2>2. QueueOK'
    BY <1>1, <2>1, QueueTail DEF IInv
  <2>3. JobOK'
    BY <2>1 DEF IInv, JobOK
  <2>. QED
    BY <1>2, <1>3, <2>2, <2>3 DEF IInv
<1>. QED
  BY <1>5, <1>6, <1>7 DEF OpKinds

-----------------------------------------------------------------------------
(* The process dies, and comes back. *)

LEMMA CrashKeeps == IInv /\ TypeOK' /\ Crash => IInv'
<1> SUFFICES ASSUME IInv, TypeOK', Crash PROVE IInv'
  OBVIOUS
<1>1. /\ ~up' /\ mem' = disk' /\ queue' = <<>> /\ writing' = None
      /\ UNCHANGED <<ident, withdrawn>>
      /\ written' = written \cup {o \in Ops : disk'.state[o] # "none"}
      /\ issued' = issued \cup disk'.windows
  BY DEF Crash
<1>2. /\ \A o \in Ops : job'[o] = "none"
      /\ \A o \in Ops : ran'[o] = IF ran[o] = "running" THEN "unknown" ELSE ran[o]
  BY DEF Crash
<1>3. disk' = disk \/ (writing # None /\ disk' = writing)
  BY DEF Crash
<1>4. Durable' /\ QueueOK' /\ WritingOK'
  BY <1>1, <1>2 DEF Durable, QueueOK, WritingOK
<1>5. JobOK'
  BY <1>1, <1>2 DEF IInv, JobOK
<1>6. HonestReceipts'
  <2>1. CASE disk' = disk
    BY <1>2, <2>1 DEF IInv, HonestReceipts, JobOK
  <2>2. CASE writing # None /\ disk' = writing
    BY <1>2, <2>2, LandedHonest, RunningStays DEF HonestReceipts
  <2>. QED
    BY <1>3, <2>1, <2>2
<1>7. WindowsOK'
  <2>1. CASE disk' = disk
    <3>1. written' = written /\ issued' = issued
      BY <1>1, <2>1 DEF IInv, JobOK, WindowsOK
    <3>. QED
      BY <1>1, <2>1, <3>1 DEF IInv, WindowsOK, SameKey
  <2>2. CASE writing # None /\ disk' = writing
    BY <1>1, <2>2, LandedWindows
  <2>. QED
    BY <1>3, <2>1, <2>2
<1>8. WithdrawnOK'
  <2>1. \A o \in withdrawn : o \in Ops /\ o \in written /\ ran[o] = "no" /\ disk.state[o] \notin Live
    BY DEF IInv, WithdrawnOK, TypeOK
  <2>. QED
    BY <1>1, <1>2, <1>3, <2>1, LandedWithdrawn DEF WithdrawnOK
<1>. QED
  BY <1>4, <1>5, <1>6, <1>7, <1>8 DEF IInv

(* Nothing runs when the journal is loaded, so "unknown" claims nothing.     *)
LEMMA LoadKeeps == IInv /\ TypeOK' /\ Load => IInv'
<1> SUFFICES ASSUME IInv, TypeOK', Load PROVE IInv'
  OBVIOUS
<1> DEFINE r == Recover(disk)
<1>1. /\ ~up /\ up' /\ mem' = disk' /\ disk' = Prune(r)
      /\ UNCHANGED <<queue, writing, job, ident, written, issued, ran, withdrawn>>
  BY DEF Load, idVars
<1>2. /\ \A o \in Ops : job[o] = "none" /\ ran[o] # "running"
      /\ queue = <<>> /\ writing = None
  BY <1>1 DEF IInv, Durable, JobOK
<1>3. /\ disk \in Journals /\ r \in Journals /\ r.windows = disk.windows
      /\ \A o \in Ops : r.state[o] = IF disk.state[o] \in Live THEN "unknown" ELSE disk.state[o]
  BY RecoverFacts DEF IInv, TypeOK
<1>4. /\ disk'.windows = disk.windows \ Prunable(r)
      /\ \A o \in Ops : disk'.state[o] =
           IF r.state[o] # "none" /\ ident[o].window \in Prunable(r) THEN "none" ELSE r.state[o]
  BY <1>1, <1>3, PruneFacts
<1>5. Durable' /\ QueueOK' /\ WritingOK'
  BY <1>1, <1>2 DEF IInv, Durable, QueueOK, WritingOK
<1>6. JobOK'
  BY <1>1, <1>2, <1>3, <1>4 DEF IInv, JobOK, Live
<1>7. HonestReceipts'
  BY <1>1, <1>3, <1>4 DEF IInv, HonestReceipts
<1>8. WindowsOK'
  <2>1. \A o \in written : o \in Ops /\ (r.state[o] # "none" <=> ident[o].window \in disk.windows)
    BY <1>3 DEF IInv, TypeOK, WindowsOK, Live
  <2>2. \A o \in written : disk'.state[o] # "none" <=> ident[o].window \in disk'.windows
    BY <1>4, <2>1
  <2>3. disk'.windows \subseteq issued
    BY <1>4 DEF IInv, WindowsOK
  <2>. QED
    BY <1>1, <2>2, <2>3 DEF IInv, WindowsOK, SameKey
<1>9. WithdrawnOK'
  BY <1>1, <1>3, <1>4 DEF IInv, WithdrawnOK, TypeOK, Live
<1>. QED
  BY <1>5, <1>6, <1>7, <1>8, <1>9 DEF IInv

LEMMA IdleKeeps ==
  ASSUME IInv, TypeOK',
         UNCHANGED <<up, journalVars, job, ident, written, issued, ran, withdrawn>>
  PROVE  IInv'
<1>1. Durable' /\ QueueOK'
  BY DEF journalVars, IInv, Durable, QueueOK
<1>2. JobOK' /\ HonestReceipts' /\ WindowsOK' /\ WithdrawnOK'
  BY LedgerFrame DEF journalVars, IInv
<1>3. WritingOK'
  BY WritingFrame DEF journalVars, IInv
<1>. QED
  BY <1>1, <1>2, <1>3 DEF IInv

-----------------------------------------------------------------------------
(* The invariant. *)

LEMMA InitIInv == Init => IInv
<1> SUFFICES ASSUME Init PROVE IInv
  OBVIOUS
<1>1. TypeOK
  BY InitTypeOK
<1>2. /\ mem = disk /\ writing = None /\ queue = <<>> /\ up
      /\ written = {} /\ issued = {} /\ withdrawn = {} /\ disk.windows = {}
      /\ \A o \in Ops : job[o] = "none" /\ ran[o] = "no" /\ disk.state[o] = "none"
  BY DEF Init, EmptyJournal
<1>3. Durable /\ QueueOK /\ WritingOK
  BY <1>2 DEF Durable, QueueOK, WritingOK
<1>4. JobOK /\ HonestReceipts /\ WindowsOK /\ WithdrawnOK
  BY <1>2 DEF JobOK, HonestReceipts, WindowsOK, WithdrawnOK
<1>. QED
  BY <1>1, <1>3, <1>4 DEF IInv

(* Every step of the control domain keeps its invariant.                     *)
LEMMA NextIInv == IInv /\ [Next]_vars => IInv'
<1> SUFFICES ASSUME IInv, [Next]_vars PROVE IInv'
  OBVIOUS
<1>0. TypeOK'
  BY NextTypeOK DEF IInv
<1>1. ASSUME NEW c \in Controllers, RequestWindow(c) PROVE IInv'
  BY <1>0, <1>1, CallKeeps, TxnFields DEF RequestWindow, Room, OpKinds, Txns
<1>2. ASSUME NEW c \in Controllers, NEW w \in Windows, NEW k \in Keys, NEW p \in Payloads,
             Request(c, w, k, p)
      PROVE  IInv'
  BY <1>0, <1>2, CallKeeps DEF Request, Room, OpKinds, Txns
<1>3. ASSUME NEW b \in BOOLEAN, SetEnabled(b) PROVE IInv'
  BY <1>0, <1>3, CallKeeps DEF SetEnabled, Room, OpKinds, Txns
<1>4. ASSUME NEW c \in Controllers, NEW until \in 1..MaxTime, Grant(c, until) PROVE IInv'
  BY <1>0, <1>4, CallKeeps, ControlAssumption DEF Grant, Room, OpKinds, Txns
<1>5. ASSUME NEW c \in Controllers, Revoke(c) PROVE IInv'
  <2>1. [kind |-> "revoke", who |-> c, until |-> mem.grants[c]] \in Txns
    BY JournalFields DEF IInv, TypeOK, Txns
  <2>. QED
    BY <1>0, <1>5, <2>1, CallKeeps DEF Revoke, Room, OpKinds
<1>6. ASSUME NEW o \in Ops, JobAsksDispatch(o) PROVE IInv'
  <2> DEFINE t == [kind |-> "dispatch", op |-> o]
  <2>1. t \in Txns /\ t.kind = "dispatch" /\ t.op = o
    BY DEF Txns
  <2>. QED
    BY <1>0, <1>6, <2>1, JobKeeps DEF JobAsksDispatch, idle, idVars, OpKinds
<1>7. ASSUME NEW o \in Ops, JobAborts(o) PROVE IInv'
  <2> DEFINE t == [kind |-> "abandon", op |-> o]
  <2>1. t \in Txns /\ t.kind = "abandon" /\ t.op = o
    BY DEF Txns
  <2>. QED
    BY <1>0, <1>7, <2>1, JobKeeps DEF JobAborts, idle, idVars, OpKinds
<1>8. ASSUME NEW o \in Ops, NEW outcome \in Outcomes, RunEnds(o, outcome) PROVE IInv'
  <2>1. PICK r \in {outcome, "unknown"} : Submit([kind |-> "settle", op |-> o, outcome |-> r])
    BY <1>8 DEF RunEnds
  <2> DEFINE t == [kind |-> "settle", op |-> o, outcome |-> r]
  <2>2. t \in Txns /\ t.kind = "settle" /\ t.op = o /\ t.outcome = r
    BY DEF Txns, Outcomes, Terminal
  <2>. QED
    BY <1>0, <1>8, <2>1, <2>2, JobKeeps DEF RunEnds, idVars, OpKinds
<1>9. ASSUME NEW o \in Ops, NEW outcome \in Outcomes, RunThrows(o, outcome) PROVE IInv'
  <2> DEFINE t == [kind |-> "abandon", op |-> o]
  <2>1. t \in Txns /\ t.kind = "abandon" /\ t.op = o
    BY DEF Txns
  <2>. QED
    BY <1>0, <1>9, <2>1, JobKeeps DEF RunThrows, idVars, OpKinds
<1>10. CASE BeginWindow \/ BeginAdmit \/ BeginOwnerCall \/ BeginDispatch \/ BeginSettle \/ BeginAbandon
  BY <1>0, <1>10, BeginWindowKeeps, BeginAdmitKeeps, BeginOwnerCallKeeps, BeginDispatchKeeps,
     BeginSettleKeeps, BeginAbandonKeeps
<1>11. CASE CommitWindow \/ CommitAdmit \/ CommitOwnerCall \/ CommitDispatch \/ CommitReceipt
  BY <1>0, <1>11, CommitWindowKeeps, CommitAdmitKeeps, CommitOwnerCallKeeps,
     CommitDispatchKeeps, CommitReceiptKeeps
<1>12. CASE Reject
  BY <1>0, <1>12, BouncedKeeps DEF Reject, Ready, idVars
<1>13. CASE PersistFails
  BY <1>0, <1>13, BouncedKeeps DEF PersistFails, idVars, IInv, Durable
<1>14. CASE Crash
  BY <1>0, <1>14, CrashKeeps
<1>15. CASE Load
  BY <1>0, <1>15, LoadKeeps
<1>16. CASE Tick
  BY <1>0, <1>16, IdleKeeps DEF Tick, idVars
<1>17. CASE UNCHANGED vars
  BY <1>0, <1>17, IdleKeeps DEF vars, journalVars
<1>. QED
  BY <1>1, <1>2, <1>3, <1>4, <1>5, <1>6, <1>7, <1>8, <1>9, <1>10, <1>11, <1>12, <1>13,
     <1>14, <1>15, <1>16, <1>17
  DEF Next, Call, JobStep, TurnEnd, JournalStep

(* The invariant holds in every reachable state, for any constants.          *)
THEOREM ControlInvariant == Spec => []IInv
<1>1. Init => IInv
  BY InitIInv
<1>2. IInv /\ [Next]_vars => IInv'
  BY NextIInv
<1>. QED
  BY <1>1, <1>2, PTL DEF Spec

-----------------------------------------------------------------------------
(* What follows from it. *)

(* The control domain's state always has its types.                          *)
THEOREM ControlTypes == Spec => []TypeOK
<1>1. IInv => TypeOK
  BY DEF IInv
<1>. QED
  BY <1>1, ControlInvariant, PTL

(* service.ts execute: while a turn runs, the durable journal says that it   *)
(* was dispatched, and so does the document being written.                   *)
THEOREM RunningRecorded == Spec => []RunningIsRecorded
<1>1. IInv => RunningIsRecorded
  BY RunningStays DEF IInv, Durable, JobOK, RunningIsRecorded
<1>. QED
  BY <1>1, ControlInvariant, PTL

(* service.ts execute and failPending: a durable receipt never claims what   *)
(* the work was not.                                                         *)
THEOREM ReceiptsHonest == Spec => []HonestReceipts
<1>1. IInv => HonestReceipts
  BY DEF IInv
<1>. QED
  BY <1>1, ControlInvariant, PTL

(* service.ts failPending: an intent cancelled with its authority never runs. *)
THEOREM WithdrawnStaysDead == Spec => []WithdrawnNeverRuns
<1>1. IInv => WithdrawnNeverRuns
  BY DEF IInv, WithdrawnOK, WithdrawnNeverRuns
<1>. QED
  BY <1>1, ControlInvariant, PTL

(* The three of them together: receipts and work agree, for any number of    *)
(* controllers, operations and crashes.                                      *)
THEOREM ReceiptsTrue == Spec => []ReceiptsAreTrue
<1>. QED
  BY RunningRecorded, ReceiptsHonest, WithdrawnStaysDead, PTL DEF ReceiptsAreTrue

(* service.ts admit with journal.ts prune: one key of one window starts at   *)
(* most one turn, for ever.                                                  *)
THEOREM KeyRunsOnce == Spec => []OncePerKey
<1>1. IInv => OncePerKey
  BY DEF IInv, JobOK, WindowsOK, SameKey, OncePerKey
<1>. QED
  BY <1>1, ControlInvariant, PTL

-----------------------------------------------------------------------------
(* Control implements OperationLedger. *)

ReceiptStates == {"none", "forgotten"} \cup Live \cup Terminal

(* The mapping: an operation that reached the disk and left it is forgotten. *)
LEMMA ReceiptIs ==
  ASSUME NEW o \in Ops
  PROVE  Receipt[o] = IF disk.state[o] # "none" THEN disk.state[o]
                      ELSE IF o \in written THEN "forgotten" ELSE "none"
BY DEF Receipt

LEMMA ReceiptTyped == TypeOK => Receipt \in [Ops -> ReceiptStates]
<1> SUFFICES ASSUME TypeOK PROVE Receipt \in [Ops -> ReceiptStates]
  OBVIOUS
<1>1. disk.state \in [Ops -> States]
  BY JournalFields DEF TypeOK
<1>. QED
  BY <1>1 DEF Receipt, ReceiptStates, States

(* An operation neither of whose halves moves.                               *)
LEMMA StutterStep ==
  ASSUME NEW o \in Ops, disk'.state[o] = disk.state[o], o \in written' <=> o \in written,
         ran'[o] = ran[o]
  PROVE  Ledger!OpStep(o)
BY ReceiptIs DEF Receipt, Ledger!OpStep, Ledger!Keeps, Ledger!Idle

(* The document being written lands while o's work stands still.             *)
LEMMA LandedStep ==
  ASSUME IInv, writing # None, NEW o \in Ops, disk' = writing,
         written' = written \cup {p \in Ops : writing.state[p] # "none"},
         ran'[o] = ran[o]
  PROVE  Ledger!OpStep(o)
<1> DEFINE t == Head(queue)
<1>1. Receipt' [o] = IF writing.state[o] # "none" THEN writing.state[o]
                     ELSE IF o \in written' THEN "forgotten" ELSE "none"
  BY DEF Receipt
<1>2. queue # <<>> /\ t \in Txns /\ t = queue[1] /\ 1 \in 1..Len(queue)
  BY HeadTailTyped DEF IInv, Durable, TypeOK
<1>3. o \notin written => disk.state[o] = "none" /\ Receipt[o] = "none"
  BY ReceiptIs DEF IInv, JobOK
<1>4. CASE writing.state[o] = disk.state[o]
  BY <1>3, <1>4, StutterStep
<1>5. CASE disk.state[o] \in Terminal /\ writing.state[o] = "none"
  <2>1. o \in written /\ Receipt'[o] = "forgotten" /\ Receipt[o] = disk.state[o]
    BY <1>1, <1>3, <1>5, ReceiptIs DEF Terminal
  <2>. QED
    BY <1>5, <2>1 DEF Ledger!OpStep, Ledger!Forget, Ledger!Idle, Ledger!Outcomes, Terminal
<1>6. CASE Fresh(t, o)
  <2>1. Receipt[o] = "none" /\ Receipt'[o] = "accepted"
    BY <1>1, <1>3, <1>6 DEF Fresh
  <2>. QED
    BY <2>1 DEF Ledger!OpStep, Ledger!Accept, Ledger!Idle
<1>7. CASE Canceled(t, o)
  <2>1. Receipt[o] = "accepted" /\ Receipt'[o] = "failed"
    BY <1>1, <1>7, ReceiptIs DEF Canceled, Withdrawn
  <2>. QED
    BY <2>1 DEF Ledger!OpStep, Ledger!Cancel, Ledger!Idle
<1>8. CASE Decided(t, o)
  <2>1. CASE t.kind = "dispatch"
    <3>1. Receipt[o] = "accepted" /\ Receipt'[o] = "dispatched" /\ ran[o] = "no"
      BY <1>1, <1>8, <2>1, ReceiptIs DEF Decided, IInv, HonestReceipts
    <3>. QED
      BY <3>1 DEF Ledger!OpStep, Ledger!Dispatch
  <2>2. CASE t.kind = "settle"
    <3>1. ran[o] \in Outcomes /\ t.outcome \in {ran[o], "unknown"}
      BY <1>2, <1>8, <2>2 DEF Decided, IInv, QueueOK, JobOK
    <3>2. disk.state[o] = "dispatched" /\ writing.state[o] = t.outcome
      BY <1>8, <2>2, <3>1 DEF Decided, IInv, HonestReceipts, Live, Outcomes, Terminal
    <3>3. Receipt[o] = "dispatched" /\ Receipt'[o] = t.outcome
      BY <1>1, <3>1, <3>2, ReceiptIs DEF Outcomes, Terminal
    <3>. QED
      BY <3>1, <3>3
      DEF Ledger!OpStep, Ledger!Settle, Ledger!Idle, Ledger!Outcomes, Outcomes, Terminal
  <2>3. CASE t.kind = "abandon"
    <3>1. CASE disk.state[o] = "accepted" /\ writing.state[o] = "failed"
      <4>1. Receipt[o] = "accepted" /\ Receipt'[o] = "failed"
        BY <1>1, <3>1, ReceiptIs
      <4>. QED
        BY <4>1 DEF Ledger!OpStep, Ledger!Cancel, Ledger!Idle
    <3>2. CASE disk.state[o] = "dispatched" /\ writing.state[o] = "unknown"
      <4>1. Receipt[o] = "dispatched" /\ Receipt'[o] = "unknown"
        BY <1>1, <3>2, ReceiptIs
      <4>2. ran[o] # "running"
        BY <1>2, <1>8, <2>3 DEF Decided, IInv, QueueOK, JobOK
      <4>. QED
        BY <4>1, <4>2 DEF Ledger!OpStep, Ledger!Settle, Ledger!Idle, Ledger!Outcomes
    <3>. QED
      BY <1>8, <2>3, <3>1, <3>2 DEF Decided
  <2>. QED
    BY <1>8, <2>1, <2>2, <2>3 DEF Decided, OpKinds
<1>9. Effect(t, o)
  BY DEF IInv, WritingOK
<1>. QED
  BY <1>4, <1>5, <1>6, <1>7, <1>8, <1>9 DEF Effect

(* The work moves while the receipts stay.                                   *)
LEMMA EndStep ==
  ASSUME NEW o \in Ops, disk'.state[o] = disk.state[o], o \in written' <=> o \in written,
         ran[o] = "running", ran'[o] \in Outcomes
  PROVE  Ledger!OpStep(o)
BY DEF Receipt, Ledger!OpStep, Ledger!End, Ledger!Keeps, Ledger!Outcomes, Outcomes, Terminal

(* Every step of Control moves every operation along its line.               *)
LEMMA NextOpStep == IInv /\ [Next]_vars => \A o \in Ops : Ledger!OpStep(o)
<1> SUFFICES ASSUME IInv, [Next]_vars, NEW o \in Ops PROVE Ledger!OpStep(o)
  OBVIOUS
<1>1. CASE UNCHANGED <<disk, written, ran>>
  BY <1>1, StutterStep
<1>2. ASSUME NEW p \in Ops, NEW outcome \in Outcomes, RunEnds(p, outcome) \/ RunThrows(p, outcome)
      PROVE  Ledger!OpStep(o)
  <2>1. /\ UNCHANGED <<disk, written>> /\ ran[p] = "running"
        /\ ran' = [ran EXCEPT ![p] = outcome]
    BY <1>2 DEF RunEnds, RunThrows, idVars, IInv, JobOK
  <2>2. CASE p = o
    BY <2>1, <2>2, EndStep DEF IInv, TypeOK
  <2>3. CASE p # o
    BY <2>1, <2>3, StutterStep DEF IInv, TypeOK
  <2>. QED
    BY <2>2, <2>3
<1>3. CASE Committed /\ UNCHANGED ran
  BY <1>3, LandedStep DEF Committed
<1>4. CASE CommitDispatch
  <2> DEFINE p == Head(queue).op
  <2>1. Committed /\ Head(queue).kind = "dispatch"
    BY <1>4 DEF CommitDispatch
  <2>2. p \in Ops /\ disk.state[p] = "accepted" /\ writing.state[p] = "dispatched" /\ ran[p] = "no"
    BY <2>1, CommitFacts, TxnFields DEF IInv, WritingOK, Decided, HonestReceipts, OpKinds
  <2>3. UNCHANGED ran \/ ran' = [ran EXCEPT ![p] = "running"]
    BY <1>4 DEF CommitDispatch
  <2>4. CASE o = p
    <3>1. Receipt[o] = "accepted" /\ Receipt'[o] = "dispatched"
      BY <2>1, <2>2, <2>4 DEF Receipt, Committed
    <3>2. ran'[o] \in {"no", "running"}
      BY <2>2, <2>3, <2>4 DEF IInv, TypeOK
    <3>. QED
      BY <2>2, <2>4, <3>1, <3>2 DEF Ledger!OpStep, Ledger!Dispatch
  <2>5. CASE o # p
    BY <2>1, <2>2, <2>3, <2>5, LandedStep DEF Committed, IInv, TypeOK
  <2>. QED
    BY <2>4, <2>5
<1>5. CASE Crash
  <2>1. /\ disk' = disk \/ (writing # None /\ disk' = writing)
        /\ written' = written \cup {q \in Ops : disk'.state[q] # "none"}
        /\ ran'[o] = IF ran[o] = "running" THEN "unknown" ELSE ran[o]
    BY <1>5 DEF Crash
  <2>2. disk' = disk => (o \in written' <=> o \in written)
    BY <2>1 DEF IInv, JobOK
  <2>3. CASE ran[o] = "running"
    <3>1. o \in written /\ o \in written' /\ disk.state[o] = "dispatched"
      BY <2>1, <2>3 DEF IInv, JobOK
    <3>2. disk'.state[o] = disk.state[o]
      BY <2>1, <2>3, <3>1, RunningStays
    <3>. QED
      BY <2>1, <2>3, <3>1, <3>2, EndStep DEF Outcomes, Terminal
  <2>4. CASE ran[o] # "running"
    <3>1. CASE disk' = disk
      BY <2>1, <2>2, <2>4, <3>1, StutterStep
    <3>2. CASE writing # None /\ disk' = writing
      BY <2>1, <2>4, <3>2, LandedStep
    <3>. QED
      BY <2>1, <3>1, <3>2
  <2>. QED
    BY <2>3, <2>4
<1>6. CASE Load
  <2> DEFINE r == Recover(disk)
  <2>1. disk' = Prune(r) /\ UNCHANGED <<written, ran>> /\ ran[o] # "running"
    BY <1>6 DEF Load, idVars, IInv, Durable, JobOK
  <2>2. r \in Journals /\ r.state[o] = IF disk.state[o] \in Live THEN "unknown" ELSE disk.state[o]
    BY RecoverFacts DEF IInv, TypeOK
  <2>3. disk'.state[o] \in {r.state[o], "none"}
    BY <2>1, <2>2, PruneFacts
  <2>4. disk.state[o] # "none" => o \in written
    BY DEF IInv, JobOK
  <2>5. disk.state[o] \in States
    BY JournalFields DEF IInv, TypeOK
  <2>6. CASE disk.state[o] = "none"
    BY <2>1, <2>2, <2>3, <2>6, StutterStep DEF Live
  <2>7. CASE disk.state[o] \in Live
    <3>1. Receipt[o] = disk.state[o] /\ Receipt'[o] \in {"unknown", "forgotten"}
      BY <2>1, <2>2, <2>3, <2>4, <2>7 DEF Receipt, Live
    <3>. QED
      BY <2>1, <2>7, <3>1 DEF Ledger!OpStep, Ledger!Lose, Ledger!Idle, Live
  <2>8. CASE disk.state[o] \in Terminal
    <3>1. Receipt[o] = disk.state[o] /\ Receipt'[o] \in {disk.state[o], "forgotten"}
      BY <2>1, <2>2, <2>3, <2>4, <2>8 DEF Receipt, Live, Terminal
    <3>. QED
      BY <2>1, <2>8, <3>1
      DEF Ledger!OpStep, Ledger!Forget, Ledger!Keeps, Ledger!Idle, Ledger!Outcomes, Terminal
  <2>. QED
    BY <2>5, <2>6, <2>7, <2>8 DEF States
<1>7. CASE UNCHANGED vars
  BY <1>1, <1>7 DEF vars
<1>8. CASE Call \/ JobStep
  BY <1>1, <1>8
  DEF Call, JobStep, RequestWindow, Request, SetEnabled, Grant, Revoke, JobAsksDispatch, JobAborts,
      idle, idVars
<1>9. CASE JournalStep
  BY <1>1, <1>3, <1>4, <1>9
  DEF JournalStep, BeginWindow, BeginAdmit, BeginOwnerCall, BeginDispatch, BeginSettle, BeginAbandon,
      begun, CommitWindow, CommitAdmit, CommitOwnerCall, CommitReceipt, Reject, PersistFails, idVars
<1>10. CASE Tick
  BY <1>1, <1>10 DEF Tick, journalVars, idVars
<1>. QED
  BY <1>2, <1>5, <1>6, <1>7, <1>8, <1>9, <1>10 DEF Next, TurnEnd

(* journal.ts and service.ts together implement the ledger: every behaviour  *)
(* of the control domain, crashes included, is one the ledger allows.        *)
THEOREM ControlImplementsLedger == Spec => ImplementsLedger
<1>1. Init => Ledger!Init
  BY DEF Init, EmptyJournal, Ledger!Init, Receipt
<1>2. IInv /\ [Next]_vars => [Ledger!Next]_(Ledger!ledger)
  <2> SUFFICES ASSUME IInv, [Next]_vars PROVE Ledger!Next
    BY DEF Ledger!ledger
  <2>1. TypeOK'
    BY NextTypeOK DEF IInv
  <2>2. Receipt' \in [Ops -> ReceiptStates]
    <3>1. disk'.state \in [Ops -> States]
      BY <2>1, JournalFields DEF TypeOK
    <3>. QED
      BY <3>1 DEF Receipt, ReceiptStates, States
  <2>3. ran' \in [Ops -> RanStates]
    BY <2>1 DEF TypeOK
  <2>. QED
    BY <2>2, <2>3, NextOpStep
    DEF Ledger!Next, ReceiptStates, RanStates, Ledger!Outcomes, Live, Terminal, Outcomes
<1>. QED
  BY <1>1, <1>2, ControlInvariant, PTL DEF Spec, ImplementsLedger, Ledger!Spec

(* journal.ts transaction: a terminal receipt on disk keeps its answer until *)
(* it is pruned, and never gets another one.                                 *)
THEOREM ReceiptsFinal == Spec => ReceiptsAreFinal
<1> DEFINE Final == \A o \in Ops : disk.state[o] \in Terminal
                                     => disk'.state[o] \in {disk.state[o], "none"}
<1>1. IInv /\ [Next]_vars => Final
  <2> SUFFICES ASSUME IInv, [Next]_vars, NEW o \in Ops, disk.state[o] \in Terminal
               PROVE  disk'.state[o] \in {disk.state[o], "none"}
    OBVIOUS
  <2>1. Receipt[o] = disk.state[o] /\ disk.state[o] \notin {"none", "forgotten"}
    BY ReceiptIs DEF Terminal
  <2>2. Ledger!OpStep(o)
    BY NextOpStep
  <2>3. Receipt'[o] \in {disk.state[o], "forgotten"}
    BY <2>1, <2>2
    DEF Ledger!OpStep, Ledger!Keeps, Ledger!Accept, Ledger!Cancel, Ledger!Dispatch, Ledger!End,
        Ledger!Settle, Ledger!Lose, Ledger!Forget, Ledger!Outcomes, Terminal
  <2>4. disk'.state[o] # "none" => Receipt'[o] = disk'.state[o]
    BY DEF Receipt
  <2>5. disk'.state[o] # "forgotten"
    BY NextTypeOK, JournalFields DEF IInv, TypeOK, States, Live, Terminal
  <2>. QED
    BY <2>3, <2>4, <2>5
<1>. QED
  BY <1>1, ControlInvariant, PTL DEF Spec, ReceiptsAreFinal


(* service.ts beforeDispatch: a turn starts only in the step that makes its  *)
(* dispatch durable, while the durable grant still covers its controller.    *)
THEOREM StartsOnlyAuthorized == Spec => StartsAuthorized
<1> DEFINE Started == \A o \in Ops : ran[o] = "no" /\ ran'[o] # "no" =>
                        /\ disk'.state[o] = "dispatched"
                        /\ Authorized(disk', ident'[o].who)
<1>1. IInv /\ [Next]_vars => Started
  <2> SUFFICES ASSUME IInv, [Next]_vars, NEW o \in Ops, ran[o] = "no", ran'[o] # "no"
               PROVE  disk'.state[o] = "dispatched" /\ Authorized(disk', ident'[o].who)
    OBVIOUS
  <2>1. ASSUME NEW p \in Ops, NEW outcome \in Outcomes, RunEnds(p, outcome) \/ RunThrows(p, outcome)
        PROVE  FALSE
    BY <2>1 DEF RunEnds, RunThrows, IInv, JobOK, TypeOK
  <2>2. ~Crash
    BY DEF Crash
  <2>3. ~UNCHANGED ran
    OBVIOUS
  <2>4. CommitDispatch
    BY <2>1, <2>2, <2>3
    DEF Next, Call, JobStep, TurnEnd, JournalStep, RequestWindow, Request, SetEnabled, Grant, Revoke,
        JobAsksDispatch, JobAborts, BeginWindow, BeginAdmit, BeginOwnerCall, BeginDispatch,
        BeginSettle, BeginAbandon, begun, CommitWindow, CommitAdmit, CommitOwnerCall, CommitReceipt,
        Reject, PersistFails, Load, Tick, idle, vars
  <2>5. Committed /\ Head(queue).kind = "dispatch"
    BY <2>4 DEF CommitDispatch
  <2>6. /\ ran' = [ran EXCEPT ![Head(queue).op] = "running"]
        /\ Authorized(writing, ident[Head(queue).op].who)
    BY <2>3, <2>4 DEF CommitDispatch
  <2>7. o = Head(queue).op
    BY <2>6 DEF IInv, TypeOK
  <2>8. writing.state[o] = "dispatched"
    BY <2>5, <2>7, CommitFacts DEF IInv, WritingOK, Decided
  <2>. QED
    BY <2>5, <2>6, <2>7, <2>8 DEF Committed
<1>. QED
  BY <1>1, ControlInvariant, PTL DEF Spec, StartsAuthorized
=============================================================================
