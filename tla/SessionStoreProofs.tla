------------------------- MODULE SessionStoreProofs -------------------------
(***************************************************************************)
(* The session store: its index of sessions, and one session's transcript. *)
(*                                                                         *)
(* First the index (SessionIndex).  What a caller was told is saved is on  *)
(* disk, and what was removed stays removed, for any sessions and bounds.  *)
(* Both are about the file, which is written from snapshots taken earlier  *)
(* for callers that were queued earlier still.  The invariant therefore    *)
(* says of the list, of the snapshot being written and of the queue what   *)
(* is to hold of the file, and when it may be wrong about a session:       *)
(* while a removal of that session is under way.                           *)
(*                                                                         *)
(* Then the transcript (Transcript).  Its file is changed by calls that   *)
(* were queued when it held something else, so the invariant says of       *)
(* every call in the chain how it stands to those ahead of it: an append   *)
(* comes after all of them, a rewrite has decided about all of them.       *)
(***************************************************************************)
EXTENDS SessionIndex, Transcript, SequenceTheorems, FiniteSetTheorems, WellFoundedInduction, TLAPS

(* Where the first operation of a session's chain stands. *)
Phase(id) == IF lifecycles[id] = <<>> THEN "idle" ELSE lifecycles[id][1].step

RemoveSteps == {"waiting", "flushing", "erasing"}
ImportSteps == {"waiting", "transcript", "context", "publishing", "undoing"}

(* Only the first operation of a chain has begun. A session that is removed has been listed; one *)
(* is imported once, and has room for its change until it is made.                                *)
ChainOK(ops, last) ==
  \A k \in DOMAIN ops :
    /\ k # 1 => ops[k].step = "waiting"
    /\ ops[k].op = "remove" => ops[k].step \in RemoveSteps /\ last > 0
    /\ ops[k].op = "import" =>
         /\ ops[k].step \in ImportSteps
         /\ ops[k].step \in {"waiting", "transcript", "context"} => last < MaxVersion
         /\ \A j \in DOMAIN ops : ops[j].op = "import" => j = k

HasImport(ops) == \E k \in DOMAIN ops : ops[k].op = "import"

LifecyclesOK == \A id \in Ids : ChainOK(lifecycles[id], version[id])

(* A session that is being imported is not listed. *)
ImportsOK == \A id \in Ids : HasImport(lifecycles[id]) => id \in importing /\ sessions[id] = 0

(* A removal has taken its session off the list, and once it is written off the file. *)
RemovalsOK ==
  \A id \in Ids : /\ Phase(id) \in {"flushing", "erasing"} => sessions[id] = 0
                  /\ Phase(id) = "erasing" => indexFile[id] = 0

(* What holds of any list that is, or is going to be, in the file. *)
Current(index) ==
  \A id \in Ids : /\ acked[id] <= index[id] /\ index[id] <= version[id]
                  /\ index[id] = 0 \/ index[id] > buried[id]

ListsOK == Current(sessions) /\ Current(indexFile) /\ \A id \in Ids : buried[id] <= version[id]

Flush(i) == i \in DOMAIN writeQueue /\ writeQueue[i].kind = "flush"
Publish(i) == i \in DOMAIN writeQueue /\ writeQueue[i].kind = "publish"
Asks(i, id, v) == <<id, v>> \in writeQueue[i].callers

(* A generation that can be joined is the last, and its snapshot has not been taken. *)
PendingOK ==
  /\ writing # <<>> => writeQueue # <<>>
  /\ pending => \E i \in DOMAIN writeQueue :
                  /\ Flush(i) /\ \A j \in DOMAIN writeQueue : Flush(j) => j <= i
                  /\ writing # <<>> => i # 1

(* A removal is the last that a flush is told of its session; the others asked for what is listed. *)
FlushesOK ==
  \A i \in DOMAIN writeQueue, id \in Ids, v \in Versions : Flush(i) /\ Asks(i, id, v) =>
    /\ v <= version[id] /\ Phase(id) # "erasing"
    /\ v = 0 => /\ Phase(id) = "flushing"
                /\ \A j \in DOMAIN writeQueue, u \in Versions : Flush(j) /\ Asks(j, id, u) => j <= i
    /\ Phase(id) # "flushing" => v <= sessions[id]

(* A publication is that of the import in progress. *)
PublicationsOK ==
  \A i \in DOMAIN writeQueue, id \in Ids, v \in Versions : Publish(i) /\ Asks(i, id, v) =>
    /\ Phase(id) = "publishing" /\ v <= version[id] /\ v > buried[id]
    /\ \A j \in DOMAIN writeQueue, u \in Versions : Publish(j) /\ Asks(j, id, u) => j = i

(* The snapshot being written shows what its callers asked for. *)
SnapshotOK ==
  writing # <<>> =>
    /\ Current(writing[1])
    /\ \A id \in Ids : Phase(id) = "erasing" => writing[1][id] = 0
    /\ \A id \in Ids, v \in Versions : Asks(1, id, v) =>
         /\ writeQueue[1].kind = "flush" /\ v = 0 => writing[1][id] = 0
         /\ writeQueue[1].kind = "publish" \/ Phase(id) # "flushing" => v <= writing[1][id]

IndexInv == /\ TypeOK /\ LifecyclesOK /\ ImportsOK /\ RemovalsOK
            /\ ListsOK /\ PendingOK /\ FlushesOK /\ PublicationsOK /\ SnapshotOK
-----------------------------------------------------------------------------
(* Chains. *)

Stepped(ops, to) == [ops EXCEPT ![1].step = to]

(* The first operation of a chain goes on. *)
LEMMA AdvancedChain ==
  ASSUME NEW ops \in Seq(Operations), NEW last, ChainOK(ops, last), 1 \in DOMAIN ops,
         NEW to \in RemoveSteps \cup ImportSteps,
         ops[1].op = "remove" => to \in RemoveSteps,
         ops[1].op = "import" => to \in ImportSteps
            /\ (to \in {"waiting", "transcript", "context"} => last < MaxVersion)
  PROVE  LET next == Stepped(ops, to)
         IN /\ next \in Seq(Operations) /\ ChainOK(next, last) /\ (HasImport(next) <=> HasImport(ops))
            /\ next # <<>> /\ next[1].step = to /\ next[1].op = ops[1].op
            /\ DOMAIN next = DOMAIN ops /\ \A k \in DOMAIN ops : k # 1 => next[k] = ops[k]
<1> DEFINE next == Stepped(ops, to)
<1>1. /\ DOMAIN next = DOMAIN ops /\ next[1] = [ops[1] EXCEPT !.step = to]
      /\ \A k \in DOMAIN ops : k # 1 => next[k] = ops[k]
  BY DEF Stepped
<1> HIDE DEF next
<1>2. ops[1] \in Operations
  OBVIOUS
<1>3. next[1] \in Operations /\ next[1].step = to /\ next[1].op = ops[1].op
  BY <1>1, <1>2 DEF Operations, RemoveSteps, ImportSteps
<1>4. next \in Seq(Operations) /\ next # <<>>
  <2>1. next = [ops EXCEPT ![1] = next[1]]
    BY <1>1 DEF next, Stepped
  <2> QED BY <1>1, <1>3, <2>1
<1>5. \A k \in DOMAIN ops : ops[k].op \in {"remove", "import"}
  <2>1. \A k \in DOMAIN ops : ops[k] \in Operations
    OBVIOUS
  <2> QED BY <2>1 DEF Operations
<1>6. \A k \in DOMAIN ops : next[k].op = ops[k].op
  BY <1>1, <1>3
<1>7. ChainOK(next, last) /\ (HasImport(next) <=> HasImport(ops))
  BY <1>1, <1>3, <1>6 DEF ChainOK, HasImport
<1> QED BY <1>1, <1>3, <1>4, <1>7 DEF next

(* The first operation leaves. *)
LEMMA LeftChain ==
  ASSUME NEW ops \in Seq(Operations), NEW last, ChainOK(ops, last), ops # <<>>
  PROVE  LET next == SubSeq(ops, 1, 0) \o SubSeq(ops, 2, Len(ops))
         IN /\ next \in Seq(Operations) /\ next = Tail(ops) /\ (next = <<>> <=> Len(ops) = 1)
            /\ ChainOK(next, last) /\ (next # <<>> => next[1].step = "waiting")
            /\ HasImport(next) => HasImport(ops) /\ ops[1].op # "import"
<1> DEFINE next == Tail(ops)
<1>1. /\ next \in Seq(Operations) /\ Len(next) = Len(ops) - 1 /\ Len(ops) \in Nat \ {0}
      /\ \A k \in 1 .. Len(next) : next[k] = ops[k + 1] /\ k + 1 \in DOMAIN ops
      /\ 1 \in DOMAIN ops
  OBVIOUS
<1>2. next = SubSeq(ops, 1, 0) \o SubSeq(ops, 2, Len(ops))
  <2>1. SubSeq(ops, 1, 0) = <<>> /\ SubSeq(ops, 2, Len(ops)) \in Seq(Operations)
    OBVIOUS
  <2>2. next = SubSeq(ops, 2, Len(ops))
    OBVIOUS
  <2> QED BY <2>1, <2>2, ConcatEmptySeq
<1> HIDE DEF next
<1>3. next = <<>> <=> Len(ops) = 1
  BY <1>1, EmptySeq
<1>4. \A k \in DOMAIN next : k \in Nat /\ k + 1 \in DOMAIN ops /\ k + 1 # 1 /\ next[k] = ops[k + 1]
  BY <1>1
<1>5. /\ \A k \in DOMAIN next : next[k].step = "waiting"
      /\ \A k \in DOMAIN next : next[k].op = "remove" => last > 0
  BY <1>4 DEF ChainOK
<1>6. \A k \in DOMAIN next : next[k].op = "import" =>
        /\ ops[1].op # "import" /\ last < MaxVersion
        /\ \A j \in DOMAIN next : next[j].op = "import" => j = k
  <2> SUFFICES ASSUME NEW k \in DOMAIN next, next[k].op = "import"
               PROVE  /\ ops[1].op # "import" /\ last < MaxVersion
                      /\ \A j \in DOMAIN next : next[j].op = "import" => j = k
    OBVIOUS
  <2>1. k + 1 \in DOMAIN ops /\ ops[k + 1].op = "import" /\ ops[k + 1].step = "waiting" /\ k + 1 # 1
    BY <1>4, <1>5
  <2>2. last < MaxVersion /\ \A j \in DOMAIN ops : ops[j].op = "import" => j = k + 1
    BY <2>1 DEF ChainOK
  <2>3. \A j \in DOMAIN next : next[j].op = "import" => j + 1 = k + 1
    BY <1>4, <2>2
  <2> QED BY <1>1, <1>4, <2>1, <2>2, <2>3
<1>7. ChainOK(next, last)
  BY <1>5, <1>6 DEF ChainOK, RemoveSteps, ImportSteps
<1>8. HasImport(next) => HasImport(ops) /\ ops[1].op # "import"
  BY <1>4, <1>6 DEF HasImport
<1>9. next # <<>> => next[1].step = "waiting"
  BY <1>1, <1>5
<1> QED BY <1>1, <1>2, <1>3, <1>7, <1>8, <1>9 DEF next

(* Another operation is queued. *)
LEMMA LengthenedChain ==
  ASSUME NEW ops \in Seq(Operations), NEW last, ChainOK(ops, last), NEW op \in {"import", "remove"},
         op = "remove" => last > 0,
         op = "import" => ~HasImport(ops) /\ last < MaxVersion
  PROVE  LET next == Append(ops, [op |-> op, step |-> "waiting"])
         IN /\ next \in Seq(Operations) /\ next # <<>> /\ ChainOK(next, last)
            /\ Len(next) = Len(ops) + 1 /\ next[Len(ops) + 1] = [op |-> op, step |-> "waiting"]
            /\ ops # <<>> => next[1] = ops[1]
            /\ HasImport(next) => HasImport(ops) \/ op = "import"
<1> DEFINE new == [op |-> op, step |-> "waiting"]
           next == Append(ops, new)
<1>1. new \in Operations /\ new.op = op /\ new.step = "waiting"
  BY DEF Operations
<1> HIDE DEF new
<1>2. /\ next \in Seq(Operations) /\ Len(next) = Len(ops) + 1 /\ next[Len(ops) + 1] = new
      /\ \A k \in DOMAIN ops : next[k] = ops[k]
      /\ DOMAIN next = DOMAIN ops \cup {Len(ops) + 1} /\ Len(ops) + 1 \notin DOMAIN ops
      /\ ops # <<>> => 1 \in DOMAIN ops
      /\ ops = <<>> => Len(ops) + 1 = 1
      /\ next # <<>>
  BY <1>1
<1> HIDE DEF next
<1>3. HasImport(next) => HasImport(ops) \/ op = "import"
  BY <1>1, <1>2 DEF HasImport
<1>4. ChainOK(next, last)
  <2>1. CASE op = "remove"
    BY <1>1, <1>2, <2>1 DEF ChainOK, RemoveSteps
  <2>2. CASE op = "import"
    <3>1. \A k \in DOMAIN ops : ops[k].op # "import"
      BY <2>2 DEF HasImport
    <3> QED BY <1>1, <1>2, <2>2, <3>1 DEF ChainOK, ImportSteps
  <2> QED BY <2>1, <2>2
<1> QED BY <1>2, <1>3, <1>4 DEF next, new

-----------------------------------------------------------------------------
(* The write chain. *)

Entry == [kind : {"flush", "publish"}, callers : SUBSET Callers]

(* A caller of flushIndex() is in the last generation, which is not the one being written. *)
Joined(i, id, v) ==
  /\ writeQueue'[i].kind = "flush"
  /\ writing # <<>> => i # 1
  /\ \A j \in DOMAIN writeQueue' : writeQueue'[j].kind = "flush" => j <= i
  /\ DOMAIN writeQueue \subseteq DOMAIN writeQueue'
  /\ \A j \in DOMAIN writeQueue' : j # i => j \in DOMAIN writeQueue /\ writeQueue'[j] = writeQueue[j]
  /\ \A x \in Ids, u \in Versions :
       <<x, u>> \in writeQueue'[i].callers => (x = id /\ u = v) \/ (Flush(i) /\ Asks(i, x, u))

LEMMA FlushIndexJoins ==
  ASSUME TypeOK, PendingOK, NEW id \in Ids, NEW v \in Versions, FlushIndex(<<id, v>>)
  PROVE  /\ pending' = TRUE /\ writeQueue' \in Seq(Entry) /\ writeQueue' # <<>>
         /\ \E i \in DOMAIN writeQueue' : Joined(i, id, v)
<1> DEFINE caller == <<id, v>>
<1>0. caller \in Callers /\ writeQueue \in Seq(Entry) /\ pending \in BOOLEAN
  BY DEF Callers, TypeOK, Entry
<1>1. CASE pending
  <2> DEFINE flushes == {i \in DOMAIN writeQueue : writeQueue[i].kind = "flush"}
             last == CHOOSE i \in flushes : \A j \in flushes : j <= i
  <2>1. last \in flushes /\ (\A j \in flushes : j <= last) /\ (writing # <<>> => last # 1)
    <3>1. PICK i \in DOMAIN writeQueue : /\ i \in flushes /\ \A j \in flushes : j <= i
                                         /\ writing # <<>> => i # 1
      BY <1>1 DEF PendingOK, Flush
    <3>2. last \in flushes /\ \A j \in flushes : j <= last
      BY <3>1
    <3>3. last = i
      <4>1. last <= i /\ i <= last
        BY <3>1, <3>2
      <4>2. last \in Nat /\ i \in Nat
        BY <1>0, <3>1, <3>2
      <4> HIDE DEF last
      <4> QED BY <4>1, <4>2
    <3> QED BY <3>1, <3>2, <3>3
  <2>2. pending' = pending /\ writeQueue' = [writeQueue EXCEPT ![last].callers = @ \cup {caller}]
    BY <1>1 DEF FlushIndex
  <2> HIDE DEF last, caller
  <2>3. /\ DOMAIN writeQueue' = DOMAIN writeQueue /\ last \in DOMAIN writeQueue
        /\ \A j \in DOMAIN writeQueue : j # last => writeQueue'[j] = writeQueue[j]
        /\ writeQueue'[last] = [writeQueue[last] EXCEPT !.callers = @ \cup {caller}]
    BY <1>0, <2>1, <2>2
  <2>4. /\ writeQueue'[last] \in Entry /\ writeQueue'[last].kind = "flush"
        /\ writeQueue'[last].callers = writeQueue[last].callers \cup {caller}
    <3>1. writeQueue[last] \in Entry /\ writeQueue[last].kind = "flush"
      BY <1>0, <2>1
    <3> QED BY <1>0, <2>3, <3>1 DEF Entry
  <2>5. writeQueue' \in Seq(Entry) /\ writeQueue' # <<>>
    <3> DEFINE e == writeQueue'[last]
    <3>1. writeQueue' = [writeQueue EXCEPT ![last] = e] /\ e \in Entry
      BY <1>0, <2>2, <2>3, <2>4
    <3> HIDE DEF e
    <3> QED BY <1>0, <2>3, <3>1
  <2>6. Joined(last, id, v)
    BY <2>1, <2>3, <2>4 DEF Joined, Flush, Asks, caller
  <2> QED BY <1>1, <2>2, <2>3, <2>5, <2>6
<1>2. CASE ~pending
  <2> DEFINE new == [kind |-> "flush", callers |-> {caller}]
  <2>1. pending' = TRUE /\ writeQueue' = Append(writeQueue, new)
    BY <1>2 DEF FlushIndex
  <2>2. new \in Entry /\ new.kind = "flush" /\ new.callers = {caller}
    BY <1>0 DEF Entry
  <2> HIDE DEF new, caller
  <2> DEFINE i == Len(writeQueue) + 1
  <2>3. /\ writeQueue' \in Seq(Entry) /\ writeQueue' # <<>> /\ i \in DOMAIN writeQueue'
        /\ DOMAIN writeQueue' = DOMAIN writeQueue \cup {i} /\ writeQueue'[i] = new
        /\ \A j \in DOMAIN writeQueue : writeQueue'[j] = writeQueue[j]
        /\ \A j \in DOMAIN writeQueue' : j <= i
    BY <1>0, <2>1, <2>2
  <2>4. writing # <<>> => i # 1
    BY <1>0 DEF PendingOK
  <2> HIDE DEF i
  <2>5. Joined(i, id, v)
    BY <2>2, <2>3, <2>4 DEF Joined, Flush, Asks, caller
  <2> QED BY <2>1, <2>3, <2>5
<1> QED BY <1>0, <1>1, <1>2

(* What a joined generation means for the queue's invariants that no phase disturbs. *)
LEMMA JoinedPending ==
  ASSUME NEW id \in Ids, NEW v \in Versions, pending' = TRUE, UNCHANGED writing, writeQueue' # <<>>,
         writeQueue' \in Seq(Entry), NEW i \in DOMAIN writeQueue', Joined(i, id, v)
  PROVE  PendingOK'
<1>1. Flush(i)' /\ \A j \in DOMAIN writeQueue' : Flush(j)' => j <= i
  BY DEF Joined, Flush
<1>2. writing' # <<>> => i # 1
  BY DEF Joined
<1> QED BY <1>1, <1>2 DEF PendingOK

LEMMA Dequeued ==
  ASSUME TypeOK, PendingOK, writing # <<>>, Dequeue
  PROVE  /\ writeQueue' \in Seq(Entry) /\ writing' = <<>> /\ pending' = pending
         /\ \A i \in DOMAIN writeQueue' : i + 1 \in DOMAIN writeQueue /\ writeQueue'[i] = writeQueue[i + 1]
         /\ \A i \in DOMAIN writeQueue : i # 1 => i - 1 \in DOMAIN writeQueue'
         /\ 1 \in DOMAIN writeQueue /\ Head(writeQueue) = writeQueue[1] /\ Head(writeQueue) \in Entry
<1>1. writeQueue \in Seq(Entry) /\ writeQueue # <<>>
  BY DEF TypeOK, Entry, PendingOK
<1> QED BY <1>1 DEF Dequeue

LEMMA DequeuedKeeps ==
  ASSUME TypeOK, PendingOK, writing # <<>>, Dequeue
  PROVE  PendingOK'
<1>1. /\ writeQueue' \in Seq(Entry) /\ writing' = <<>> /\ pending' = pending
      /\ \A i \in DOMAIN writeQueue' : i + 1 \in DOMAIN writeQueue /\ writeQueue'[i] = writeQueue[i + 1]
      /\ \A i \in DOMAIN writeQueue : i # 1 => i - 1 \in DOMAIN writeQueue'
  BY Dequeued
<1>2. SUFFICES ASSUME pending
               PROVE  \E i \in DOMAIN writeQueue' :
                        Flush(i)' /\ \A j \in DOMAIN writeQueue' : Flush(j)' => j <= i
  BY <1>1 DEF PendingOK
<1>3. PICK i \in DOMAIN writeQueue :
        Flush(i) /\ i # 1 /\ \A j \in DOMAIN writeQueue : Flush(j) => j <= i
  BY <1>2 DEF PendingOK
<1>4. i \in Nat /\ \A j \in DOMAIN writeQueue' : j \in Nat
  BY <1>1, <1>3 DEF TypeOK
<1>5. i - 1 \in DOMAIN writeQueue' /\ Flush(i - 1)'
  BY <1>1, <1>3, <1>4 DEF Flush
<1>6. \A j \in DOMAIN writeQueue' : Flush(j)' => j <= i - 1
  BY <1>1, <1>3, <1>4 DEF Flush
<1> QED BY <1>5, <1>6

-----------------------------------------------------------------------------
(* Phases. *)

LEMMA PhaseFacts ==
  ASSUME TypeOK, LifecyclesOK, NEW id \in Ids
  PROVE  /\ lifecycles[id] \in Seq(Operations) /\ (lifecycles[id] # <<>> <=> 1 \in DOMAIN lifecycles[id])
         /\ Removing(id) <=> Phase(id) \in {"flushing", "erasing"}
         /\ Phase(id) \in {"flushing", "erasing"} => version[id] > 0
         /\ \A k, st : Step(id, k, st) /\ st # "waiting" => k = 1 /\ Phase(id) = st
         /\ lifecycles[id] # <<>> => lifecycles[id][1] \in Operations
         /\ Phase(id) \in {"flushing", "erasing"} => lifecycles[id][1].op = "remove"
         /\ Phase(id) \in {"transcript", "context", "publishing", "undoing"} => lifecycles[id][1].op = "import"
<1> DEFINE c == lifecycles[id]
<1>1. c \in Seq(Operations) /\ (c # <<>> <=> 1 \in DOMAIN c) /\ \A k \in DOMAIN c : c[k] \in Operations
  BY DEF TypeOK
<1>2. ChainOK(c, version[id])
  BY DEF LifecyclesOK
<1> HIDE DEF c
<1>3. \A k \in DOMAIN c : c[k].op \in {"import", "remove"}
  BY <1>1 DEF Operations
<1>4. \A k \in DOMAIN c : c[k].step # "waiting" => k = 1
  BY <1>2 DEF ChainOK
<1>5. Phase(id) = IF c = <<>> THEN "idle" ELSE c[1].step
  BY DEF Phase, c
<1>6. Removing(id) <=> \E k \in DOMAIN c : c[k].step \in {"flushing", "erasing"}
  BY DEF Removing, c
<1>7. Removing(id) <=> Phase(id) \in {"flushing", "erasing"}
  BY <1>1, <1>4, <1>5, <1>6
<1>8. /\ Phase(id) \in {"flushing", "erasing"} => c[1].op = "remove" /\ version[id] > 0
      /\ Phase(id) \in {"transcript", "context", "publishing", "undoing"} => c[1].op = "import"
  BY <1>1, <1>2, <1>3, <1>5 DEF ChainOK, RemoveSteps, ImportSteps
<1>9. \A k, st : Step(id, k, st) /\ st # "waiting" => k = 1 /\ Phase(id) = st
  BY <1>1, <1>4, <1>5 DEF Step, c
<1> QED BY <1>1, <1>7, <1>8, <1>9 DEF c

(* An import goes on. *)
LEMMA AdvancesFacts ==
  ASSUME TypeOK, LifecyclesOK, NEW id \in Ids, NEW k, NEW from \in {"transcript", "context", "publishing"},
         Step(id, k, from), NEW to \in {"context", "publishing", "undoing"}, Advances(id, k, to),
         to = "context" => from = "transcript"
  PROVE  /\ k = 1 /\ Phase(id) = from /\ Phase(id)' = to
         /\ lifecycles' \in [Ids -> Seq(Operations)]
         /\ \A x \in Ids : x # id => lifecycles'[x] = lifecycles[x]
         /\ ChainOK(lifecycles'[id], version[id]) /\ HasImport(lifecycles[id])
         /\ UNCHANGED importing /\ owned' = {x \in Ids : lifecycles'[x] # <<>>}
         /\ from # "publishing" => version[id] < MaxVersion
<1> DEFINE c == lifecycles[id]
           next == Stepped(c, to)
<1>1. k = 1 /\ Phase(id) = from /\ c \in Seq(Operations) /\ c # <<>> /\ 1 \in DOMAIN c /\ c[1].op = "import"
  BY PhaseFacts DEF Phase, Step
<1>2. lifecycles' = [lifecycles EXCEPT ![id] = next] /\ UNCHANGED <<owned, importing>>
  BY <1>1 DEF Advances, Stepped
<1>3. ChainOK(c, version[id])
  BY DEF LifecyclesOK
<1>4. from # "publishing" => version[id] < MaxVersion
  BY <1>1, <1>3 DEF ChainOK, Phase
<1>5. next \in Seq(Operations) /\ ChainOK(next, version[id]) /\ next # <<>> /\ next[1].step = to
  <2>1. to \in ImportSteps /\ (to \in {"waiting", "transcript", "context"} => version[id] < MaxVersion)
    BY <1>4 DEF ImportSteps
  <2> HIDE DEF c
  <2> QED BY <1>1, <1>3, <2>1, AdvancedChain
<1>6. HasImport(c)
  BY <1>1 DEF HasImport
<1> HIDE DEF next
<1>7. /\ lifecycles' \in [Ids -> Seq(Operations)] /\ lifecycles'[id] = next
      /\ \A x \in Ids : x # id => lifecycles'[x] = lifecycles[x]
  BY <1>2, <1>5 DEF TypeOK
<1>8. owned' = {x \in Ids : lifecycles'[x] # <<>>}
  BY <1>1, <1>2, <1>5, <1>7 DEF TypeOK
<1> QED BY <1>1, <1>2, <1>4, <1>5, <1>6, <1>7, <1>8 DEF Phase

(* An operation ends; the next one, if there is one, has not begun. *)
LEMMA SettlesFacts ==
  ASSUME TypeOK, LifecyclesOK, NEW id \in Ids, NEW k, NEW from \in {"undoing", "erasing", "publishing"},
         Step(id, k, from), Settles(id, k)
  PROVE  /\ k = 1 /\ Phase(id) = from /\ Phase(id)' \in {"idle", "waiting"}
         /\ lifecycles' \in [Ids -> Seq(Operations)]
         /\ \A x \in Ids : x # id => lifecycles'[x] = lifecycles[x]
         /\ ChainOK(lifecycles'[id], version[id])
         /\ HasImport(lifecycles'[id]) => HasImport(lifecycles[id]) /\ from = "erasing"
         /\ owned' = {x \in Ids : lifecycles'[x] # <<>>}
         /\ importing' \subseteq Imported /\ \A x \in Ids : x # id => (x \in importing' <=> x \in importing)
         /\ from = "erasing" => importing' = importing
<1> DEFINE c == lifecycles[id]
           next == SubSeq(c, 1, 0) \o SubSeq(c, 2, Len(c))
<1>1. /\ k = 1 /\ Phase(id) = from /\ c \in Seq(Operations) /\ c # <<>> /\ 1 \in DOMAIN c
      /\ c[1].op = IF from = "erasing" THEN "remove" ELSE "import"
  BY PhaseFacts DEF Phase, Step
<1>2. lifecycles' = [lifecycles EXCEPT ![id] = next]
  BY <1>1 DEF Settles
<1>3. ChainOK(c, version[id])
  BY DEF LifecyclesOK
<1>4. importing' \subseteq Imported /\ \A x \in Ids : x # id => (x \in importing' <=> x \in importing)
  BY DEF Settles, TypeOK
<1>5. from = "erasing" => importing' = importing
  BY <1>1 DEF Settles
<1>6. /\ next \in Seq(Operations) /\ (next = <<>> <=> Len(c) = 1)
      /\ ChainOK(next, version[id]) /\ (next # <<>> => next[1].step = "waiting")
      /\ HasImport(next) => HasImport(c) /\ from = "erasing"
  <2> HIDE DEF c
  <2> QED BY <1>1, <1>3, LeftChain
<1>7. owned' = IF Len(c) = 1 THEN owned \ {id} ELSE owned
  BY <1>1 DEF Settles, Disown
<1> HIDE DEF next
<1>8. /\ lifecycles' \in [Ids -> Seq(Operations)] /\ lifecycles'[id] = next
      /\ \A x \in Ids : x # id => lifecycles'[x] = lifecycles[x]
  BY <1>2, <1>6 DEF TypeOK
<1>9. owned' = {x \in Ids : lifecycles'[x] # <<>>}
  BY <1>1, <1>6, <1>7, <1>8 DEF TypeOK
<1> QED BY <1>1, <1>4, <1>5, <1>6, <1>8, <1>9 DEF Phase

(* A step that moves sessions between phases in which nothing is claimed of them. *)
LEMMA CalmKeeps ==
  ASSUME IndexInv, UNCHANGED <<sessions, indexFile, writeQueue, pending, writing, version, acked, buried>>,
         \A x \in Ids : \/ Phase(x)' = Phase(x)
                        \/ /\ Phase(x) \notin {"flushing", "erasing", "publishing"}
                           /\ Phase(x)' \notin {"flushing", "erasing"}
  PROVE  RemovalsOK' /\ ListsOK' /\ PendingOK' /\ FlushesOK' /\ PublicationsOK' /\ SnapshotOK'
<1>1. RemovalsOK' /\ ListsOK' /\ PendingOK'
  BY DEF IndexInv, RemovalsOK, ListsOK, Current, PendingOK, Flush
<1>2. FlushesOK'
  BY DEF IndexInv, FlushesOK, Flush, Asks
<1>3. PublicationsOK'
  BY DEF IndexInv, PublicationsOK, Publish, Asks
<1>4. SnapshotOK'
  BY DEF IndexInv, SnapshotOK, Current, Asks
<1> QED BY <1>1, <1>2, <1>3, <1>4
(* The changes and indexes are numbers. *)
LEMMA Numbers ==
  ASSUME TypeOK
  PROVE  /\ Versions \subseteq Nat /\ 0 \in Versions /\ MaxVersion \in Nat
         /\ \A v \in Nat : v \in Versions <=> v <= MaxVersion
         /\ {sessions, indexFile, version, acked, buried} \subseteq [Ids -> Versions]
         /\ \A id \in Ids : {sessions[id], indexFile[id], version[id], acked[id], buried[id]} \subseteq Versions
         /\ writing # <<>> => writing[1] \in [Ids -> Versions]
<1>1. MaxVersion \in Nat
  BY SessionIndexAssumption
<1>2. {sessions, indexFile, version, acked, buried} \subseteq [Ids -> Versions]
  BY DEF TypeOK, Indexes
<1>3. writing # <<>> => writing[1] \in [Ids -> Versions]
  BY DEF TypeOK, Indexes
<1> QED BY <1>1, <1>2, <1>3 DEF Versions

(* A step that changes the chain of one session. *)
LEMMA OneChain ==
  ASSUME LifecyclesOK, ImportsOK, NEW id \in Ids,
         ChainOK(lifecycles'[id], version'[id]),
         HasImport(lifecycles'[id]) => id \in importing' /\ sessions'[id] = 0,
         \A x \in Ids : x # id => /\ lifecycles'[x] = lifecycles[x] /\ version'[x] = version[x]
                                  /\ sessions'[x] = sessions[x]
                                  /\ x \in importing => x \in importing'
  PROVE  LifecyclesOK' /\ ImportsOK'
<1>1. LifecyclesOK'
  <2> SUFFICES ASSUME NEW x \in Ids PROVE ChainOK(lifecycles'[x], version'[x])
    BY DEF LifecyclesOK
  <2>1. CASE x = id
    BY <2>1
  <2>2. CASE x # id
    BY <2>2 DEF LifecyclesOK
  <2> QED BY <2>1, <2>2
<1>2. ImportsOK'
  <2> SUFFICES ASSUME NEW x \in Ids, HasImport(lifecycles'[x])
               PROVE  x \in importing' /\ sessions'[x] = 0
    BY DEF ImportsOK
  <2>1. CASE x = id
    BY <2>1
  <2>2. CASE x # id
    BY <2>2 DEF ImportsOK
  <2> QED BY <2>1, <2>2
<1> QED BY <1>1, <1>2

-----------------------------------------------------------------------------
(* Each step keeps the invariant. *)

(* A flush has been asked for a change, or for a removal that now begins. *)
LEMMA JoinedKeeps ==
  ASSUME IndexInv, NEW id \in Ids, NEW v \in Versions, FlushIndex(<<id, v>>), UNCHANGED writing,
         {version', acked', sessions'} \subseteq [Ids -> Versions], UNCHANGED buried,
         Phase(id) \notin {"flushing", "erasing"},
         \A x \in Ids : version[x] <= version'[x] /\ (x # id => Phase(x)' = Phase(x) /\ sessions'[x] = sessions[x]),
         \A x \in Ids : acked'[x] <= acked[x],
         v <= version'[id],
         \/ v # 0 /\ Phase(id)' = Phase(id) /\ sessions'[id] = v /\ sessions[id] <= v
         \/ v = 0 /\ Phase(id)' = "flushing" /\ Phase(id) # "publishing"
  PROVE  pending' \in BOOLEAN /\ writeQueue' \in Seq(Entry)
         /\ PendingOK' /\ FlushesOK' /\ PublicationsOK' /\ SnapshotOK'
<1>0. TypeOK /\ PendingOK /\ FlushesOK /\ PublicationsOK /\ SnapshotOK
  BY DEF IndexInv
<1>1. pending' = TRUE /\ writeQueue' \in Seq(Entry) /\ writeQueue' # <<>>
  BY <1>0, FlushIndexJoins
<1>2. PICK i \in DOMAIN writeQueue' : Joined(i, id, v)
  BY <1>0, FlushIndexJoins
<1>3. PendingOK'
  BY <1>1, <1>2, JoinedPending
<1>n. /\ Versions \subseteq Nat /\ DOMAIN writeQueue' \subseteq Nat
      /\ \A x \in Ids : {sessions[x], version[x], acked[x], version'[x], acked'[x], sessions'[x], buried[x]} \subseteq Nat
      /\ writing # <<>> => \A x \in Ids : writing[1][x] \in Nat
  <2>1. DOMAIN writeQueue' \subseteq Nat
    BY <1>1
  <2>2. Versions \subseteq Nat /\ (writing # <<>> => \A x \in Ids : writing[1][x] \in Nat)
    BY <1>0, Numbers
  <2>3. \A x \in Ids : {version'[x], acked'[x], sessions'[x]} \subseteq Versions
    OBVIOUS
  <2>4. \A x \in Ids : {sessions[x], version[x], acked[x], buried[x]} \subseteq Versions
    BY <1>0, Numbers
  <2> QED BY <2>1, <2>2, <2>3, <2>4
<1>4. \A j \in DOMAIN writeQueue', x \in Ids, u \in Versions : Flush(j)' /\ Asks(j, x, u)' =>
         (j = i /\ x = id /\ u = v) \/ (j \in DOMAIN writeQueue /\ Flush(j) /\ Asks(j, x, u))
  BY <1>2 DEF Joined, Flush, Asks
<1>5. \A j \in DOMAIN writeQueue', x \in Ids, u \in Versions : Publish(j)' /\ Asks(j, x, u)' =>
         j \in DOMAIN writeQueue /\ Publish(j) /\ Asks(j, x, u)
  BY <1>2 DEF Joined, Publish, Asks
<1>6. \A j \in DOMAIN writeQueue' : Flush(j)' => j <= i
  BY <1>2 DEF Joined, Flush
<1>7. FlushesOK'
  <2> SUFFICES ASSUME NEW j \in DOMAIN writeQueue', NEW x \in Ids, NEW u \in Versions,
                      Flush(j)', Asks(j, x, u)'
               PROVE  /\ u <= version'[x] /\ Phase(x)' # "erasing"
                      /\ u = 0 => /\ Phase(x)' = "flushing"
                                  /\ \A k \in DOMAIN writeQueue', w \in Versions :
                                       Flush(k)' /\ Asks(k, x, w)' => k <= j
                      /\ Phase(x)' # "flushing" => u <= sessions'[x]
    BY DEF FlushesOK
  <2>1. CASE j = i /\ x = id /\ u = v
    BY <1>n, <1>6, <2>1
  <2>2. CASE j \in DOMAIN writeQueue /\ Flush(j) /\ Asks(j, x, u)
    <3>1. /\ u <= version[x] /\ Phase(x) # "erasing"
          /\ u = 0 => /\ Phase(x) = "flushing"
                      /\ \A k \in DOMAIN writeQueue, w \in Versions : Flush(k) /\ Asks(k, x, w) => k <= j
          /\ Phase(x) # "flushing" => u <= sessions[x]
      BY <1>0, <2>2 DEF FlushesOK
    <3>2. u <= version'[x]
      BY <1>n, <3>1
    <3>3. CASE x = id
      BY <1>n, <3>1, <3>2, <3>3
    <3>4. CASE x # id
      BY <1>4, <3>1, <3>2, <3>4
    <3> QED BY <3>3, <3>4
  <2> QED BY <1>4, <2>1, <2>2
<1>8. PublicationsOK'
  <2> SUFFICES ASSUME NEW j \in DOMAIN writeQueue', NEW x \in Ids, NEW u \in Versions,
                      Publish(j)', Asks(j, x, u)'
               PROVE  /\ Phase(x)' = "publishing" /\ u <= version'[x] /\ u > buried'[x]
                      /\ \A k \in DOMAIN writeQueue', w \in Versions : Publish(k)' /\ Asks(k, x, w)' => k = j
    BY DEF PublicationsOK
  <2>1. /\ Phase(x) = "publishing" /\ u <= version[x] /\ u > buried[x]
        /\ \A k \in DOMAIN writeQueue, w \in Versions : Publish(k) /\ Asks(k, x, w) => k = j
    BY <1>0, <1>5 DEF PublicationsOK
  <2>2. Phase(x)' = "publishing" /\ u <= version'[x]
    BY <1>n, <2>1
  <2> QED BY <1>5, <2>1, <2>2
<1>9. SnapshotOK'
  <2> SUFFICES ASSUME writing # <<>> PROVE SnapshotOK'
    BY DEF SnapshotOK
  <2>1. writeQueue'[1] = writeQueue[1]
    <3>1. 1 \in DOMAIN writeQueue
      BY <1>0 DEF PendingOK, TypeOK
    <3> QED BY <1>2, <3>1 DEF Joined
  <2>2. Current(writing[1])'
    <3>1. \A x \in Ids : /\ acked[x] <= writing[1][x] /\ writing[1][x] <= version[x]
                         /\ writing[1][x] = 0 \/ writing[1][x] > buried[x]
      BY <1>0 DEF SnapshotOK, Current
    <3>2. ASSUME NEW x \in Ids
          PROVE  acked'[x] <= writing[1][x] /\ writing[1][x] <= version'[x]
      <4>1. /\ acked'[x] \in Nat /\ acked[x] \in Nat /\ writing[1][x] \in Nat
            /\ version[x] \in Nat /\ version'[x] \in Nat
        BY <1>n
      <4> QED BY <3>1, <4>1
    <3> QED BY <3>1, <3>2 DEF Current
  <2>3. \A x \in Ids, u \in Versions : Asks(1, x, u)' <=> Asks(1, x, u)
    BY <2>1 DEF Asks
  <2>4. \A x \in Ids : Phase(x)' = "erasing" => Phase(x) = "erasing"
    OBVIOUS
  <2>5. \A x \in Ids : Phase(x)' # "flushing" => Phase(x) # "flushing"
    OBVIOUS
  <2> QED BY <1>0, <2>1, <2>2, <2>3, <2>4, <2>5 DEF SnapshotOK
<1> QED BY <1>1, <1>3, <1>7, <1>8, <1>9

LEMMA UpsertKeeps == ASSUME IndexInv, NEW id \in Ids, Upsert(id) PROVE IndexInv'
<1>0. TypeOK /\ LifecyclesOK /\ ImportsOK /\ RemovalsOK /\ ListsOK
  BY DEF IndexInv
<1> DEFINE v == version[id] + 1
<1>1. /\ version' = [version EXCEPT ![id] = v] /\ sessions' = [sessions EXCEPT ![id] = v]
      /\ sessions[id] > 0 \/ (id \notin Imported /\ version[id] = 0)
      /\ UNCHANGED <<indexFile, writing, lifecycles, owned, importing, files, calls, faults, crashes,
                     acked, buried, spoiled>>
  <2>1. version' = [version EXCEPT ![id] = v] /\ version'[id] = v
    BY <1>0, Numbers DEF Upsert
  <2> QED BY <2>1 DEF Upsert
<1>2. version[id] < MaxVersion /\ v \in Versions /\ v # 0 /\ v \in Nat /\ version[id] \in Nat /\ version[id] < v
  BY <1>0, Numbers DEF Upsert
<1>3. {version', sessions', acked'} \subseteq [Ids -> Versions] /\ version'[id] = v /\ sessions'[id] = v
  BY <1>0, <1>1, <1>2, Numbers
<1>4. FlushIndex(<<id, v>>)
  BY <1>3 DEF Upsert
<1>5. Phase(id) \notin {"flushing", "erasing"}
  <2>1. Phase(id) \in {"flushing", "erasing"} => sessions[id] = 0 /\ version[id] > 0
    BY <1>0, PhaseFacts DEF RemovalsOK
  <2> QED BY <1>0, <1>1, <2>1, Numbers
<1>6. \A x \in Ids : Phase(x)' = Phase(x)
  BY <1>1 DEF Phase
<1>7. \A x \in Ids : /\ version[x] \in Nat /\ sessions[x] \in Nat /\ acked[x] \in Nat /\ buried[x] \in Nat
                     /\ sessions[x] <= version[x] /\ acked[x] <= version[x] /\ buried[x] <= version[x]
  <2>1. \A x \in Ids : version[x] \in Nat /\ sessions[x] \in Nat /\ acked[x] \in Nat /\ buried[x] \in Nat
    BY <1>0, Numbers
  <2> QED BY <1>0, <2>1 DEF ListsOK, Current
<1> HIDE DEF v
<1>8. \A x \in Ids : /\ version[x] <= version'[x]
                     /\ x # id => version'[x] = version[x] /\ sessions'[x] = sessions[x]
  BY <1>0, <1>1, <1>2, <1>7, Numbers
<1>9. /\ pending' \in BOOLEAN /\ writeQueue' \in Seq(Entry)
      /\ PendingOK' /\ FlushesOK' /\ PublicationsOK' /\ SnapshotOK'
  <2>1. \A x \in Ids : acked'[x] <= acked[x]
    BY <1>1, <1>7
  <2>2. sessions[id] <= v /\ v <= version'[id]
    BY <1>2, <1>3, <1>7
  <2> QED BY <1>1, <1>2, <1>3, <1>4, <1>5, <1>6, <1>8, <2>1, <2>2, JoinedKeeps
<1>10. TypeOK'
  BY <1>0, <1>1, <1>3, <1>9 DEF TypeOK, Indexes, Entry
<1>11. LifecyclesOK' /\ ImportsOK'
  <2>1. ~HasImport(lifecycles[id])
    BY <1>0, <1>1, <1>7 DEF ImportsOK, TypeOK
  <2>2. ChainOK(lifecycles[id], version[id]) /\ ChainOK(lifecycles[id], version'[id])
    BY <1>0, <1>2, <1>3, <2>1 DEF LifecyclesOK, ChainOK, HasImport
  <2> QED BY <1>0, <1>1, <1>8, <2>1, <2>2, OneChain
<1>12. RemovalsOK'
  BY <1>0, <1>1, <1>5, <1>6, <1>8 DEF RemovalsOK
<1>13. ListsOK'
  <2>1. \A x \in Ids : indexFile[x] \in Nat
    BY <1>0, Numbers
  <2> QED BY <1>0, <1>1, <1>2, <1>3, <1>7, <1>8, <2>1 DEF ListsOK, Current
<1> QED BY <1>9, <1>10, <1>11, <1>12, <1>13 DEF IndexInv

(* The first operation of a chain begins. *)
LEMMA BeginsKeeps ==
  ASSUME IndexInv, NEW id \in Ids, Phase(id) \in {"idle", "waiting"},
         NEW ops \in Seq(Operations), ChainOK(ops, version[id]), 1 \in DOMAIN ops, ops[1].step = "waiting",
         HasImport(ops) => id \in importing' /\ sessions[id] = 0, importing \subseteq importing',
         Begins(id, ops, 1), UNCHANGED <<indexFile, writing, version, buried>>
  PROVE  /\ {sessions', acked'} \subseteq Indexes /\ writeQueue' \in Seq(Entry) /\ pending' \in BOOLEAN
         /\ lifecycles' \in [Ids -> Seq(Operations)]
         /\ lifecycles'[id] # <<>> /\ \A x \in Ids : x # id => lifecycles'[x] = lifecycles[x]
         /\ LifecyclesOK' /\ ImportsOK' /\ RemovalsOK' /\ ListsOK'
         /\ PendingOK' /\ FlushesOK' /\ PublicationsOK' /\ SnapshotOK'
<1>0. /\ TypeOK /\ LifecyclesOK /\ ImportsOK /\ RemovalsOK /\ ListsOK
      /\ PendingOK /\ FlushesOK /\ PublicationsOK /\ SnapshotOK
  BY DEF IndexInv
<1>n. /\ 0 \in Versions /\ {sessions, acked} \subseteq [Ids -> Versions]
      /\ \A x \in Ids : sessions[x] \in Nat /\ acked[x] \in Nat /\ version[x] \in Nat /\ indexFile[x] \in Nat
      /\ sessions \in [Ids -> Versions] /\ acked \in [Ids -> Versions] /\ version \in [Ids -> Versions]
  BY <1>0, Numbers
<1>1. CASE ops[1].op = "remove"
  <2> DEFINE next == Stepped(ops, "flushing")
  <2>1. /\ lifecycles' = [lifecycles EXCEPT ![id] = next] /\ sessions' = [sessions EXCEPT ![id] = 0]
        /\ acked' = [acked EXCEPT ![id] = 0] /\ FlushIndex(<<id, 0>>)
    BY <1>1 DEF Begins, Stepped
  <2>2. /\ next \in Seq(Operations) /\ ChainOK(next, version[id]) /\ (HasImport(next) <=> HasImport(ops))
        /\ next # <<>> /\ next[1].step = "flushing"
    <3>1. "flushing" \in RemoveSteps
      BY DEF RemoveSteps
    <3> QED BY <1>1, <3>1, AdvancedChain
  <2> HIDE DEF next
  <2>3. /\ lifecycles' \in [Ids -> Seq(Operations)] /\ lifecycles'[id] = next
        /\ \A x \in Ids : x # id => lifecycles'[x] = lifecycles[x]
    BY <1>0, <2>1, <2>2 DEF TypeOK
  <2>4. /\ sessions' \in [Ids -> Versions] /\ acked' \in [Ids -> Versions] /\ sessions'[id] = 0 /\ acked'[id] = 0
        /\ \A x \in Ids : x # id => sessions'[x] = sessions[x] /\ acked'[x] = acked[x]
    BY <1>n, <2>1
  <2>5. Phase(id)' = "flushing" /\ \A x \in Ids : x # id => Phase(x)' = Phase(x)
    BY <2>2, <2>3 DEF Phase
  <2>6. pending' \in BOOLEAN /\ writeQueue' \in Seq(Entry) /\ PendingOK' /\ FlushesOK' /\ PublicationsOK' /\ SnapshotOK'
    <3>1. ASSUME NEW x \in Ids PROVE acked'[x] <= acked[x]
      <4>1. acked[x] \in Nat /\ acked[id] \in Nat
        BY <1>n
      <4> QED BY <2>4, <4>1
    <3>2. \A x \in Ids : version[x] <= version'[x] /\ (x # id => Phase(x)' = Phase(x) /\ sessions'[x] = sessions[x])
      BY <1>n, <2>4, <2>5
    <3>3. 0 <= version'[id] /\ {version', acked', sessions'} \subseteq [Ids -> Versions]
      BY <1>n, <2>4
    <3> QED BY <1>n, <2>1, <2>4, <2>5, <3>1, <3>2, <3>3, JoinedKeeps
  <2>7. LifecyclesOK' /\ ImportsOK'
    BY <1>0, <2>2, <2>3, <2>4, OneChain
  <2>8. RemovalsOK'
    BY <1>0, <2>4, <2>5 DEF RemovalsOK
  <2>9. ListsOK'
    <3>1. ASSUME NEW x \in Ids
          PROVE  /\ acked'[x] <= sessions'[x] /\ sessions'[x] <= version[x]
                 /\ sessions'[x] = 0 \/ sessions'[x] > buried[x]
                 /\ acked'[x] <= indexFile[x] /\ indexFile[x] <= version[x]
                 /\ indexFile[x] = 0 \/ indexFile[x] > buried[x]
      <4>1. /\ acked[x] <= sessions[x] /\ sessions[x] <= version[x]
            /\ sessions[x] = 0 \/ sessions[x] > buried[x]
            /\ acked[x] <= indexFile[x] /\ indexFile[x] <= version[x]
            /\ indexFile[x] = 0 \/ indexFile[x] > buried[x]
        BY <1>0 DEF ListsOK, Current
      <4>2. CASE x = id
        <5>1. acked'[x] = 0 /\ sessions'[x] = 0 /\ version[x] \in Nat /\ indexFile[x] \in Nat
          BY <1>n, <2>4, <4>2
        <5> QED BY <4>1, <5>1
      <4>3. CASE x # id
        BY <2>4, <4>1, <4>3
      <4> QED BY <4>2, <4>3
    <3> QED BY <1>0, <3>1 DEF ListsOK, Current
  <2> QED BY <2>2, <2>3, <2>4, <2>6, <2>7, <2>8, <2>9 DEF Indexes
<1>2. CASE ops[1].op # "remove"
  <2> DEFINE next == Stepped(ops, "transcript")
  <2>0. ops[1].op = "import"
    <3>1. ops[1] \in Operations
      OBVIOUS
    <3> QED BY <1>2, <3>1 DEF Operations
  <2>1. lifecycles' = [lifecycles EXCEPT ![id] = next] /\ UNCHANGED <<sessions, acked, writeQueue, pending>>
    BY <1>2 DEF Begins, queueVars, Stepped
  <2>2. /\ next \in Seq(Operations) /\ ChainOK(next, version[id]) /\ (HasImport(next) <=> HasImport(ops))
        /\ next # <<>> /\ next[1].step = "transcript"
    <3>1. "transcript" \in ImportSteps /\ "transcript" \in RemoveSteps \cup ImportSteps
      BY DEF ImportSteps
    <3>2. version[id] < MaxVersion
      BY <2>0 DEF ChainOK
    <3> QED BY <1>2, <2>0, <3>1, <3>2, AdvancedChain
  <2> HIDE DEF next
  <2>3. /\ lifecycles' \in [Ids -> Seq(Operations)] /\ lifecycles'[id] = next
        /\ \A x \in Ids : x # id => lifecycles'[x] = lifecycles[x]
    BY <1>0, <2>1, <2>2 DEF TypeOK
  <2>4. Phase(id)' = "transcript" /\ \A x \in Ids : x # id => Phase(x)' = Phase(x)
    BY <2>2, <2>3 DEF Phase
  <2>5. \A x \in Ids : \/ Phase(x)' = Phase(x)
                       \/ /\ Phase(x) \notin {"flushing", "erasing", "publishing"}
                          /\ Phase(x)' \notin {"flushing", "erasing"}
    BY <2>4
  <2>6. RemovalsOK' /\ ListsOK' /\ PendingOK' /\ FlushesOK' /\ PublicationsOK' /\ SnapshotOK'
    BY <2>1, <2>5, CalmKeeps
  <2>7. LifecyclesOK' /\ ImportsOK'
    BY <1>0, <2>1, <2>2, <2>3, OneChain
  <2> QED BY <1>0, <2>1, <2>2, <2>3, <2>6, <2>7 DEF TypeOK, Entry
<1> QED BY <1>1, <1>2

(* An import or a removal is called. *)
LEMMA LifecycleKeeps ==
  ASSUME IndexInv, NEW id \in Ids, NEW op \in {"import", "remove"}, Lifecycle(id, op),
         op = "remove" => version[id] > 0,
         op = "import" => ~HasImport(lifecycles[id]) /\ version[id] < MaxVersion
                          /\ id \in importing' /\ sessions[id] = 0,
         importing \subseteq importing', importing' \subseteq Imported
  PROVE  IndexInv'
<1>0. TypeOK /\ LifecyclesOK /\ ImportsOK
  BY DEF IndexInv
<1> DEFINE new == [op |-> op, step |-> "waiting"]
           ops == Append(lifecycles[id], new)
<1>1. /\ calls < MaxCalls /\ calls' = calls + 1 /\ owned' = owned \cup {id}
      /\ UNCHANGED <<indexFile, writing, files, faults, crashes, version, buried, spoiled>>
  BY DEF Lifecycle
<1>2. lifecycles[id] \in Seq(Operations) /\ ChainOK(lifecycles[id], version[id])
      /\ (lifecycles[id] = <<>> <=> id \notin owned)
  BY <1>0 DEF TypeOK, LifecyclesOK
<1>3. /\ ops \in Seq(Operations) /\ ops # <<>> /\ ChainOK(ops, version[id])
      /\ Len(ops) = Len(lifecycles[id]) + 1 /\ ops[Len(lifecycles[id]) + 1] = new
      /\ lifecycles[id] # <<>> => ops[1] = lifecycles[id][1]
      /\ HasImport(ops) => HasImport(lifecycles[id]) \/ op = "import"
  BY <1>2, LengthenedChain
<1>4. HasImport(ops) => id \in importing' /\ sessions[id] = 0
  BY <1>0, <1>3 DEF ImportsOK
<1>5. calls' \in 0 .. MaxCalls
  BY <1>0, <1>1, SessionIndexAssumption DEF TypeOK
<1>6. CASE id \in owned
  <2>1. lifecycles' = [lifecycles EXCEPT ![id] = ops] /\ UNCHANGED <<sessions, acked, writeQueue, pending>>
    BY <1>6 DEF Lifecycle, queueVars
  <2> HIDE DEF ops
  <2>2. /\ lifecycles' \in [Ids -> Seq(Operations)] /\ lifecycles'[id] = ops
        /\ \A x \in Ids : x # id => lifecycles'[x] = lifecycles[x]
    BY <1>0, <1>3, <2>1 DEF TypeOK
  <2>3. \A x \in Ids : Phase(x)' = Phase(x)
    BY <1>2, <1>3, <1>6, <2>2 DEF Phase
  <2>4. RemovalsOK' /\ ListsOK' /\ PendingOK' /\ FlushesOK' /\ PublicationsOK' /\ SnapshotOK'
    BY <1>1, <2>1, <2>3, CalmKeeps
  <2>5. LifecyclesOK' /\ ImportsOK'
    BY <1>0, <1>1, <1>3, <1>4, <2>1, <2>2, OneChain
  <2>6. owned' = {x \in Ids : lifecycles'[x] # <<>>}
    BY <1>0, <1>1, <1>3, <2>2 DEF TypeOK
  <2>7. TypeOK'
    BY <1>0, <1>1, <1>5, <2>1, <2>2, <2>6 DEF TypeOK
  <2> QED BY <2>4, <2>5, <2>7 DEF IndexInv
<1>7. CASE id \notin owned
  <2>1. Len(ops) = 1 /\ 1 \in DOMAIN ops /\ ops[1].step = "waiting" /\ Phase(id) = "idle"
    <3>1. lifecycles[id] = <<>>
      BY <1>2, <1>7
    <3>2. Len(lifecycles[id]) = 0
      BY <3>1
    <3> HIDE DEF ops
    <3> QED BY <1>3, <3>1, <3>2 DEF Phase
  <2>2. Begins(id, ops, 1)
    BY <1>7, <2>1 DEF Lifecycle
  <2> HIDE DEF ops
  <2>3. /\ {sessions', acked'} \subseteq Indexes /\ writeQueue' \in Seq(Entry) /\ pending' \in BOOLEAN
        /\ lifecycles' \in [Ids -> Seq(Operations)]
        /\ lifecycles'[id] # <<>> /\ \A x \in Ids : x # id => lifecycles'[x] = lifecycles[x]
        /\ LifecyclesOK' /\ ImportsOK' /\ RemovalsOK' /\ ListsOK'
        /\ PendingOK' /\ FlushesOK' /\ PublicationsOK' /\ SnapshotOK'
    BY <1>1, <1>3, <1>4, <2>1, <2>2, BeginsKeeps
  <2>4. owned' = {x \in Ids : lifecycles'[x] # <<>>}
    BY <1>0, <1>1, <2>3 DEF TypeOK
  <2>5. TypeOK'
    BY <1>0, <1>1, <1>5, <2>3, <2>4 DEF TypeOK, Entry
  <2> QED BY <2>3, <2>5 DEF IndexInv
<1> QED BY <1>6, <1>7

LEMMA RemoveKeeps == ASSUME IndexInv, NEW id \in Ids, Remove(id) PROVE IndexInv'
<1>1. importing' \subseteq Imported /\ importing' = importing
  BY DEF Remove, IndexInv, TypeOK
<1> QED BY <1>1, LifecycleKeeps DEF Remove

LEMMA ImportSessionKeeps == ASSUME IndexInv, NEW id \in Ids, ImportSession(id) PROVE IndexInv'
<1>1. importing \subseteq importing' /\ importing' \subseteq Imported /\ id \in importing' /\ sessions[id] = 0
  BY DEF ImportSession, IndexInv, TypeOK
<1>2. ~HasImport(lifecycles[id])
  BY DEF ImportSession, IndexInv, ImportsOK
<1> QED BY <1>1, <1>2, LifecycleKeeps DEF ImportSession

LEMMA BeginNextKeeps == ASSUME IndexInv, NEW id \in Ids, BeginNext(id) PROVE IndexInv'
<1>0. TypeOK /\ LifecyclesOK /\ ImportsOK
  BY DEF IndexInv
<1>1. /\ lifecycles[id] # <<>> /\ Head(lifecycles[id]).step = "waiting" /\ Begins(id, lifecycles[id], 1)
      /\ UNCHANGED <<indexFile, writing, owned, importing, files, calls, faults, crashes, version, buried, spoiled>>
  BY DEF BeginNext
<1> DEFINE ops == lifecycles[id]
<1>2. /\ ops \in Seq(Operations) /\ ChainOK(ops, version[id]) /\ 1 \in DOMAIN ops /\ ops[1].step = "waiting"
      /\ Phase(id) = "waiting" /\ (HasImport(ops) => id \in importing' /\ sessions[id] = 0)
  BY <1>0, <1>1 DEF TypeOK, LifecyclesOK, ImportsOK, Phase
<1> HIDE DEF ops
<1>3. /\ {sessions', acked'} \subseteq Indexes /\ writeQueue' \in Seq(Entry) /\ pending' \in BOOLEAN
      /\ lifecycles' \in [Ids -> Seq(Operations)]
      /\ lifecycles'[id] # <<>> /\ \A x \in Ids : x # id => lifecycles'[x] = lifecycles[x]
      /\ LifecyclesOK' /\ ImportsOK' /\ RemovalsOK' /\ ListsOK'
      /\ PendingOK' /\ FlushesOK' /\ PublicationsOK' /\ SnapshotOK'
  <2>1. Begins(id, ops, 1) /\ importing \subseteq importing' /\ UNCHANGED <<indexFile, writing, version, buried>>
    BY <1>1 DEF ops
  <2> QED BY <1>2, <2>1, BeginsKeeps
<1>4. owned' = {x \in Ids : lifecycles'[x] # <<>>}
  BY <1>0, <1>1, <1>3 DEF TypeOK
<1>5. TypeOK'
  BY <1>0, <1>1, <1>3, <1>4 DEF TypeOK, Entry
<1> QED BY <1>3, <1>5 DEF IndexInv

LEMMA WriteTranscriptKeeps == ASSUME IndexInv, NEW id \in Ids, NEW k, WriteTranscript(id, k) PROVE IndexInv'
<1>0. TypeOK /\ LifecyclesOK /\ ImportsOK
  BY DEF IndexInv
<1>1. /\ Step(id, k, "transcript")
      /\ UNCHANGED <<sessions, indexFile, writeQueue, pending, writing, calls, crashes, version, acked, buried, spoiled>>
  BY DEF WriteTranscript, queueVars, historyVars
<1>2. PICK to \in {"context", "undoing"} : Advances(id, k, to)
  BY DEF WriteTranscript
<1>3. /\ Phase(id) = "transcript" /\ Phase(id)' = to /\ lifecycles' \in [Ids -> Seq(Operations)]
      /\ \A x \in Ids : x # id => lifecycles'[x] = lifecycles[x]
      /\ ChainOK(lifecycles'[id], version[id]) /\ HasImport(lifecycles[id])
      /\ UNCHANGED importing /\ owned' = {x \in Ids : lifecycles'[x] # <<>>}
  BY <1>0, <1>1, <1>2, AdvancesFacts
<1>4. \A x \in Ids : \/ Phase(x)' = Phase(x)
                     \/ /\ Phase(x) \notin {"flushing", "erasing", "publishing"}
                        /\ Phase(x)' \notin {"flushing", "erasing"}
  <2>1. \A x \in Ids : x # id => Phase(x)' = Phase(x)
    BY <1>3 DEF Phase
  <2> QED BY <1>3, <2>1
<1>5. RemovalsOK' /\ ListsOK' /\ PendingOK' /\ FlushesOK' /\ PublicationsOK' /\ SnapshotOK'
  BY <1>1, <1>4, CalmKeeps
<1>6. LifecyclesOK' /\ ImportsOK'
  <2>1. id \in importing' /\ sessions'[id] = 0
    BY <1>0, <1>1, <1>3 DEF ImportsOK
  <2> QED BY <1>0, <1>1, <1>3, <2>1, OneChain
<1>7. files' \in [Ids -> {"none", "partial", "whole"}] /\ faults' \in 0 .. MaxFaults
  <2>1. files' = files \/ files' = [files EXCEPT ![id] = IF @ = "none" THEN "partial" ELSE @]
    BY DEF WriteTranscript
  <2>2. UNCHANGED faults \/ (faults < MaxFaults /\ faults' = faults + 1)
    BY DEF WriteTranscript
  <2>3. MaxFaults \in Nat
    BY SessionIndexAssumption
  <2>4. files' \in [Ids -> {"none", "partial", "whole"}]
    BY <1>0, <2>1 DEF TypeOK
  <2> QED BY <1>0, <2>2, <2>3, <2>4 DEF TypeOK
<1>8. TypeOK'
  BY <1>0, <1>1, <1>3, <1>7 DEF TypeOK
<1> QED BY <1>5, <1>6, <1>8 DEF IndexInv

(* A publication is queued behind the flushes. *)
LEMMA PublicationQueued ==
  ASSUME IndexInv, NEW id \in Ids, NEW v \in Versions, Phase(id) = "context", Phase(id)' = "publishing",
         \A x \in Ids : x # id => Phase(x)' = Phase(x) /\ version'[x] = version[x],
         version'[id] = v, v > version[id],
         writeQueue' = Append(writeQueue, [kind |-> "publish", callers |-> {<<id, v>>}]),
         UNCHANGED <<sessions, indexFile, pending, writing, acked, buried>>
  PROVE  /\ writeQueue' \in Seq(Entry)
         /\ RemovalsOK' /\ ListsOK' /\ PendingOK' /\ FlushesOK' /\ PublicationsOK' /\ SnapshotOK'
<1>0. TypeOK /\ RemovalsOK /\ ListsOK /\ PendingOK /\ FlushesOK /\ PublicationsOK /\ SnapshotOK
  BY DEF IndexInv
<1> DEFINE new == [kind |-> "publish", callers |-> {<<id, v>>}]
<1>1. new \in Entry /\ new.kind = "publish" /\ new.callers = {<<id, v>>}
  BY DEF Entry, Callers
<1>2. writeQueue \in Seq(Entry) /\ writeQueue' = Append(writeQueue, new)
  BY <1>0 DEF TypeOK, Entry
<1> HIDE DEF new
<1>n. PICK n : n = Len(writeQueue) + 1
  OBVIOUS
<1>3. /\ writeQueue' \in Seq(Entry) /\ n \in DOMAIN writeQueue' /\ writeQueue'[n] = new
      /\ DOMAIN writeQueue' = DOMAIN writeQueue \cup {n} /\ n \notin DOMAIN writeQueue
      /\ \A i \in DOMAIN writeQueue : writeQueue'[i] = writeQueue[i]
      /\ writeQueue' # <<>> /\ DOMAIN writeQueue' \subseteq Nat
  BY <1>1, <1>2, <1>n
<1>4. \A i \in DOMAIN writeQueue' : Flush(i)' => i \in DOMAIN writeQueue /\ Flush(i)
  BY <1>1, <1>3 DEF Flush
<1>5. \A i \in DOMAIN writeQueue, x \in Ids, u \in Versions : Asks(i, x, u)' <=> Asks(i, x, u)
  BY <1>3 DEF Asks
<1>6. \A x \in Ids, u \in Versions : Asks(n, x, u)' => x = id /\ u = v
  BY <1>1, <1>3 DEF Asks
<1>7. \A x \in Ids : /\ version[x] \in Nat /\ version'[x] \in Nat /\ buried[x] \in Nat
                     /\ version[x] <= version'[x] /\ v \in Nat
  <2>1. Versions \subseteq Nat /\ \A x \in Ids : version[x] \in Nat /\ buried[x] \in Nat
    BY <1>0, Numbers
  <2> QED BY <2>1
<1>8. \A x \in Ids, u \in Nat : u <= version[x] => u <= version'[x]
  BY <1>7
<1>9. PendingOK'
  <2>1. ASSUME pending
        PROVE  \E i \in DOMAIN writeQueue' : /\ Flush(i)' /\ \A j \in DOMAIN writeQueue' : Flush(j)' => j <= i
                                             /\ writing # <<>> => i # 1
    <3>1. PICK i \in DOMAIN writeQueue : /\ Flush(i) /\ \A j \in DOMAIN writeQueue : Flush(j) => j <= i
                                         /\ writing # <<>> => i # 1
      BY <1>0, <2>1 DEF PendingOK
    <3>2. i \in DOMAIN writeQueue' /\ Flush(i)'
      BY <1>3, <3>1 DEF Flush
    <3> QED BY <1>4, <3>1, <3>2
  <2> QED BY <1>3, <2>1 DEF PendingOK
<1>10. FlushesOK'
  <2> SUFFICES ASSUME NEW i \in DOMAIN writeQueue', NEW x \in Ids, NEW u \in Versions, Flush(i)', Asks(i, x, u)'
               PROVE  /\ u <= version'[x] /\ Phase(x)' # "erasing"
                      /\ u = 0 => /\ Phase(x)' = "flushing"
                                  /\ \A j \in DOMAIN writeQueue', w \in Versions :
                                       Flush(j)' /\ Asks(j, x, w)' => j <= i
                      /\ Phase(x)' # "flushing" => u <= sessions'[x]
    BY DEF FlushesOK
  <2>1. i \in DOMAIN writeQueue /\ Flush(i) /\ Asks(i, x, u)
    BY <1>4, <1>5
  <2>2. /\ u <= version[x] /\ Phase(x) # "erasing"
        /\ u = 0 => /\ Phase(x) = "flushing"
                    /\ \A j \in DOMAIN writeQueue, w \in Versions : Flush(j) /\ Asks(j, x, w) => j <= i
        /\ Phase(x) # "flushing" => u <= sessions[x]
    BY <1>0, <2>1 DEF FlushesOK
  <2>3. u <= version'[x]
    BY <1>0, <1>8, <2>2, Numbers
  <2>4. Phase(x)' = Phase(x) \/ (Phase(x) = "context" /\ Phase(x)' = "publishing")
    OBVIOUS
  <2> QED BY <1>4, <1>5, <2>2, <2>3, <2>4
<1>11. PublicationsOK'
  <2> SUFFICES ASSUME NEW i \in DOMAIN writeQueue', NEW x \in Ids, NEW u \in Versions, Publish(i)', Asks(i, x, u)'
               PROVE  /\ Phase(x)' = "publishing" /\ u <= version'[x] /\ u > buried'[x]
                      /\ \A j \in DOMAIN writeQueue', w \in Versions : Publish(j)' /\ Asks(j, x, w)' => j = i
    BY DEF PublicationsOK
  <2>1. \A j \in DOMAIN writeQueue, w \in Versions : Publish(j)' /\ Asks(j, x, w)' => Publish(j) /\ Asks(j, x, w)
    BY <1>3, <1>5 DEF Publish
  <2>2. CASE i = n
    <3>1. x = id /\ u = v
      BY <1>6, <2>2
    <3>2. v > buried[id]
      BY <1>0, <1>7 DEF ListsOK
    <3>3. \A j \in DOMAIN writeQueue, w \in Versions : ~(Publish(j) /\ Asks(j, id, w))
      BY <1>0 DEF PublicationsOK
    <3> QED BY <1>3, <1>7, <2>1, <2>2, <3>1, <3>2, <3>3
  <2>3. CASE i \in DOMAIN writeQueue
    <3>1. /\ Phase(x) = "publishing" /\ u <= version[x] /\ u > buried[x]
          /\ \A j \in DOMAIN writeQueue, w \in Versions : Publish(j) /\ Asks(j, x, w) => j = i
      BY <1>0, <2>1, <2>3 DEF PublicationsOK
    <3>2. x # id
      BY <3>1
    <3> QED BY <1>3, <1>6, <2>1, <3>1, <3>2
  <2> QED BY <1>3, <2>2, <2>3
<1>12. SnapshotOK'
  <2> SUFFICES ASSUME writing # <<>> PROVE SnapshotOK'
    BY DEF SnapshotOK
  <2>1. 1 \in DOMAIN writeQueue /\ writeQueue'[1] = writeQueue[1]
    BY <1>0, <1>2, <1>3 DEF PendingOK
  <2>2. \A x \in Ids, u \in Versions : Asks(1, x, u)' <=> Asks(1, x, u)
    BY <1>5, <2>1
  <2>3. Current(writing[1])'
    BY <1>0, <1>8, Numbers DEF SnapshotOK, Current
  <2>4. \A x \in Ids : /\ Phase(x)' = "erasing" => Phase(x) = "erasing"
                       /\ Phase(x)' # "flushing" => Phase(x) # "flushing"
    OBVIOUS
  <2> QED BY <1>0, <2>1, <2>2, <2>3, <2>4 DEF SnapshotOK
<1>13. RemovalsOK'
  BY <1>0 DEF RemovalsOK
<1>14. ListsOK'
  BY <1>0, <1>8, Numbers DEF ListsOK, Current
<1> QED BY <1>3, <1>9, <1>10, <1>11, <1>12, <1>13, <1>14

LEMMA WriteContextKeeps == ASSUME IndexInv, NEW id \in Ids, NEW k, WriteContext(id, k) PROVE IndexInv'
<1>0. TypeOK /\ LifecyclesOK /\ ImportsOK
  BY DEF IndexInv
<1>1. /\ Step(id, k, "context")
      /\ UNCHANGED <<sessions, indexFile, pending, writing, calls, crashes, acked, buried, spoiled>>
  BY DEF WriteContext
<1>2. PICK to \in {"publishing", "undoing"} : Advances(id, k, to)
        /\ (to = "undoing" => UNCHANGED <<files, version, writeQueue>> /\ faults < MaxFaults /\ faults' = faults + 1)
        /\ (to = "publishing" =>
              /\ version' = [version EXCEPT ![id] = @ + 1] /\ files' = [files EXCEPT ![id] = "whole"]
              /\ writeQueue' = Append(writeQueue, [kind |-> "publish", callers |-> {<<id, version'[id]>>}])
              /\ UNCHANGED faults)
  BY DEF WriteContext
<1>3. /\ Phase(id) = "context" /\ Phase(id)' = to /\ lifecycles' \in [Ids -> Seq(Operations)]
      /\ \A x \in Ids : x # id => lifecycles'[x] = lifecycles[x]
      /\ ChainOK(lifecycles'[id], version[id]) /\ HasImport(lifecycles[id])
      /\ UNCHANGED importing /\ owned' = {x \in Ids : lifecycles'[x] # <<>>} /\ version[id] < MaxVersion
  BY <1>0, <1>1, <1>2, AdvancesFacts
<1>4. id \in importing' /\ sessions'[id] = 0
  BY <1>0, <1>1, <1>3 DEF ImportsOK
<1>5. \A x \in Ids : x # id => Phase(x)' = Phase(x)
  BY <1>3 DEF Phase
<1>6. CASE to = "undoing"
  <2>1. UNCHANGED <<files, version, writeQueue>> /\ faults' \in 0 .. MaxFaults
    BY <1>0, <1>2, <1>6, SessionIndexAssumption DEF TypeOK
  <2>2. \A x \in Ids : \/ Phase(x)' = Phase(x)
                       \/ /\ Phase(x) \notin {"flushing", "erasing", "publishing"}
                          /\ Phase(x)' \notin {"flushing", "erasing"}
    BY <1>3, <1>5, <1>6
  <2>3. RemovalsOK' /\ ListsOK' /\ PendingOK' /\ FlushesOK' /\ PublicationsOK' /\ SnapshotOK'
    BY <1>1, <2>1, <2>2, CalmKeeps
  <2>4. LifecyclesOK' /\ ImportsOK'
    BY <1>0, <1>1, <1>3, <1>4, <2>1, OneChain
  <2>5. TypeOK'
    BY <1>0, <1>1, <1>3, <2>1 DEF TypeOK
  <2> QED BY <2>3, <2>4, <2>5 DEF IndexInv
<1>7. CASE to = "publishing"
  <2> DEFINE v == version[id] + 1
  <2>1. v \in Versions /\ v > version[id] /\ version[id] \in Nat /\ v \in Nat
    BY <1>0, <1>3, Numbers
  <2>2. /\ version' = [version EXCEPT ![id] = v] /\ version'[id] = v /\ version' \in [Ids -> Versions]
        /\ \A x \in Ids : x # id => version'[x] = version[x]
    BY <1>0, <1>2, <1>7, <2>1, Numbers
  <2>3. /\ files' = [files EXCEPT ![id] = "whole"] /\ UNCHANGED faults
        /\ writeQueue' = Append(writeQueue, [kind |-> "publish", callers |-> {<<id, v>>}])
    BY <1>2, <1>7, <2>2
  <2> HIDE DEF v
  <2>4. /\ writeQueue' \in Seq(Entry)
        /\ RemovalsOK' /\ ListsOK' /\ PendingOK' /\ FlushesOK' /\ PublicationsOK' /\ SnapshotOK'
    BY <1>1, <1>3, <1>5, <1>7, <2>1, <2>2, <2>3, PublicationQueued
  <2>5. ChainOK(lifecycles'[id], version'[id])
    <3> DEFINE c == lifecycles'[id]
    <3>1. ChainOK(c, version[id]) /\ c # <<>> /\ c \in Seq(Operations) /\ c[1].step = "publishing"
      BY <1>3, <1>7 DEF Phase
    <3>2. 1 \in DOMAIN c /\ \A j \in DOMAIN c : j # 1 => c[j].op # "import"
      <4>1. 1 \in DOMAIN c /\ c[1] \in Operations
        BY <3>1
      <4>2. c[1].op = "import"
        BY <3>1, <4>1 DEF ChainOK, Operations, RemoveSteps
      <4> QED BY <3>1, <4>1, <4>2 DEF ChainOK
    <3> HIDE DEF c
    <3>3. ChainOK(c, v)
      BY <2>1, <3>1, <3>2 DEF ChainOK
    <3> QED BY <2>2, <3>3 DEF c
  <2>6. LifecyclesOK' /\ ImportsOK'
    BY <1>0, <1>1, <1>3, <1>4, <2>2, <2>5, OneChain
  <2>7. TypeOK'
    BY <1>0, <1>1, <1>3, <2>2, <2>3, <2>4 DEF TypeOK, Entry, Indexes
  <2> QED BY <2>4, <2>6, <2>7 DEF IndexInv
<1> QED BY <1>6, <1>7

LEMMA UndoImportKeeps == ASSUME IndexInv, NEW id \in Ids, NEW k, UndoImport(id, k) PROVE IndexInv'
<1>0. TypeOK /\ LifecyclesOK /\ ImportsOK
  BY DEF IndexInv
<1>1. /\ Step(id, k, "undoing") /\ Settles(id, k)
      /\ UNCHANGED <<sessions, indexFile, writeQueue, pending, writing, calls, crashes, version, acked, buried, spoiled>>
  BY DEF UndoImport, queueVars, historyVars
<1>2. /\ Phase(id) = "undoing" /\ Phase(id)' \in {"idle", "waiting"} /\ lifecycles' \in [Ids -> Seq(Operations)]
      /\ \A x \in Ids : x # id => lifecycles'[x] = lifecycles[x]
      /\ ChainOK(lifecycles'[id], version[id]) /\ ~HasImport(lifecycles'[id])
      /\ owned' = {x \in Ids : lifecycles'[x] # <<>>}
      /\ importing' \subseteq Imported /\ \A x \in Ids : x # id => (x \in importing' <=> x \in importing)
  BY <1>0, <1>1, SettlesFacts
<1>3. \A x \in Ids : \/ Phase(x)' = Phase(x)
                     \/ /\ Phase(x) \notin {"flushing", "erasing", "publishing"}
                        /\ Phase(x)' \notin {"flushing", "erasing"}
  <2>1. \A x \in Ids : x # id => Phase(x)' = Phase(x)
    BY <1>2 DEF Phase
  <2> QED BY <1>2, <2>1
<1>4. RemovalsOK' /\ ListsOK' /\ PendingOK' /\ FlushesOK' /\ PublicationsOK' /\ SnapshotOK'
  BY <1>1, <1>3, CalmKeeps
<1>5. LifecyclesOK' /\ ImportsOK'
  BY <1>0, <1>1, <1>2, OneChain
<1>6. files' \in [Ids -> {"none", "partial", "whole"}] /\ faults' \in 0 .. MaxFaults
  <2>1. /\ files' = files \/ files' = [files EXCEPT ![id] = "none"]
        /\ UNCHANGED faults \/ (faults < MaxFaults /\ faults' = faults + 1)
    BY DEF UndoImport
  <2>2. MaxFaults \in Nat
    BY SessionIndexAssumption
  <2>3. files' \in [Ids -> {"none", "partial", "whole"}]
    BY <1>0, <2>1 DEF TypeOK
  <2> QED BY <1>0, <2>1, <2>2, <2>3 DEF TypeOK
<1>7. TypeOK'
  BY <1>0, <1>1, <1>2, <1>6 DEF TypeOK
<1> QED BY <1>4, <1>5, <1>7 DEF IndexInv

(* The head of the chain is a flush or a publication. *)
LEMMA HeadFacts ==
  ASSUME TypeOK, writeQueue # <<>>
  PROVE  /\ 1 \in DOMAIN writeQueue /\ Head(writeQueue) = writeQueue[1] /\ Head(writeQueue) \in Entry
         /\ writeQueue[1].kind \in {"flush", "publish"} /\ (Flush(1) \/ Publish(1))
<1>1. writeQueue \in Seq(Entry)
  BY DEF TypeOK, Entry
<1>2. 1 \in DOMAIN writeQueue /\ Head(writeQueue) = writeQueue[1] /\ Head(writeQueue) \in Entry
  BY <1>1
<1>3. writeQueue[1].kind \in {"flush", "publish"}
  BY <1>2 DEF Entry
<1> QED BY <1>2, <1>3 DEF Flush, Publish

(* A written list is an index. *)
LEMMA Written ==
  ASSUME NEW index \in Indexes
  PROVE  <<index>> \in [{1} -> Indexes] /\ <<index>>[1] = index /\ <<index>> # <<>>
<1>1. <<index>> \in Seq(Indexes) /\ DOMAIN <<index>> = {1}
  OBVIOUS
<1> QED BY <1>1

LEMMA EraseFilesKeeps == ASSUME IndexInv, NEW id \in Ids, NEW k, EraseFiles(id, k) PROVE IndexInv'
<1>0. /\ TypeOK /\ LifecyclesOK /\ ImportsOK /\ RemovalsOK /\ ListsOK
      /\ PendingOK /\ FlushesOK /\ PublicationsOK /\ SnapshotOK
  BY DEF IndexInv
<1>1. /\ Step(id, k, "erasing") /\ Settles(id, k)
      /\ UNCHANGED <<sessions, indexFile, writeQueue, pending, writing, calls, crashes, version, acked, spoiled>>
      /\ UNCHANGED buried \/ buried' = [buried EXCEPT ![id] = version[id]]
  BY DEF EraseFiles, queueVars
<1>2. /\ Phase(id) = "erasing" /\ Phase(id)' \in {"idle", "waiting"} /\ lifecycles' \in [Ids -> Seq(Operations)]
      /\ \A x \in Ids : x # id => lifecycles'[x] = lifecycles[x]
      /\ ChainOK(lifecycles'[id], version[id]) /\ (HasImport(lifecycles'[id]) => HasImport(lifecycles[id]))
      /\ owned' = {x \in Ids : lifecycles'[x] # <<>>}
      /\ importing' \subseteq Imported /\ importing' = importing
  BY <1>0, <1>1, SettlesFacts
<1>3. \A x \in Ids : x # id => Phase(x)' = Phase(x)
  BY <1>2 DEF Phase
<1>4. /\ sessions[id] = 0 /\ indexFile[id] = 0 /\ (writing # <<>> => writing[1][id] = 0)
      /\ buried' \in [Ids -> Versions] /\ buried'[id] <= version[id]
      /\ \A x \in Ids : x # id => buried'[x] = buried[x]
  <2>1. buried \in [Ids -> Versions] /\ version \in [Ids -> Versions] /\ Versions \subseteq Nat
    BY <1>0, Numbers
  <2>2. sessions[id] = 0 /\ indexFile[id] = 0 /\ buried[id] <= version[id]
    BY <1>0, <1>2 DEF RemovalsOK, ListsOK
  <2>3. writing # <<>> => writing[1][id] = 0
    BY <1>0, <1>2 DEF SnapshotOK
  <2>4. CASE buried' = [buried EXCEPT ![id] = version[id]]
    <3>1. buried' \in [Ids -> Versions] /\ buried'[id] = version[id] /\ version[id] \in Nat
          /\ \A x \in Ids : x # id => buried'[x] = buried[x]
      BY <2>1, <2>4
    <3> QED BY <2>2, <2>3, <3>1
  <2> QED BY <1>1, <2>1, <2>2, <2>3, <2>4
<1>5. \A i \in DOMAIN writeQueue, v \in Versions : (Flush(i) \/ Publish(i)) => ~Asks(i, id, v)
  BY <1>0, <1>2 DEF FlushesOK, PublicationsOK
<1>6. LifecyclesOK' /\ ImportsOK'
  <2>1. HasImport(lifecycles'[id]) => id \in importing' /\ sessions'[id] = 0
    BY <1>0, <1>1, <1>2 DEF ImportsOK
  <2> QED BY <1>0, <1>1, <1>2, <2>1, OneChain
<1>7. RemovalsOK'
  BY <1>0, <1>1, <1>2, <1>3 DEF RemovalsOK
<1>8. ListsOK'
  <2>1. Current(sessions)' /\ Current(indexFile)'
    BY <1>0, <1>1, <1>4 DEF ListsOK, Current
  <2> QED BY <1>0, <1>1, <1>4, <2>1 DEF ListsOK
<1>9. PendingOK'
  BY <1>0, <1>1 DEF PendingOK, Flush
<1>10. FlushesOK'
  <2>1. \A i \in DOMAIN writeQueue : Flush(i)' <=> Flush(i)
    BY <1>1 DEF Flush
  <2>2. \A i \in DOMAIN writeQueue, x \in Ids, v \in Versions : Asks(i, x, v)' <=> Asks(i, x, v)
    BY <1>1 DEF Asks
  <2> QED BY <1>0, <1>1, <1>3, <1>5, <2>1, <2>2 DEF FlushesOK
<1>11. PublicationsOK'
  <2>1. \A i \in DOMAIN writeQueue : Publish(i)' <=> Publish(i)
    BY <1>1 DEF Publish
  <2>2. \A i \in DOMAIN writeQueue, x \in Ids, v \in Versions : Asks(i, x, v)' <=> Asks(i, x, v)
    BY <1>1 DEF Asks
  <2> QED BY <1>0, <1>1, <1>3, <1>4, <1>5, <2>1, <2>2 DEF PublicationsOK
<1>12. SnapshotOK'
  <2> SUFFICES ASSUME writing # <<>> PROVE SnapshotOK'
    BY <1>1 DEF SnapshotOK
  <2>1. Current(writing[1])'
    BY <1>0, <1>1, <1>4 DEF SnapshotOK, Current
  <2>2. \A x \in Ids, v \in Versions : Asks(1, x, v)' => Asks(1, x, v) /\ x # id
    <3>1. 1 \in DOMAIN writeQueue /\ (Flush(1) \/ Publish(1))
      BY <1>0, HeadFacts DEF PendingOK
    <3> QED BY <1>1, <1>5, <3>1 DEF Asks
  <2>3. \A x \in Ids : Phase(x)' = "erasing" => Phase(x) = "erasing"
    BY <1>2, <1>3
  <2> QED BY <1>0, <1>1, <1>3, <2>1, <2>2, <2>3 DEF SnapshotOK
<1>13. files' \in [Ids -> {"none", "partial", "whole"}] /\ faults' \in 0 .. MaxFaults
  <2>1. /\ files' = [files EXCEPT ![id] = "none"] \/ files' = [files EXCEPT ![id] = IF @ = "whole" THEN "partial" ELSE @]
        /\ UNCHANGED faults \/ (faults < MaxFaults /\ faults' = faults + 1)
    BY DEF EraseFiles
  <2>2. MaxFaults \in Nat
    BY SessionIndexAssumption
  <2>3. files' \in [Ids -> {"none", "partial", "whole"}]
    BY <1>0, <2>1 DEF TypeOK
  <2> QED BY <1>0, <2>1, <2>2, <2>3 DEF TypeOK
<1>14. TypeOK'
  BY <1>0, <1>1, <1>2, <1>4, <1>13 DEF TypeOK, Indexes
<1> QED BY <1>6, <1>7, <1>8, <1>9, <1>10, <1>11, <1>12, <1>14 DEF IndexInv

LEMMA StartWriteKeeps == ASSUME IndexInv, StartWrite PROVE IndexInv'
<1>0. /\ TypeOK /\ LifecyclesOK /\ ImportsOK /\ RemovalsOK /\ ListsOK
      /\ PendingOK /\ FlushesOK /\ PublicationsOK /\ SnapshotOK
  BY DEF IndexInv
<1> DEFINE entry == writeQueue[1]
           snapshot == Snapshot(entry)
<1>1. /\ 1 \in DOMAIN writeQueue /\ Head(writeQueue) = entry /\ entry.kind \in {"flush", "publish"}
      /\ Flush(1) \/ Publish(1)
  BY <1>0, HeadFacts DEF StartWrite
<1>2. /\ writeQueue # <<>> /\ writing = <<>> /\ writing' = <<snapshot>>
      /\ pending' = (pending /\ entry.kind = "publish")
      /\ UNCHANGED <<sessions, indexFile, writeQueue, lifecycles, owned, importing, files,
                     calls, faults, crashes, version, acked, buried, spoiled>>
  BY <1>1 DEF StartWrite, historyVars
<1>n. /\ Versions \subseteq Nat /\ sessions \in [Ids -> Versions]
      /\ \A x \in Ids : {sessions[x], version[x]} \subseteq Versions
      /\ \A x \in Ids : sessions[x] \in Nat /\ version[x] \in Nat /\ acked[x] \in Nat /\ buried[x] \in Nat
  BY <1>0, Numbers
<1>3. CASE entry.kind = "flush"
  <2>1. snapshot = sessions
    BY <1>3 DEF Snapshot
  <2>2. writing' # <<>> /\ writing'[1] = sessions /\ writing' \in [{1} -> Indexes] /\ pending' = FALSE
    <3>1. sessions \in Indexes /\ writing' = <<sessions>>
      BY <1>2, <1>n, <2>1 DEF Indexes
    <3>2. pending' = FALSE
      BY <1>2, <1>3
    <3> QED BY <3>1, <3>2, Written
  <2>3. PendingOK'
    BY <1>2, <2>2 DEF PendingOK
  <2>4. SnapshotOK'
    <3>1. Current(sessions)
      BY <1>0 DEF ListsOK
    <3>2. \A id \in Ids : Phase(id) \in {"flushing", "erasing"} => sessions[id] = 0
      BY <1>0 DEF RemovalsOK
    <3>3. \A id \in Ids, v \in Versions : Asks(1, id, v) =>
            (v = 0 => Phase(id) = "flushing") /\ (Phase(id) # "flushing" => v <= sessions[id])
      BY <1>0, <1>1, <1>3 DEF FlushesOK, Flush
    <3>4. \A id \in Ids : Phase(id)' = Phase(id)
      BY <1>2 DEF Phase
    <3>5. \A id \in Ids, v \in Versions : Asks(1, id, v)' <=> Asks(1, id, v)
      BY <1>2 DEF Asks
    <3>6. Current(writing[1])'
      BY <1>2, <2>2, <3>1 DEF Current
    <3> QED BY <1>2, <1>3, <2>2, <3>2, <3>3, <3>4, <3>5, <3>6 DEF SnapshotOK
  <2>5. TypeOK'
    BY <1>0, <1>2, <2>2 DEF TypeOK
  <2>6. LifecyclesOK' /\ ImportsOK' /\ RemovalsOK' /\ ListsOK'
    BY <1>0, <1>2 DEF LifecyclesOK, ImportsOK, RemovalsOK, ListsOK, Current, Phase
  <2>7. FlushesOK' /\ PublicationsOK'
    BY <1>0, <1>2 DEF FlushesOK, PublicationsOK, Phase, Flush, Publish, Asks
  <2> QED BY <2>3, <2>4, <2>5, <2>6, <2>7 DEF IndexInv
<1>4. CASE entry.kind = "publish"
  <2>1. snapshot = [id \in Ids |-> IF \E v \in Versions : Asks(1, id, v) THEN version[id] ELSE sessions[id]]
    BY <1>4 DEF Snapshot, Asks
  <2>2. /\ writing' # <<>> /\ writing'[1] = snapshot /\ writing' \in [{1} -> Indexes] /\ pending' = pending
        /\ \A id \in Ids : snapshot[id] = IF \E v \in Versions : Asks(1, id, v) THEN version[id] ELSE sessions[id]
    <3>1. snapshot \in Indexes
      BY <1>n, <2>1 DEF Indexes
    <3>2. pending' = pending
      BY <1>0, <1>2, <1>4 DEF TypeOK
    <3> HIDE DEF snapshot
    <3> QED BY <1>2, <2>1, <3>1, <3>2, Written
  <2> HIDE DEF snapshot
  <2>3. PendingOK'
    <3>1. \A i \in DOMAIN writeQueue : Flush(i)' <=> Flush(i)
      BY <1>2 DEF Flush
    <3>2. ~Flush(1)
      BY <1>4 DEF Flush
    <3> QED BY <1>0, <1>2, <2>2, <3>1, <3>2 DEF PendingOK
  <2>4. \A id \in Ids, v \in Versions : Asks(1, id, v) =>
          Phase(id) = "publishing" /\ v <= version[id] /\ v > buried[id]
    BY <1>0, <1>1, <1>4 DEF PublicationsOK, Publish
  <2>5. SnapshotOK'
    <3>1. \A id \in Ids : acked[id] <= sessions[id] /\ sessions[id] <= version[id]
                          /\ (sessions[id] = 0 \/ sessions[id] > buried[id])
      BY <1>0 DEF ListsOK, Current
    <3>2. \A id \in Ids : acked[id] <= snapshot[id] /\ snapshot[id] <= version[id]
                          /\ (snapshot[id] = 0 \/ snapshot[id] > buried[id])
      <4> TAKE id \in Ids
      <4>1. CASE \E v \in Versions : Asks(1, id, v)
        <5>1. PICK v \in Versions : Asks(1, id, v)
          BY <4>1
        <5>2. snapshot[id] = version[id] /\ v \in Nat /\ v <= version[id] /\ v > buried[id]
          BY <1>n, <2>2, <2>4, <5>1
        <5>3. version[id] \in Nat /\ acked[id] \in Nat /\ sessions[id] \in Nat /\ buried[id] \in Nat
          BY <1>n
        <5> QED BY <3>1, <5>2, <5>3
      <4>2. CASE ~ \E v \in Versions : Asks(1, id, v)
        BY <2>2, <3>1, <4>2
      <4> QED BY <4>1, <4>2
    <3>3. Current(writing[1])'
      BY <1>2, <2>2, <3>2 DEF Current
    <3>4. \A id \in Ids : Phase(id)' = Phase(id)
      BY <1>2 DEF Phase
    <3>5. \A id \in Ids, v \in Versions : Asks(1, id, v)' <=> Asks(1, id, v)
      BY <1>2 DEF Asks
    <3>6. \A id \in Ids : Phase(id) = "erasing" => snapshot[id] = 0
      BY <1>0, <2>2, <2>4 DEF RemovalsOK
    <3>7. \A id \in Ids, v \in Versions : Asks(1, id, v) => v <= snapshot[id]
      BY <2>2, <2>4
    <3> QED BY <1>2, <1>4, <2>2, <3>3, <3>4, <3>5, <3>6, <3>7 DEF SnapshotOK
  <2>6. TypeOK'
    BY <1>0, <1>2, <2>2 DEF TypeOK
  <2>7. LifecyclesOK' /\ ImportsOK' /\ RemovalsOK' /\ ListsOK'
    BY <1>0, <1>2 DEF LifecyclesOK, ImportsOK, RemovalsOK, ListsOK, Current, Phase
  <2>8. FlushesOK' /\ PublicationsOK'
    BY <1>0, <1>2 DEF FlushesOK, PublicationsOK, Phase, Flush, Publish, Asks
  <2> QED BY <2>3, <2>5, <2>6, <2>7, <2>8 DEF IndexInv
<1> QED BY <1>1, <1>3, <1>4

(* The head leaves the chain; the rest keeps its order and asks what it asked. *)
LEMMA DequeuedEntries ==
  ASSUME TypeOK, PendingOK, FlushesOK, PublicationsOK, writing # <<>>, Dequeue, UNCHANGED <<version, buried>>,
         \A x \in Ids :
            \/ Phase(x)' = Phase(x) /\ sessions'[x] = sessions[x]
            \/ /\ \A i \in DOMAIN writeQueue, v \in Versions : i # 1 => ~(Flush(i) /\ Asks(i, x, v))
               /\ Phase(x) # "publishing"
            \/ /\ \A i \in DOMAIN writeQueue, v \in Versions : i # 1 => ~(Publish(i) /\ Asks(i, x, v))
               /\ Phase(x) # "flushing" /\ Phase(x)' \notin {"flushing", "erasing"}
               /\ sessions'[x] \in {sessions[x], version[x]}
  PROVE  FlushesOK' /\ PublicationsOK' /\ SnapshotOK'
<1>1. /\ writeQueue' \in Seq(Entry) /\ writing' = <<>> /\ pending' = pending
      /\ \A i \in DOMAIN writeQueue' : i + 1 \in DOMAIN writeQueue /\ writeQueue'[i] = writeQueue[i + 1]
      /\ \A i \in DOMAIN writeQueue : i # 1 => i - 1 \in DOMAIN writeQueue'
  BY Dequeued
<1>2. DOMAIN writeQueue' \subseteq Nat \ {0} /\ DOMAIN writeQueue \subseteq Nat
  BY <1>1 DEF TypeOK
<1>3. \A i \in DOMAIN writeQueue' : /\ i + 1 \in DOMAIN writeQueue /\ i + 1 # 1
                                    /\ Flush(i)' <=> Flush(i + 1)
                                    /\ Publish(i)' <=> Publish(i + 1)
                                    /\ \A x \in Ids, v \in Versions : Asks(i, x, v)' <=> Asks(i + 1, x, v)
  BY <1>1, <1>2 DEF Flush, Publish, Asks
<1>4. FlushesOK'
  <2> SUFFICES ASSUME NEW i \in DOMAIN writeQueue', NEW x \in Ids, NEW u \in Versions, Flush(i)', Asks(i, x, u)'
               PROVE  /\ u <= version'[x] /\ Phase(x)' # "erasing"
                      /\ u = 0 => /\ Phase(x)' = "flushing"
                                  /\ \A j \in DOMAIN writeQueue', w \in Versions :
                                       Flush(j)' /\ Asks(j, x, w)' => j <= i
                      /\ Phase(x)' # "flushing" => u <= sessions'[x]
    BY DEF FlushesOK
  <2>1. i + 1 \in DOMAIN writeQueue /\ i + 1 # 1 /\ Flush(i + 1) /\ Asks(i + 1, x, u)
    BY <1>3
  <2>2. /\ u <= version[x] /\ Phase(x) # "erasing"
        /\ u = 0 => /\ Phase(x) = "flushing"
                    /\ \A j \in DOMAIN writeQueue, w \in Versions : Flush(j) /\ Asks(j, x, w) => j <= i + 1
        /\ Phase(x) # "flushing" => u <= sessions[x]
    BY <2>1 DEF FlushesOK
  <2>3. CASE Phase(x)' = Phase(x) /\ sessions'[x] = sessions[x]
    <3>1. ASSUME u = 0, NEW j \in DOMAIN writeQueue', NEW w \in Versions, Flush(j)', Asks(j, x, w)'
          PROVE  j <= i
      <4>1. j + 1 <= i + 1
        BY <1>3, <2>2, <3>1
      <4> QED BY <1>2, <4>1
    <3> QED BY <2>2, <2>3, <3>1
  <2>4. CASE /\ Phase(x) # "flushing" /\ Phase(x)' \notin {"flushing", "erasing"}
             /\ sessions'[x] \in {sessions[x], version[x]}
    BY <2>2, <2>4
  <2> QED BY <2>1, <2>3, <2>4
<1>5. PublicationsOK'
  <2> SUFFICES ASSUME NEW i \in DOMAIN writeQueue', NEW x \in Ids, NEW u \in Versions, Publish(i)', Asks(i, x, u)'
               PROVE  /\ Phase(x)' = "publishing" /\ u <= version'[x] /\ u > buried'[x]
                      /\ \A j \in DOMAIN writeQueue', w \in Versions : Publish(j)' /\ Asks(j, x, w)' => j = i
    BY DEF PublicationsOK
  <2>1. i + 1 \in DOMAIN writeQueue /\ i + 1 # 1 /\ Publish(i + 1) /\ Asks(i + 1, x, u)
    BY <1>3
  <2>2. /\ Phase(x) = "publishing" /\ u <= version[x] /\ u > buried[x]
        /\ \A j \in DOMAIN writeQueue, w \in Versions : Publish(j) /\ Asks(j, x, w) => j = i + 1
    BY <2>1 DEF PublicationsOK
  <2>3. Phase(x)' = Phase(x)
    BY <2>1, <2>2
  <2>4. ASSUME NEW j \in DOMAIN writeQueue', NEW w \in Versions, Publish(j)', Asks(j, x, w)'
        PROVE  j = i
    <3>1. j + 1 = i + 1
      BY <1>3, <2>2, <2>4
    <3> QED BY <1>2, <3>1
  <2> QED BY <2>2, <2>3, <2>4
<1>6. SnapshotOK'
  BY <1>1 DEF SnapshotOK
<1> QED BY <1>4, <1>5, <1>6

LEMMA PublishSavedKeeps == ASSUME IndexInv, PublishSaved PROVE IndexInv'
<1>0. /\ TypeOK /\ LifecyclesOK /\ ImportsOK /\ RemovalsOK /\ ListsOK
      /\ PendingOK /\ FlushesOK /\ PublicationsOK /\ SnapshotOK
  BY DEF IndexInv
<1>1. PICK id \in Ids, k \in 1 .. MaxCalls :
        /\ writing # <<>> /\ Head(writeQueue).callers = {<<id, version[id]>>}
        /\ Head(writeQueue).kind = "publish" /\ Step(id, k, "publishing")
        /\ indexFile' = writing[1] /\ sessions' = [sessions EXCEPT ![id] = version[id]]
        /\ acked' = [acked EXCEPT ![id] = version[id]]
        /\ spoiled' = (spoiled \ {id}) \cap Listing(writing[1])
        /\ Settles(id, k) /\ Dequeue
        /\ UNCHANGED <<files, calls, faults, crashes, version, buried>>
  BY DEF PublishSaved, Published
<1>2. /\ Phase(id) = "publishing" /\ Phase(id)' \in {"idle", "waiting"} /\ lifecycles' \in [Ids -> Seq(Operations)]
      /\ \A x \in Ids : x # id => lifecycles'[x] = lifecycles[x]
      /\ ChainOK(lifecycles'[id], version[id]) /\ ~HasImport(lifecycles'[id])
      /\ owned' = {x \in Ids : lifecycles'[x] # <<>>}
      /\ importing' \subseteq Imported /\ \A x \in Ids : x # id => (x \in importing' <=> x \in importing)
  BY <1>0, <1>1, SettlesFacts
<1>3. \A x \in Ids : x # id => Phase(x)' = Phase(x)
  BY <1>2 DEF Phase
<1>n. /\ {sessions, acked, writing[1]} \subseteq [Ids -> Versions] /\ version[id] \in Versions /\ version[id] \in Nat
      /\ Versions \subseteq Nat /\ buried[id] \in Nat
  BY <1>0, <1>1, Numbers
<1>4. /\ {sessions', acked', indexFile'} \subseteq [Ids -> Versions]
      /\ sessions'[id] = version[id] /\ acked'[id] = version[id]
      /\ \A x \in Ids : x # id => sessions'[x] = sessions[x] /\ acked'[x] = acked[x]
  BY <1>1, <1>n
<1>5. /\ 1 \in DOMAIN writeQueue /\ Publish(1) /\ Asks(1, id, version[id]) /\ writeQueue[1].kind = "publish"
  <2>1. Head(writeQueue) = writeQueue[1] /\ 1 \in DOMAIN writeQueue
    BY <1>0, <1>1, HeadFacts DEF PendingOK
  <2> QED BY <1>1, <2>1 DEF Publish, Asks
<1>6. /\ version[id] > buried[id]
      /\ \A i \in DOMAIN writeQueue, v \in Versions : i # 1 => ~(Publish(i) /\ Asks(i, id, v))
  BY <1>0, <1>n, <1>5 DEF PublicationsOK
<1>7. Current(writing[1]) /\ version[id] <= writing[1][id]
      /\ \A x \in Ids : Phase(x) = "erasing" => writing[1][x] = 0
  BY <1>0, <1>1, <1>5, <1>n DEF SnapshotOK
<1>8. LifecyclesOK' /\ ImportsOK'
  BY <1>0, <1>1, <1>2, <1>4, OneChain
<1>9. RemovalsOK'
  BY <1>0, <1>1, <1>2, <1>3, <1>4, <1>7 DEF RemovalsOK
<1>10. ListsOK'
  <2>1. ASSUME NEW x \in Ids
        PROVE  /\ acked'[x] <= sessions'[x] /\ sessions'[x] <= version[x]
               /\ sessions'[x] = 0 \/ sessions'[x] > buried[x]
               /\ acked'[x] <= writing[1][x] /\ writing[1][x] <= version[x]
               /\ writing[1][x] = 0 \/ writing[1][x] > buried[x]
    <3>1. /\ acked[x] <= sessions[x] /\ sessions[x] <= version[x]
          /\ sessions[x] = 0 \/ sessions[x] > buried[x]
          /\ acked[x] <= writing[1][x] /\ writing[1][x] <= version[x]
          /\ writing[1][x] = 0 \/ writing[1][x] > buried[x]
      BY <1>0, <1>7 DEF ListsOK, Current
    <3>2. CASE x = id
      BY <1>4, <1>6, <1>7, <1>n, <3>1, <3>2
    <3>3. CASE x # id
      BY <1>4, <3>1, <3>3
    <3> QED BY <3>2, <3>3
  <2> QED BY <1>0, <1>1, <2>1 DEF ListsOK, Current
<1>11. PendingOK' /\ writeQueue' \in Seq(Entry) /\ writing' = <<>> /\ pending' = pending
  BY <1>0, <1>1, Dequeued, DequeuedKeeps
<1>12. FlushesOK' /\ PublicationsOK' /\ SnapshotOK'
  BY <1>0, <1>1, <1>2, <1>3, <1>4, <1>6, DequeuedEntries
<1>13. TypeOK'
  <2>1. spoiled' \subseteq Ids
    BY <1>0, <1>1 DEF TypeOK
  <2> QED BY <1>0, <1>1, <1>2, <1>4, <1>11, <2>1 DEF TypeOK, Indexes, Entry
<1> QED BY <1>8, <1>9, <1>10, <1>11, <1>12, <1>13 DEF IndexInv

LEMMA PublishFailedKeeps == ASSUME IndexInv, PublishFailed PROVE IndexInv'
<1>0. /\ TypeOK /\ LifecyclesOK /\ ImportsOK /\ RemovalsOK /\ ListsOK
      /\ PendingOK /\ FlushesOK /\ PublicationsOK /\ SnapshotOK
  BY DEF IndexInv
<1>1. PICK id \in Ids, k \in 1 .. MaxCalls :
        /\ writing # <<>> /\ Head(writeQueue).callers = {<<id, version[id]>>}
        /\ Head(writeQueue).kind = "publish" /\ Step(id, k, "publishing")
        /\ faults < MaxFaults /\ faults' = faults + 1
        /\ Advances(id, k, "undoing") /\ Dequeue
        /\ UNCHANGED <<sessions, indexFile, files, calls, crashes, version, acked, buried, spoiled>>
  BY DEF PublishFailed
<1>2. /\ Phase(id) = "publishing" /\ Phase(id)' = "undoing" /\ lifecycles' \in [Ids -> Seq(Operations)]
      /\ \A x \in Ids : x # id => lifecycles'[x] = lifecycles[x]
      /\ ChainOK(lifecycles'[id], version[id]) /\ HasImport(lifecycles[id])
      /\ UNCHANGED importing /\ owned' = {x \in Ids : lifecycles'[x] # <<>>}
  BY <1>0, <1>1, AdvancesFacts
<1>3. \A x \in Ids : x # id => Phase(x)' = Phase(x)
  BY <1>2 DEF Phase
<1>4. \A i \in DOMAIN writeQueue, v \in Versions : i # 1 => ~(Publish(i) /\ Asks(i, id, v))
  <2>1. Head(writeQueue) = writeQueue[1] /\ 1 \in DOMAIN writeQueue
    BY <1>0, <1>1, HeadFacts DEF PendingOK
  <2>2. Publish(1) /\ Asks(1, id, version[id]) /\ version[id] \in Versions
    BY <1>0, <1>1, <2>1, Numbers DEF Publish, Asks
  <2> QED BY <1>0, <2>1, <2>2 DEF PublicationsOK
<1>5. LifecyclesOK' /\ ImportsOK'
  <2>1. id \in importing' /\ sessions'[id] = 0
    BY <1>0, <1>1, <1>2 DEF ImportsOK
  <2> QED BY <1>0, <1>1, <1>2, <2>1, OneChain
<1>6. RemovalsOK' /\ ListsOK'
  BY <1>0, <1>1, <1>2, <1>3 DEF RemovalsOK, ListsOK, Current
<1>7. PendingOK' /\ writeQueue' \in Seq(Entry) /\ writing' = <<>> /\ pending' = pending
  BY <1>0, <1>1, Dequeued, DequeuedKeeps
<1>8. FlushesOK' /\ PublicationsOK' /\ SnapshotOK'
  BY <1>0, <1>1, <1>2, <1>3, <1>4, DequeuedEntries
<1>9. faults' \in 0 .. MaxFaults
  BY <1>0, <1>1, SessionIndexAssumption DEF TypeOK
<1>10. TypeOK'
  BY <1>0, <1>1, <1>2, <1>7, <1>9 DEF TypeOK, Entry
<1> QED BY <1>5, <1>6, <1>7, <1>8, <1>10 DEF IndexInv

LEMMA CrashKeeps == ASSUME IndexInv, Crash PROVE IndexInv'
<1>0. TypeOK /\ ListsOK /\ SnapshotOK
  BY DEF IndexInv
<1>1. /\ crashes' \in 0 .. MaxCrashes
      /\ sessions' = indexFile' /\ writeQueue' = <<>> /\ pending' = FALSE /\ writing' = <<>>
      /\ lifecycles' = [id \in Ids |-> <<>>] /\ owned' = {} /\ importing' = {}
      /\ acked' = [id \in Ids |-> IF Removing(id) THEN 0 ELSE acked[id]]
      /\ UNCHANGED <<files, calls, faults, version, buried, spoiled>>
  BY <1>0, SessionIndexAssumption DEF Crash, TypeOK
<1>2. Current(indexFile') /\ indexFile' \in Indexes
  <2>1. indexFile' = indexFile \/ (writing # <<>> /\ indexFile' = writing[1])
    BY DEF Crash
  <2> QED BY <1>0, <2>1, Numbers DEF ListsOK, SnapshotOK, Indexes
<1>3. acked' \in Indexes /\ \A id \in Ids : acked'[id] = 0 \/ acked'[id] = acked[id]
  BY <1>0, <1>1, Numbers DEF Indexes
<1>4. Current(indexFile)' /\ Current(sessions)'
  <2>1. \A id \in Ids : indexFile'[id] \in Nat
    BY <1>0, <1>2, Numbers DEF Indexes
  <2> QED BY <1>1, <1>2, <1>3, <2>1 DEF Current
<1>5. ListsOK'
  BY <1>0, <1>1, <1>4 DEF ListsOK
<1>6. \A id \in Ids : lifecycles'[id] = <<>> /\ Phase(id)' = "idle"
  BY <1>1 DEF Phase
<1>7. LifecyclesOK' /\ ImportsOK' /\ RemovalsOK'
  BY <1>6 DEF LifecyclesOK, ImportsOK, RemovalsOK, ChainOK, HasImport
<1>8. PendingOK' /\ FlushesOK' /\ PublicationsOK' /\ SnapshotOK'
  BY <1>1 DEF PendingOK, FlushesOK, PublicationsOK, SnapshotOK, Flush, Publish
<1>9. TypeOK'
  <2>1. lifecycles' \in [Ids -> Seq(Operations)] /\ writeQueue' \in Seq(Entry)
    BY <1>1
  <2>2. owned' = {id \in Ids : lifecycles'[id] # <<>>}
    BY <1>1, <1>6
  <2> QED BY <1>0, <1>1, <1>2, <1>3, <2>1, <2>2 DEF TypeOK, Entry
<1> QED BY <1>5, <1>7, <1>8, <1>9 DEF IndexInv

LEMMA InitHolds == Init => IndexInv
<1> SUFFICES ASSUME Init PROVE IndexInv
  OBVIOUS
<1>1. /\ sessions = [id \in Ids |-> 0] /\ indexFile = sessions /\ version = sessions
      /\ acked = sessions /\ buried = sessions
      /\ writeQueue = <<>> /\ pending = FALSE /\ writing = <<>>
      /\ lifecycles = [id \in Ids |-> <<>>] /\ owned = {} /\ importing = {}
  BY DEF Init
<1>2. \A id \in Ids : sessions[id] = 0 /\ lifecycles[id] = <<>> /\ Phase(id) = "idle"
  BY <1>1 DEF Phase
<1>3. TypeOK
  <2>1. 0 \in Versions /\ 0 \in 0 .. MaxCalls /\ 0 \in 0 .. MaxFaults /\ 0 \in 0 .. MaxCrashes
    BY SessionIndexAssumption DEF Versions
  <2>2. sessions \in Indexes /\ lifecycles \in [Ids -> Seq(Operations)] /\ writeQueue \in Seq(Entry)
    BY <1>1, <2>1 DEF Indexes
  <2>3. files \in [Ids -> {"none", "partial", "whole"}]
    BY DEF Init
  <2>4. calls = 0 /\ faults = 0 /\ crashes = 0 /\ spoiled = {}
    BY DEF Init
  <2> QED BY <1>1, <1>2, <2>1, <2>2, <2>3, <2>4 DEF TypeOK, Entry
<1>4. ListsOK
  BY <1>1, <1>2 DEF ListsOK, Current
<1>5. LifecyclesOK /\ ImportsOK /\ RemovalsOK
  BY <1>1, <1>2 DEF LifecyclesOK, ImportsOK, RemovalsOK, ChainOK, HasImport
<1>6. PendingOK /\ FlushesOK /\ PublicationsOK /\ SnapshotOK
  BY <1>1 DEF PendingOK, FlushesOK, PublicationsOK, SnapshotOK, Flush, Publish
<1> QED BY <1>3, <1>4, <1>5, <1>6 DEF IndexInv

(* A bounded set of numbers has a greatest one. *)
LEMMA GreatestOf ==
  ASSUME NEW S, NEW N \in Nat, S \subseteq 0 .. N, S # {}
  PROVE  LET top == CHOOSE v \in S : \A w \in S : w <= v IN top \in S /\ \A w \in S : w <= top
<1> DEFINE less == OpToRel(<, Nat)
           T == {m \in Nat : N - m \in S}
<1>1. \A a, b \in Nat : a < b => <<a, b>> \in less
  BY DEF OpToRel
<1>2. IsWellFoundedOn(less, Nat)
  BY NatLessThanWellFounded
<1> HIDE DEF less
<1>3. \A w \in S : w \in Nat /\ N - w \in T
  OBVIOUS
<1>4. T \subseteq Nat /\ T # {}
  BY <1>3
<1>5. PICK x \in T : \A y \in T : <<y, x>> \notin less
  BY <1>2, <1>4, WFMin
<1>6. \A y \in T : x <= y
  <2>1. x \in Nat /\ \A y \in T : y \in Nat /\ ~(y < x)
    BY <1>1, <1>4, <1>5
  <2> HIDE DEF T
  <2> QED BY <2>1
<1>7. N - x \in S /\ x \in Nat
  BY DEF T
<1>8. \A w \in S : w <= N - x
  <2> TAKE w \in S
  <2>1. x <= N - w /\ w \in Nat
    BY <1>3, <1>6
  <2> QED BY <1>7, <2>1
<1> QED BY <1>7, <1>8

(* What a step that keeps the length of the chains does to them. *)
LEMMA SteppedChain ==
  ASSUME NEW ops \in Seq(Operations), NEW last, ChainOK(ops, last), NEW S,
         NEW next, next = [k \in DOMAIN ops |->
                             IF S /\ ops[k].step = "flushing" THEN [ops[k] EXCEPT !.step = "erasing"] ELSE ops[k]],
         S \in BOOLEAN
  PROVE  /\ next \in Seq(Operations) /\ ChainOK(next, last) /\ (HasImport(next) <=> HasImport(ops))
         /\ next = <<>> <=> ops = <<>>
         /\ ops # <<>> => next[1].step = IF S /\ ops[1].step = "flushing" THEN "erasing" ELSE ops[1].step
<1>1. \A k \in DOMAIN ops : ops[k] \in Operations
  OBVIOUS
<1>2. DOMAIN next = DOMAIN ops /\ \A k \in DOMAIN ops :
        /\ next[k] \in Operations /\ next[k].op = ops[k].op
        /\ next[k].step = IF S /\ ops[k].step = "flushing" THEN "erasing" ELSE ops[k].step
  BY <1>1 DEF Operations
<1>3. next \in Seq(Operations)
  <2>1. Len(ops) \in Nat /\ DOMAIN ops = 1 .. Len(ops)
    OBVIOUS
  <2>2. next \in [1 .. Len(ops) -> Operations]
    BY <1>2, <2>1
  <2> QED BY <2>1, <2>2
<1>4. next = <<>> <=> ops = <<>>
  <2>1. \A s \in Seq(Operations) : s = <<>> <=> 1 \notin DOMAIN s
    OBVIOUS
  <2> QED BY <1>2, <1>3, <2>1
<1>5. \A k \in DOMAIN ops : ops[k].op \in {"import", "remove"}
  BY <1>1 DEF Operations
<1>6. ChainOK(next, last)
  BY <1>2, <1>5 DEF ChainOK, RemoveSteps, ImportSteps
<1>7. HasImport(next) <=> HasImport(ops)
  BY <1>2 DEF HasImport
<1>8. ops # <<>> => 1 \in DOMAIN ops
  OBVIOUS
<1> QED BY <1>2, <1>3, <1>4, <1>6, <1>7, <1>8

(* Who is told by the head of the chain that a removal is written, is removing. *)
LEMMA RemovalsFlush ==
  ASSUME IndexInv, writing # <<>>, Head(writeQueue).kind = "flush"
  PROVE  /\ 1 \in DOMAIN writeQueue /\ Head(writeQueue) = writeQueue[1] /\ Flush(1)
         /\ \A id \in Ids : id \in Removals(Head(writeQueue)) <=> Asks(1, id, 0)
         /\ \A id \in Removals(Head(writeQueue)) :
              /\ id \in Ids /\ Phase(id) = "flushing" /\ writing[1][id] = 0
              /\ \A i \in DOMAIN writeQueue, v \in Versions : i # 1 => ~(Flush(i) /\ Asks(i, id, v))
<1>0. TypeOK /\ PendingOK /\ FlushesOK /\ SnapshotOK
  BY DEF IndexInv
<1>1. 1 \in DOMAIN writeQueue /\ Head(writeQueue) = writeQueue[1]
  BY <1>0, HeadFacts DEF PendingOK
<1>2. Flush(1) /\ \A id \in Ids : id \in Removals(Head(writeQueue)) <=> Asks(1, id, 0)
  BY <1>1 DEF Flush, Removals, Asks
<1>3. ASSUME NEW id \in Removals(Head(writeQueue))
      PROVE  /\ id \in Ids /\ Phase(id) = "flushing" /\ writing[1][id] = 0
             /\ \A i \in DOMAIN writeQueue, v \in Versions : i # 1 => ~(Flush(i) /\ Asks(i, id, v))
  <2>1. id \in Ids /\ Asks(1, id, 0) /\ 0 \in Versions
    BY <1>0, <1>2, <1>3, Numbers DEF Removals
  <2>2. Phase(id) = "flushing" /\ \A i \in DOMAIN writeQueue, v \in Versions : Flush(i) /\ Asks(i, id, v) => i <= 1
    BY <1>0, <1>1, <1>2, <2>1 DEF FlushesOK
  <2>3. writing[1][id] = 0
    BY <1>0, <1>1, <2>1 DEF SnapshotOK
  <2>4. \A i \in DOMAIN writeQueue : i <= 1 => i = 1
    BY <1>0 DEF TypeOK
  <2> QED BY <2>1, <2>2, <2>3, <2>4
<1> QED BY <1>1, <1>2, <1>3

(* The change that a session's caller is told of is one that was asked for, or was told before. *)
LEMMA AcknowledgedFacts ==
  ASSUME TypeOK, PendingOK, writing # <<>>, NEW id \in Ids
  PROVE  /\ Acknowledged(Head(writeQueue)) \in [Ids -> Versions]
         /\ \/ Acknowledged(Head(writeQueue))[id] = acked[id]
            \/ ~Removing(id) /\ Asks(1, id, Acknowledged(Head(writeQueue))[id])
<1> DEFINE entry == Head(writeQueue)
           saved(x) == {v \in Versions : <<x, v>> \in entry.callers} \cup {acked[x]}
           top(x) == CHOOSE v \in saved(x) : \A w \in saved(x) : w <= v
<1>1. \A x \in Ids : acked[x] \in Versions
  BY Numbers
<1>2. \A x \in Ids : top(x) \in saved(x)
  <2> TAKE x \in Ids
  <2>1. saved(x) \subseteq 0 .. MaxVersion /\ saved(x) # {}
    BY <1>1 DEF Versions
  <2> DEFINE S == saved(x)
  <2> HIDE DEF S
  <2>2. S \subseteq 0 .. MaxVersion /\ S # {}
    BY <2>1 DEF S
  <2>3. (CHOOSE v \in S : \A w \in S : w <= v) \in S
    BY <2>2, GreatestOf, Numbers
  <2> QED BY <2>3 DEF S
<1>3. Acknowledged(entry) = [x \in Ids |-> IF Removing(x) THEN acked[x] ELSE top(x)]
  BY DEF Acknowledged
<1> HIDE DEF top, entry
<1>4. \A x \in Ids : saved(x) \subseteq Versions
  BY <1>1
<1>5. entry = writeQueue[1]
  BY HeadFacts DEF PendingOK, entry
<1>6. top(id) = acked[id] \/ Asks(1, id, top(id))
  BY <1>2, <1>5 DEF Asks
<1> HIDE DEF saved
<1>7. Acknowledged(entry) \in [Ids -> Versions]
  BY <1>1, <1>2, <1>3, <1>4
<1>8. Acknowledged(entry)[id] = IF Removing(id) THEN acked[id] ELSE top(id)
  BY <1>3
<1> QED BY <1>6, <1>7, <1>8 DEF entry

LEMMA FlushSavedKeeps ==
  ASSUME IndexInv, FlushSaved
  PROVE  /\ IndexInv'
         /\ \A id \in Ids : \/ Phase(id)' = Phase(id)
                            \/ Phase(id) = "flushing" /\ Phase(id)' = "erasing" /\ indexFile'[id] = 0
<1>0. /\ TypeOK /\ LifecyclesOK /\ ImportsOK /\ RemovalsOK /\ ListsOK
      /\ PendingOK /\ FlushesOK /\ PublicationsOK /\ SnapshotOK
  BY DEF IndexInv
<1> DEFINE gone == Removals(Head(writeQueue))
<1>1. /\ writing # <<>> /\ Head(writeQueue).kind = "flush" /\ indexFile' = writing[1]
      /\ acked' = Acknowledged(Head(writeQueue))
      /\ spoiled' = spoiled \cap Listing(writing[1])
      /\ lifecycles' = [id \in Ids |->
           [k \in DOMAIN lifecycles[id] |->
              IF id \in gone /\ lifecycles[id][k].step = "flushing"
              THEN [lifecycles[id][k] EXCEPT !.step = "erasing"] ELSE lifecycles[id][k]]]
      /\ Dequeue
      /\ UNCHANGED <<sessions, owned, importing, files, calls, faults, crashes, version, buried>>
  BY DEF FlushSaved
<1>2. /\ 1 \in DOMAIN writeQueue /\ Head(writeQueue) = writeQueue[1] /\ Flush(1)
      /\ \A id \in gone :
           /\ id \in Ids /\ Phase(id) = "flushing" /\ writing[1][id] = 0
           /\ \A i \in DOMAIN writeQueue, v \in Versions : i # 1 => ~(Flush(i) /\ Asks(i, id, v))
  BY <1>1, RemovalsFlush
<1> HIDE DEF gone
<1>3. ASSUME NEW id \in Ids
      PROVE  /\ lifecycles'[id] \in Seq(Operations) /\ ChainOK(lifecycles'[id], version[id])
             /\ HasImport(lifecycles'[id]) <=> HasImport(lifecycles[id])
             /\ lifecycles'[id] = <<>> <=> lifecycles[id] = <<>>
             /\ Phase(id)' = IF id \in gone THEN "erasing" ELSE Phase(id)
  <2> DEFINE ops == lifecycles[id]
             S == id \in gone
             next == lifecycles'[id]
  <2>1. next = [k \in DOMAIN ops |->
                  IF S /\ ops[k].step = "flushing" THEN [ops[k] EXCEPT !.step = "erasing"] ELSE ops[k]]
    BY <1>1
  <2>2. ops \in Seq(Operations) /\ ChainOK(ops, version[id]) /\ S \in BOOLEAN
    BY <1>0 DEF TypeOK, LifecyclesOK
  <2>3. S => Phase(id) = "flushing"
    BY <1>2
  <2>4. Phase(id) = IF ops = <<>> THEN "idle" ELSE ops[1].step
    BY DEF Phase
  <2>5. Phase(id)' = IF next = <<>> THEN "idle" ELSE next[1].step
    BY DEF Phase
  <2> HIDE DEF ops, S, next
  <2>6. /\ next \in Seq(Operations) /\ ChainOK(next, version[id]) /\ (HasImport(next) <=> HasImport(ops))
        /\ next = <<>> <=> ops = <<>>
        /\ ops # <<>> => next[1].step = IF S /\ ops[1].step = "flushing" THEN "erasing" ELSE ops[1].step
    BY <2>1, <2>2, SteppedChain
  <2>7. Phase(id)' = IF S THEN "erasing" ELSE Phase(id)
    BY <2>3, <2>4, <2>5, <2>6
  <2> QED BY <2>6, <2>7 DEF ops, S, next
<1>4. Current(writing[1]) /\ \A id \in Ids : Phase(id) = "erasing" => writing[1][id] = 0
  BY <1>0, <1>1 DEF SnapshotOK
<1>5. acked' \in [Ids -> Versions]
      /\ \A id \in Ids : \/ acked'[id] = acked[id]
                         \/ acked'[id] <= sessions[id] /\ acked'[id] <= writing[1][id]
  <2>1. \A id \in Ids : /\ acked' \in [Ids -> Versions]
                        /\ acked'[id] = acked[id] \/ (~Removing(id) /\ Asks(1, id, acked'[id]))
    BY <1>0, <1>1, AcknowledgedFacts
  <2>2. acked' \in [Ids -> Versions]
    BY <1>1, <2>1 DEF Acknowledged
  <2>3. ASSUME NEW id \in Ids, ~Removing(id), Asks(1, id, acked'[id])
        PROVE  acked'[id] <= sessions[id] /\ acked'[id] <= writing[1][id]
    <3>1. Phase(id) # "flushing" /\ acked'[id] \in Versions
      BY <1>0, <2>2, <2>3, PhaseFacts
    <3> QED BY <1>0, <1>1, <1>2, <2>3, <3>1 DEF FlushesOK, SnapshotOK
  <2> QED BY <2>1, <2>2, <2>3
<1>6. LifecyclesOK' /\ ImportsOK'
  BY <1>0, <1>1, <1>3 DEF LifecyclesOK, ImportsOK
<1>7. RemovalsOK'
  BY <1>0, <1>1, <1>2, <1>3, <1>4 DEF RemovalsOK
<1>8. ListsOK'
  <2>1. ASSUME NEW id \in Ids
        PROVE  acked'[id] <= sessions[id] /\ acked'[id] <= writing[1][id]
    <3>1. acked[id] <= sessions[id] /\ acked[id] <= writing[1][id]
      BY <1>0, <1>4 DEF ListsOK, Current
    <3> QED BY <1>5, <3>1
  <2> QED BY <1>0, <1>1, <1>4, <2>1 DEF ListsOK, Current
<1>9. PendingOK' /\ writeQueue' \in Seq(Entry) /\ writing' = <<>> /\ pending' = pending
  BY <1>0, <1>1, Dequeued, DequeuedKeeps
<1>10. FlushesOK' /\ PublicationsOK' /\ SnapshotOK'
  <2>1. \A id \in Ids : \/ Phase(id)' = Phase(id) /\ sessions'[id] = sessions[id]
                        \/ /\ \A i \in DOMAIN writeQueue, v \in Versions : i # 1 => ~(Flush(i) /\ Asks(i, id, v))
                           /\ Phase(id) # "publishing"
    BY <1>1, <1>2, <1>3
  <2> QED BY <1>0, <1>1, <2>1, DequeuedEntries
<1>11. TypeOK'
  <2>1. spoiled' \subseteq Ids /\ indexFile' \in Indexes /\ acked' \in Indexes
    BY <1>0, <1>1, <1>5, Numbers DEF TypeOK, Indexes
  <2>2. lifecycles' \in [Ids -> Seq(Operations)]
    BY <1>1, <1>3
  <2>3. owned' = {id \in Ids : lifecycles'[id] # <<>>}
    BY <1>0, <1>1, <1>3 DEF TypeOK
  <2> QED BY <1>0, <1>1, <1>9, <2>1, <2>2, <2>3 DEF TypeOK, Entry
<1>12. ASSUME NEW id \in Ids
       PROVE  Phase(id)' = Phase(id) \/ (Phase(id) = "flushing" /\ Phase(id)' = "erasing" /\ indexFile'[id] = 0)
  <2>1. CASE id \in gone
    <3>1. Phase(id) = "flushing" /\ writing[1][id] = 0
      BY <1>2, <2>1
    <3>2. Phase(id)' = "erasing"
      BY <1>3, <2>1
    <3> QED BY <1>1, <3>1, <3>2
  <2>2. CASE id \notin gone
    BY <1>3, <2>2
  <2> QED BY <2>1, <2>2
<1>13. IndexInv'
  BY <1>6, <1>7, <1>8, <1>9, <1>10, <1>11 DEF IndexInv
<1> QED BY <1>12, <1>13

LEMMA FlushFailedKeeps ==
  ASSUME IndexInv, FlushFailed
  PROVE  /\ IndexInv'
         /\ \A id \in Ids : \/ Phase(id)' = Phase(id)
                            \/ /\ Phase(id) = "flushing" /\ Phase(id)' \in {"idle", "waiting"}
                               /\ indexFile[id] # 0 => id \in spoiled'
<1>0. /\ TypeOK /\ LifecyclesOK /\ ImportsOK /\ RemovalsOK /\ ListsOK
      /\ PendingOK /\ FlushesOK /\ PublicationsOK /\ SnapshotOK
  BY DEF IndexInv
<1> DEFINE unwritten == {id \in Removals(Head(writeQueue)) : Step(id, 1, "flushing")}
<1>1. /\ writing # <<>> /\ Head(writeQueue).kind = "flush"
      /\ faults < MaxFaults /\ faults' = faults + 1
      /\ spoiled' = spoiled \cup (unwritten \cap Listing(indexFile))
      /\ lifecycles' = [id \in Ids |-> IF id \in unwritten THEN Tail(lifecycles[id]) ELSE lifecycles[id]]
      /\ owned' = {id \in owned : id \in unwritten => id \in Disown(id, 1)}
      /\ Dequeue
      /\ UNCHANGED <<sessions, indexFile, importing, files, calls, crashes, version, acked, buried>>
  BY DEF FlushFailed
<1>2. \A id \in unwritten :
        /\ id \in Ids /\ Phase(id) = "flushing" /\ lifecycles[id] # <<>>
        /\ \A i \in DOMAIN writeQueue, v \in Versions : i # 1 => ~(Flush(i) /\ Asks(i, id, v))
  BY <1>0, <1>1, RemovalsFlush DEF Phase
<1> HIDE DEF unwritten
<1>3. ASSUME NEW id \in unwritten
      PROVE  /\ lifecycles'[id] \in Seq(Operations) /\ ChainOK(lifecycles'[id], version[id])
             /\ HasImport(lifecycles'[id]) => HasImport(lifecycles[id])
             /\ lifecycles'[id] = <<>> <=> Len(lifecycles[id]) = 1
             /\ Phase(id)' \in {"idle", "waiting"}
  <2> DEFINE ops == lifecycles[id]
             next == lifecycles'[id]
  <2>1. id \in Ids /\ ops \in Seq(Operations) /\ ChainOK(ops, version[id]) /\ ops # <<>>
    BY <1>0, <1>2 DEF TypeOK, LifecyclesOK
  <2>2. next = Tail(ops)
    BY <1>1, <2>1
  <2>3. Phase(id)' = IF next = <<>> THEN "idle" ELSE next[1].step
    BY DEF Phase
  <2> HIDE DEF ops, next
  <2>4. /\ next \in Seq(Operations) /\ (next = <<>> <=> Len(ops) = 1)
        /\ ChainOK(next, version[id]) /\ (next # <<>> => next[1].step = "waiting")
        /\ HasImport(next) => HasImport(ops)
    BY <2>1, <2>2, LeftChain
  <2> QED BY <2>3, <2>4 DEF ops, next
<1>4. \A id \in Ids : id \notin unwritten => lifecycles'[id] = lifecycles[id] /\ Phase(id)' = Phase(id)
  <2>1. \A id \in Ids : id \notin unwritten => lifecycles'[id] = lifecycles[id]
    BY <1>1
  <2> QED BY <2>1 DEF Phase
<1>5. LifecyclesOK' /\ ImportsOK'
  <2>1. ASSUME NEW id \in Ids
        PROVE  ChainOK(lifecycles'[id], version[id]) /\ (HasImport(lifecycles'[id]) => HasImport(lifecycles[id]))
    BY <1>0, <1>3, <1>4 DEF LifecyclesOK
  <2> QED BY <1>0, <1>1, <2>1 DEF LifecyclesOK, ImportsOK
<1>6. RemovalsOK' /\ ListsOK'
  <2>1. \A id \in Ids : Phase(id)' \in {"flushing", "erasing"} => Phase(id)' = Phase(id)
    BY <1>3, <1>4
  <2> QED BY <1>0, <1>1, <2>1 DEF RemovalsOK, ListsOK, Current
<1>7. PendingOK' /\ writeQueue' \in Seq(Entry) /\ writing' = <<>> /\ pending' = pending
  BY <1>0, <1>1, Dequeued, DequeuedKeeps
<1>8. FlushesOK' /\ PublicationsOK' /\ SnapshotOK'
  <2>1. \A id \in Ids : \/ Phase(id)' = Phase(id) /\ sessions'[id] = sessions[id]
                        \/ /\ \A i \in DOMAIN writeQueue, v \in Versions : i # 1 => ~(Flush(i) /\ Asks(i, id, v))
                           /\ Phase(id) # "publishing"
    BY <1>1, <1>2, <1>4
  <2> QED BY <1>0, <1>1, <2>1, DequeuedEntries
<1>9. owned' = {id \in Ids : lifecycles'[id] # <<>>}
  <2>1. owned = {id \in Ids : lifecycles[id] # <<>>} /\ unwritten \subseteq owned
    BY <1>0, <1>2 DEF TypeOK
  <2>2. ASSUME NEW id \in unwritten
        PROVE  id \in owned' <=> Len(lifecycles[id]) # 1
    <3>1. id \in Disown(id, 1) <=> Len(lifecycles[id]) # 1
      BY <2>1, <2>2 DEF Disown
    <3> QED BY <1>1, <2>1, <2>2, <3>1
  <2>3. \A id : id \notin unwritten => (id \in owned' <=> id \in owned)
    BY <1>1
  <2>4. \A id \in unwritten : id \in owned' <=> lifecycles'[id] # <<>>
    BY <1>3, <2>2
  <2>5. \A id : id \in owned' <=> id \in Ids /\ lifecycles'[id] # <<>>
    BY <1>2, <1>4, <2>1, <2>3, <2>4
  <2> QED BY <2>5
<1>10. TypeOK'
  <2>1. lifecycles' \in [Ids -> Seq(Operations)]
    <3>1. \A id \in Ids : lifecycles'[id] \in Seq(Operations)
      BY <1>0, <1>3, <1>4 DEF TypeOK
    <3> QED BY <1>1, <3>1
  <2>2. faults' \in 0 .. MaxFaults
    BY <1>0, <1>1, SessionIndexAssumption DEF TypeOK
  <2>3. spoiled' \subseteq Ids
    BY <1>0, <1>1, <1>2 DEF TypeOK
  <2> QED BY <1>0, <1>1, <1>7, <1>9, <2>1, <2>2, <2>3 DEF TypeOK, Entry
<1>11. \A id \in unwritten : indexFile[id] # 0 => id \in spoiled'
  BY <1>1, <1>2 DEF Listing
<1> QED BY <1>2, <1>3, <1>4, <1>5, <1>6, <1>7, <1>8, <1>10, <1>11 DEF IndexInv

-----------------------------------------------------------------------------
(* The theorems. *)

(* What the index, its write chain and the lifecycles of its sessions satisfy in every state. *)
THEOREM IndexInvariant == Spec => []IndexInv
<1>1. ASSUME IndexInv, [Next]_vars PROVE IndexInv'
  <2>1. CASE UNCHANGED vars
    <3>1. UNCHANGED <<sessions, indexFile, writeQueue, pending, writing, lifecycles, owned, importing, files,
                      calls, faults, crashes, version, acked, buried, spoiled>>
      BY <2>1 DEF vars
    <3>2. TypeOK' /\ LifecyclesOK' /\ ImportsOK' /\ \A id \in Ids : Phase(id)' = Phase(id)
      BY <1>1, <3>1 DEF IndexInv, TypeOK, LifecyclesOK, ImportsOK, Phase
    <3> QED BY <1>1, <3>1, <3>2, CalmKeeps DEF IndexInv
  <2>2. ASSUME NEW id \in Ids, Upsert(id) \/ Remove(id) \/ ImportSession(id) \/ BeginNext(id) PROVE IndexInv'
    BY <1>1, <2>2, UpsertKeeps, RemoveKeeps, ImportSessionKeeps, BeginNextKeeps
  <2>3. ASSUME NEW id \in Ids, NEW k \in 1 .. MaxCalls,
               WriteTranscript(id, k) \/ WriteContext(id, k) \/ UndoImport(id, k) \/ EraseFiles(id, k)
        PROVE  IndexInv'
    BY <1>1, <2>3, WriteTranscriptKeeps, WriteContextKeeps, UndoImportKeeps, EraseFilesKeeps
  <2>4. CASE StartWrite \/ FlushSaved \/ FlushFailed \/ PublishSaved \/ PublishFailed \/ Crash
    BY <1>1, <2>4, StartWriteKeeps, FlushSavedKeeps, FlushFailedKeeps, PublishSavedKeeps, PublishFailedKeeps,
       CrashKeeps
  <2> QED BY <1>1, <2>1, <2>2, <2>3, <2>4 DEF Next
<1> QED BY InitHolds, <1>1, PTL DEF Spec

(* A change whose caller the store has told that it is saved is in sessions.json, in that or a later *)
(* form: flushIndex may join a generation, but never one whose snapshot has been taken.               *)
THEOREM SavedIsDurable == Spec => []SavedMeansDurable
<1>1. IndexInv => SavedMeansDurable
  BY DEF IndexInv, ListsOK, Current, SavedMeansDurable
<1> QED BY <1>1, IndexInvariant, PTL

(* A session whose removal has finished is never named by sessions.json again at a change it had by *)
(* then: no snapshot taken before the removal is still to be written, and no chained import has one. *)
THEOREM RemovedIsGone == Spec => []RemovedStaysRemoved
<1>1. IndexInv => RemovedStaysRemoved
  BY DEF IndexInv, ListsOK, Current, RemovedStaysRemoved
<1> QED BY <1>1, IndexInvariant, PTL

-----------------------------------------------------------------------------
(* Listed imports are whole. *)

(* The publication being written names this session. *)
BeingPublished(id) == Publish(1) /\ \E v \in Versions : Asks(1, id, v)

(* What a listed import has on disk. A file that still names a session that left the list is  *)
(* one whose removal is under way or could not be written; a snapshot may be ahead of the list. *)
WholeFor(id) ==
  /\ sessions[id] # 0 => indexFile[id] # 0
  /\ indexFile[id] # 0 => /\ id \in spoiled \/ files[id] = "whole"
                          /\ sessions[id] # 0 \/ id \in spoiled \/ Phase(id) = "flushing"
  /\ writing # <<>> =>
       /\ sessions[id] # 0 => writing[1][id] # 0
       /\ writing[1][id] # 0 => /\ id \in spoiled \/ files[id] = "whole"
                                /\ sessions[id] # 0 \/ Phase(id) = "flushing" \/ BeingPublished(id)
  /\ Phase(id) = "publishing" => files[id] = "whole"

WholeOK == \A id \in Imported : WholeFor(id)

(* A session that is imported is named by no snapshot and by no file, but for one it could not leave. *)
LEMMA ImportUnnamed ==
  ASSUME IndexInv, NEW id \in Imported, WholeFor(id), Phase(id) \in {"transcript", "context", "undoing"}
  PROVE  (indexFile[id] # 0 => id \in spoiled) /\ (writing # <<>> => writing[1][id] = 0)
<1>1. id \in Ids /\ TypeOK /\ LifecyclesOK /\ ImportsOK /\ PublicationsOK
  BY SessionIndexAssumption DEF IndexInv
<1>2. sessions[id] = 0
  <2>1. HasImport(lifecycles[id])
    <3>1. lifecycles[id] # <<>> /\ 1 \in DOMAIN lifecycles[id]
      BY <1>1, PhaseFacts DEF Phase
    <3> QED BY <1>1, <3>1, PhaseFacts DEF HasImport
  <2> QED BY <1>1, <2>1 DEF ImportsOK
<1>3. ~BeingPublished(id)
  BY <1>1 DEF BeingPublished, PublicationsOK, Publish
<1> QED BY <1>2, <1>3 DEF WholeFor

(* A step that writes neither the index nor a snapshot. *)
LEMMA WholeKept ==
  ASSUME NEW id, WholeFor(id), UNCHANGED <<indexFile, writing>>,
         writing # <<>> => 1 \in DOMAIN writeQueue /\ 1 \in DOMAIN writeQueue' /\ writeQueue'[1] = writeQueue[1],
         id \in spoiled => id \in spoiled',
         \/ files'[id] \in {files[id], "whole"}
         \/ /\ indexFile[id] # 0 => id \in spoiled
            /\ writing # <<>> => writing[1][id] = 0
            /\ Phase(id)' # "publishing",
         \/ sessions'[id] = sessions[id] /\ Phase(id)' = Phase(id)
         \/ /\ sessions'[id] = sessions[id] /\ Phase(id) # "flushing"
            /\ Phase(id)' = "publishing" => files'[id] = "whole"
         \/ sessions'[id] = 0 /\ Phase(id)' = "flushing"
         \/ sessions[id] # 0 /\ sessions'[id] # 0 /\ Phase(id)' = Phase(id)
  PROVE  WholeFor(id)'
<1>1. writing # <<>> /\ BeingPublished(id) => BeingPublished(id)'
  BY DEF BeingPublished, Publish, Asks
<1> QED BY <1>1 DEF WholeFor

(* A joined flush is not the one that is being written. *)
LEMMA FlushIndexHead ==
  ASSUME TypeOK, PendingOK, NEW id \in Ids, NEW v \in Versions, FlushIndex(<<id, v>>), writing # <<>>
  PROVE  1 \in DOMAIN writeQueue /\ 1 \in DOMAIN writeQueue' /\ writeQueue'[1] = writeQueue[1]
<1>1. 1 \in DOMAIN writeQueue
  BY HeadFacts DEF PendingOK
<1>2. PICK i \in DOMAIN writeQueue' : Joined(i, id, v)
  BY FlushIndexJoins
<1> QED BY <1>1, <1>2 DEF Joined

LEMMA WholeUpsert == ASSUME IndexInv, WholeOK, NEW x \in Ids, Upsert(x) PROVE WholeOK'
<1>0. TypeOK /\ PendingOK
  BY DEF IndexInv
<1> DEFINE v == version[x] + 1
<1>1. /\ v \in Versions /\ v # 0
      /\ version' = [version EXCEPT ![x] = v] /\ version'[x] = v
  BY <1>0, Numbers DEF Upsert
<1>2. /\ sessions' = [sessions EXCEPT ![x] = v] /\ FlushIndex(<<x, v>>) /\ (sessions[x] # 0 \/ x \notin Imported)
      /\ UNCHANGED <<indexFile, writing, lifecycles, files, spoiled>>
  BY <1>0, <1>1, Numbers DEF Upsert
<1> HIDE DEF v
<1>3. ASSUME NEW id \in Imported PROVE WholeFor(id)'
  <2>1. WholeFor(id) /\ id \in Ids
    BY SessionIndexAssumption DEF WholeOK
  <2>2. Phase(id)' = Phase(id)
    BY <1>2 DEF Phase
  <2>3. sessions'[id] = sessions[id] \/ (sessions[id] # 0 /\ sessions'[id] # 0)
    BY <1>0, <1>1, <1>2, <2>1, Numbers
  <2>4. writing # <<>> => 1 \in DOMAIN writeQueue /\ 1 \in DOMAIN writeQueue' /\ writeQueue'[1] = writeQueue[1]
    BY <1>0, <1>1, <1>2, FlushIndexHead
  <2> QED BY <1>2, <2>1, <2>2, <2>3, <2>4, WholeKept
<1> QED BY <1>3 DEF WholeOK

(* The first operation of a chain begins. *)
LEMMA WholeBegins ==
  ASSUME IndexInv, WholeOK, NEW x \in Ids, NEW ops \in Seq(Operations), 1 \in DOMAIN ops,
         Phase(x) \in {"idle", "waiting"}, Begins(x, ops, 1), UNCHANGED <<indexFile, writing, files, spoiled>>
  PROVE  WholeOK'
<1>0. TypeOK /\ PendingOK
  BY DEF IndexInv
<1>1. PICK to \in {"flushing", "transcript"} :
        /\ lifecycles' = [lifecycles EXCEPT ![x] = Stepped(ops, to)]
        /\ to = "flushing" => sessions' = [sessions EXCEPT ![x] = 0] /\ FlushIndex(<<x, 0>>)
        /\ to = "transcript" => UNCHANGED <<sessions, writeQueue>>
  BY DEF Begins, Stepped, queueVars
<1>2. Phase(x)' = to /\ \A id \in Ids : id # x => Phase(id)' = Phase(id)
  <2> DEFINE next == Stepped(ops, to)
  <2>1. next # <<>> /\ next[1].step = to
    <3>1. ops[1] \in Operations
      OBVIOUS
    <3>2. DOMAIN next = DOMAIN ops /\ next[1] = [ops[1] EXCEPT !.step = to]
      BY DEF Stepped
    <3> HIDE DEF next
    <3> QED BY <3>1, <3>2 DEF Operations
  <2> HIDE DEF next
  <2>2. lifecycles'[x] = next /\ \A id \in Ids : id # x => lifecycles'[id] = lifecycles[id]
    BY <1>0, <1>1 DEF TypeOK, next
  <2> QED BY <2>1, <2>2 DEF Phase
<1>3. writing # <<>> => 1 \in DOMAIN writeQueue /\ 1 \in DOMAIN writeQueue' /\ writeQueue'[1] = writeQueue[1]
  <2>1. writing # <<>> => 1 \in DOMAIN writeQueue
    BY <1>0, HeadFacts DEF PendingOK
  <2> QED BY <1>0, <1>1, <2>1, FlushIndexHead, Numbers
<1>4. ASSUME NEW id \in Imported PROVE WholeFor(id)'
  <2>1. WholeFor(id) /\ id \in Ids
    BY SessionIndexAssumption DEF WholeOK
  <2>2. CASE id # x \/ to = "transcript"
    <3>1. sessions'[id] = sessions[id]
      BY <1>0, <1>1, <2>1, <2>2, Numbers
    <3>2. Phase(id)' = Phase(id) \/ (Phase(id) # "flushing" /\ Phase(id)' # "publishing")
      BY <1>2, <2>1, <2>2
    <3> QED BY <1>3, <2>1, <3>1, <3>2, WholeKept
  <2>3. CASE id = x /\ to = "flushing"
    <3>1. sessions'[id] = 0 /\ Phase(id)' = "flushing"
      BY <1>0, <1>1, <1>2, <2>1, <2>3, Numbers
    <3> QED BY <1>3, <2>1, <3>1, WholeKept
  <2> QED BY <1>1, <2>2, <2>3
<1> QED BY <1>4 DEF WholeOK

LEMMA WholeLifecycle ==
  ASSUME IndexInv, WholeOK, NEW x \in Ids, NEW op \in {"import", "remove"}, Lifecycle(x, op)
  PROVE  WholeOK'
<1>0. TypeOK /\ PendingOK
  BY DEF IndexInv
<1> DEFINE new == [op |-> op, step |-> "waiting"]
           ops == Append(lifecycles[x], new)
<1>1. /\ lifecycles[x] \in Seq(Operations) /\ (lifecycles[x] = <<>> <=> x \notin owned)
      /\ new \in Operations /\ UNCHANGED <<indexFile, writing, files, spoiled>>
  BY <1>0 DEF TypeOK, Lifecycle, Operations
<1> HIDE DEF new
<1>2. /\ ops \in Seq(Operations) /\ 1 \in DOMAIN ops /\ ops # <<>> /\ Len(ops) = Len(lifecycles[x]) + 1
      /\ lifecycles[x] # <<>> => ops[1] = lifecycles[x][1]
  BY <1>1
<1>3. CASE x \in owned
  <2>1. lifecycles' = [lifecycles EXCEPT ![x] = ops] /\ UNCHANGED <<sessions, writeQueue>>
    BY <1>3 DEF Lifecycle, queueVars, new
  <2> HIDE DEF ops
  <2>2. \A id \in Ids : Phase(id)' = Phase(id)
    BY <1>0, <1>1, <1>2, <1>3, <2>1 DEF Phase, TypeOK
  <2>3. writing # <<>> => 1 \in DOMAIN writeQueue /\ 1 \in DOMAIN writeQueue' /\ writeQueue'[1] = writeQueue[1]
    BY <1>0, <2>1, HeadFacts DEF PendingOK
  <2>4. ASSUME NEW id \in Imported PROVE WholeFor(id)'
    <3>1. WholeFor(id) /\ id \in Ids
      BY SessionIndexAssumption DEF WholeOK
    <3> QED BY <1>1, <2>1, <2>2, <2>3, <3>1, WholeKept
  <2> QED BY <2>4 DEF WholeOK
<1>4. CASE x \notin owned
  <2>1. Phase(x) = "idle" /\ Len(ops) = 1
    <3>1. Len(lifecycles[x]) = 0 /\ lifecycles[x] = <<>>
      BY <1>1, <1>4
    <3> QED BY <1>2, <3>1 DEF Phase
  <2>2. Begins(x, ops, 1)
    BY <1>4, <2>1 DEF Lifecycle, new
  <2> HIDE DEF ops
  <2> QED BY <1>1, <1>2, <2>1, <2>2, WholeBegins
<1> QED BY <1>3, <1>4

LEMMA WholeBeginNext == ASSUME IndexInv, WholeOK, NEW x \in Ids, BeginNext(x) PROVE WholeOK'
<1>1. lifecycles[x] \in Seq(Operations) /\ lifecycles[x] # <<>> /\ Head(lifecycles[x]).step = "waiting"
  BY DEF BeginNext, IndexInv, TypeOK
<1>2. 1 \in DOMAIN lifecycles[x] /\ Phase(x) = "waiting"
  BY <1>1 DEF Phase
<1>3. Begins(x, lifecycles[x], 1) /\ UNCHANGED <<indexFile, writing, files, spoiled>>
  BY DEF BeginNext
<1> QED BY <1>1, <1>2, <1>3, WholeBegins

(* The steps of an import and the end of a removal, which touch the files of one session. *)
LEMMA WholeFiles ==
  ASSUME IndexInv, WholeOK, NEW x \in Ids, NEW k,
         WriteTranscript(x, k) \/ WriteContext(x, k) \/ UndoImport(x, k) \/ EraseFiles(x, k)
  PROVE  WholeOK'
<1>0. TypeOK /\ PendingOK /\ LifecyclesOK /\ RemovalsOK /\ SnapshotOK
  BY DEF IndexInv
<1>1. UNCHANGED <<sessions, indexFile, writing, spoiled>>
  BY DEF WriteTranscript, WriteContext, UndoImport, EraseFiles, historyVars
<1>2. \A id \in Ids : id # x => files'[id] = files[id]
  BY <1>0 DEF WriteTranscript, WriteContext, UndoImport, EraseFiles, TypeOK
<1>3. /\ \A id \in Ids : id # x => Phase(id)' = Phase(id)
      /\ Phase(x) \in {"transcript", "context", "undoing", "erasing"} /\ Phase(x)' # "flushing"
      /\ Phase(x)' = "publishing" => files'[x] = "whole"
      /\ Phase(x) = "context" => files'[x] \in {files[x], "whole"}
  <2>1. CASE WriteTranscript(x, k)
    <3>1. PICK to \in {"context", "undoing"} : Step(x, k, "transcript") /\ Advances(x, k, to)
      BY <2>1 DEF WriteTranscript
    <3>2. /\ Phase(x) = "transcript" /\ Phase(x)' = to
          /\ \A id \in Ids : id # x => lifecycles'[id] = lifecycles[id]
      BY <1>0, <3>1, AdvancesFacts
    <3> QED BY <3>2 DEF Phase
  <2>2. CASE WriteContext(x, k)
    <3>1. PICK to \in {"publishing", "undoing"} :
            /\ Step(x, k, "context") /\ Advances(x, k, to)
            /\ files' = [files EXCEPT ![x] = "whole"] \/ (to = "undoing" /\ UNCHANGED files)
      BY <2>2 DEF WriteContext
    <3>2. /\ Phase(x) = "context" /\ Phase(x)' = to
          /\ \A id \in Ids : id # x => lifecycles'[id] = lifecycles[id]
      BY <1>0, <3>1, AdvancesFacts
    <3>3. files'[x] = "whole" \/ (to = "undoing" /\ files'[x] = files[x])
      BY <1>0, <3>1 DEF TypeOK
    <3> QED BY <3>2, <3>3 DEF Phase
  <2>3. CASE UndoImport(x, k) \/ EraseFiles(x, k)
    <3>1. PICK from \in {"undoing", "erasing"} : Step(x, k, from) /\ Settles(x, k)
      BY <2>3 DEF UndoImport, EraseFiles
    <3>2. /\ Phase(x) = from /\ Phase(x)' \in {"idle", "waiting"}
          /\ \A id \in Ids : id # x => lifecycles'[id] = lifecycles[id]
      BY <1>0, <3>1, SettlesFacts
    <3> QED BY <3>2 DEF Phase
  <2> QED BY <2>1, <2>2, <2>3
<1>4. writing # <<>> => 1 \in DOMAIN writeQueue /\ 1 \in DOMAIN writeQueue' /\ writeQueue'[1] = writeQueue[1]
  <2>1. writing # <<>> => 1 \in DOMAIN writeQueue
    BY <1>0, HeadFacts DEF PendingOK
  <2>2. writeQueue' = writeQueue \/ \E e : writeQueue' = Append(writeQueue, e)
    BY DEF WriteTranscript, WriteContext, UndoImport, EraseFiles, queueVars
  <2>3. writeQueue \in Seq(Entry)
    BY <1>0 DEF TypeOK, Entry
  <2> QED BY <2>1, <2>2, <2>3
<1>5. ASSUME NEW id \in Imported PROVE WholeFor(id)'
  <2>1. WholeFor(id) /\ id \in Ids
    BY SessionIndexAssumption DEF WholeOK
  <2>2. CASE id # x
    BY <1>1, <1>2, <1>3, <1>4, <2>1, <2>2, WholeKept
  <2>3. CASE id = x
    <3>1. \/ files'[id] \in {files[id], "whole"}
          \/ /\ indexFile[id] # 0 => id \in spoiled
             /\ writing # <<>> => writing[1][id] = 0
             /\ Phase(id)' # "publishing"
      <4>1. CASE Phase(id) \in {"transcript", "undoing"}
        <5>1. (indexFile[id] # 0 => id \in spoiled) /\ (writing # <<>> => writing[1][id] = 0)
          BY <2>1, <4>1, ImportUnnamed
        <5> QED BY <1>3, <2>3, <5>1
      <4>2. CASE Phase(id) = "context"
        BY <1>3, <2>3, <4>2
      <4>3. CASE Phase(id) = "erasing"
        <5>1. indexFile[id] = 0 /\ (writing # <<>> => writing[1][id] = 0)
          BY <1>0, <2>1, <4>3 DEF RemovalsOK, SnapshotOK
        <5> QED BY <1>3, <2>3, <5>1
      <4> QED BY <1>3, <2>3, <4>1, <4>2, <4>3
    <3> QED BY <1>1, <1>3, <1>4, <2>1, <2>3, <3>1, WholeKept
  <2> QED BY <2>2, <2>3
<1> QED BY <1>5 DEF WholeOK

LEMMA WholeStartWrite == ASSUME IndexInv, WholeOK, StartWrite PROVE WholeOK'
<1>0. TypeOK /\ PublicationsOK /\ ListsOK
  BY DEF IndexInv
<1>1. /\ writeQueue # <<>> /\ writing' = <<Snapshot(Head(writeQueue))>>
      /\ UNCHANGED <<sessions, indexFile, writeQueue, lifecycles, files, spoiled>>
  BY DEF StartWrite, historyVars
<1>2. /\ 1 \in DOMAIN writeQueue /\ Head(writeQueue) = writeQueue[1]
      /\ writeQueue[1].kind \in {"flush", "publish"} /\ (Flush(1) \/ Publish(1))
  BY <1>0, <1>1, HeadFacts
<1>3. writing'[1] = Snapshot(writeQueue[1])
  BY <1>1, <1>2
<1>4. ASSUME NEW id \in Imported PROVE WholeFor(id)'
  <2>1. WholeFor(id) /\ id \in Ids
    BY SessionIndexAssumption DEF WholeOK
  <2>2. \/ writing'[1][id] = sessions[id]
        \/ BeingPublished(id) /\ writing'[1][id] = version[id]
    <3>1. CASE writeQueue[1].kind = "flush"
      BY <1>3, <3>1 DEF Snapshot
    <3>2. CASE writeQueue[1].kind = "publish"
      <4>1. writing'[1] = [x \in Ids |-> IF \E v \in Versions : Asks(1, x, v) THEN version[x] ELSE sessions[x]]
        BY <1>3, <3>2 DEF Snapshot, Asks
      <4>2. Publish(1)
        BY <1>2, <3>2 DEF Publish
      <4> QED BY <2>1, <4>1, <4>2 DEF BeingPublished
    <3> QED BY <1>2, <3>1, <3>2
  <2>3. BeingPublished(id) => Phase(id) = "publishing" /\ version[id] # 0
    <3>1. ASSUME NEW v \in Versions, Publish(1), Asks(1, id, v)
          PROVE  Phase(id) = "publishing" /\ version[id] # 0
      <4>1. Phase(id) = "publishing" /\ v <= version[id] /\ v > buried[id]
        BY <1>0, <1>2, <2>1, <3>1 DEF PublicationsOK
      <4>2. v \in Nat /\ buried[id] \in Nat /\ version[id] \in Nat
        BY <1>0, <2>1, Numbers
      <4> QED BY <4>1, <4>2
    <3> QED BY <3>1 DEF BeingPublished
  <2>4. Phase(id)' = Phase(id) /\ BeingPublished(id)' = BeingPublished(id)
    BY <1>1 DEF Phase, BeingPublished, Publish, Asks
  <2> QED BY <1>1, <2>1, <2>2, <2>3, <2>4 DEF WholeFor
<1> QED BY <1>4 DEF WholeOK

LEMMA WholeFlushSaved == ASSUME IndexInv, WholeOK, FlushSaved PROVE WholeOK'
<1>1. /\ writing # <<>> /\ Head(writeQueue).kind = "flush" /\ indexFile' = writing[1]
      /\ spoiled' = spoiled \cap Listing(writing[1]) /\ writing' = <<>>
      /\ UNCHANGED <<sessions, files>>
  BY DEF FlushSaved, Dequeue
<1>2. ~Publish(1)
  BY <1>1, RemovalsFlush DEF Publish
<1>3. ASSUME NEW id \in Imported PROVE WholeFor(id)'
  <2>1. WholeFor(id) /\ id \in Ids
    BY SessionIndexAssumption DEF WholeOK
  <2>2. Phase(id)' = Phase(id) \/ (Phase(id) = "flushing" /\ Phase(id)' # "publishing" /\ indexFile'[id] = 0)
    BY <2>1, FlushSavedKeeps
  <2>3. indexFile'[id] # 0 /\ id \in spoiled => id \in spoiled'
    BY <1>1, <2>1 DEF Listing
  <2>4. ~BeingPublished(id)
    BY <1>2 DEF BeingPublished
  <2> QED BY <1>1, <2>1, <2>2, <2>3, <2>4 DEF WholeFor
<1> QED BY <1>3 DEF WholeOK

LEMMA WholeFlushFailed == ASSUME IndexInv, WholeOK, FlushFailed PROVE WholeOK'
<1>1. spoiled \subseteq spoiled' /\ writing' = <<>> /\ UNCHANGED <<sessions, indexFile, files>>
  BY DEF FlushFailed, Dequeue
<1>2. ASSUME NEW id \in Imported PROVE WholeFor(id)'
  <2>1. WholeFor(id) /\ id \in Ids
    BY SessionIndexAssumption DEF WholeOK
  <2>2. \/ Phase(id)' = Phase(id)
        \/ /\ Phase(id) = "flushing" /\ Phase(id)' \in {"idle", "waiting"}
           /\ indexFile[id] # 0 => id \in spoiled'
    BY <2>1, FlushFailedKeeps
  <2> QED BY <1>1, <2>1, <2>2 DEF WholeFor
<1> QED BY <1>2 DEF WholeOK

LEMMA WholePublishSaved == ASSUME IndexInv, WholeOK, PublishSaved PROVE WholeOK'
<1>0. TypeOK /\ LifecyclesOK /\ PendingOK /\ PublicationsOK
  BY DEF IndexInv
<1>1. PICK x \in Ids, k \in 1 .. MaxCalls :
        /\ writing # <<>> /\ Head(writeQueue).callers = {<<x, version[x]>>}
        /\ Head(writeQueue).kind = "publish" /\ Step(x, k, "publishing")
        /\ indexFile' = writing[1] /\ sessions' = [sessions EXCEPT ![x] = version[x]]
        /\ spoiled' = (spoiled \ {x}) \cap Listing(writing[1]) /\ writing' = <<>>
        /\ Settles(x, k) /\ UNCHANGED files
  BY DEF PublishSaved, Published, Dequeue
<1>2. /\ Phase(x) = "publishing" /\ Phase(x)' \in {"idle", "waiting"}
      /\ \A id \in Ids : id # x => lifecycles'[id] = lifecycles[id]
  BY <1>0, <1>1, SettlesFacts
<1>3. 1 \in DOMAIN writeQueue /\ Head(writeQueue) = writeQueue[1]
  BY <1>0, <1>1, HeadFacts DEF PendingOK
<1>4. /\ version[x] \in Versions /\ Publish(1) /\ Asks(1, x, version[x])
      /\ \A id \in Ids, v \in Versions : Asks(1, id, v) => id = x
  BY <1>0, <1>1, <1>3, Numbers DEF Publish, Asks
<1>5. ASSUME NEW id \in Imported PROVE WholeFor(id)'
  <2>1. WholeFor(id) /\ id \in Ids
    BY SessionIndexAssumption DEF WholeOK
  <2>2. CASE id = x
    <3>1. files[id] = "whole"
      BY <1>2, <2>1, <2>2 DEF WholeFor
    <3>2. writing[1][x] # 0 /\ version[x] # 0
      <4>1. version[x] <= writing[1][x]
        BY <1>1, <1>3, <1>4 DEF IndexInv, SnapshotOK, Publish
      <4>2. version[x] > buried[x]
        BY <1>0, <1>3, <1>4 DEF PublicationsOK
      <4>3. version[x] \in Nat /\ buried[x] \in Nat /\ writing[1][x] \in Nat
        BY <1>0, <1>1, Numbers
      <4> QED BY <4>1, <4>2, <4>3
    <3>3. sessions'[x] = version[x] /\ indexFile'[x] # 0
      BY <1>0, <1>1, <3>2, Numbers
    <3> QED BY <1>1, <1>2, <2>2, <3>1, <3>2, <3>3 DEF WholeFor
  <2>3. CASE id # x
    <3>1. Phase(id)' = Phase(id) /\ sessions'[id] = sessions[id]
      BY <1>0, <1>1, <1>2, <2>1, <2>3, Numbers DEF Phase
    <3>2. ~BeingPublished(id)
      BY <1>4, <2>1, <2>3 DEF BeingPublished
    <3>3. indexFile'[id] # 0 /\ id \in spoiled => id \in spoiled'
      BY <1>1, <2>1, <2>3 DEF Listing
    <3> QED BY <1>1, <2>1, <3>1, <3>2, <3>3 DEF WholeFor
  <2> QED BY <2>2, <2>3
<1> QED BY <1>5 DEF WholeOK

LEMMA WholePublishFailed == ASSUME IndexInv, WholeOK, PublishFailed PROVE WholeOK'
<1>0. TypeOK /\ LifecyclesOK
  BY DEF IndexInv
<1>1. PICK x \in Ids, k \in 1 .. MaxCalls :
        /\ Step(x, k, "publishing") /\ Advances(x, k, "undoing") /\ writing' = <<>>
        /\ UNCHANGED <<sessions, indexFile, files, spoiled>>
  BY DEF PublishFailed, Dequeue
<1>2. /\ Phase(x) = "publishing" /\ Phase(x)' = "undoing"
      /\ \A id \in Ids : id # x => lifecycles'[id] = lifecycles[id]
  BY <1>0, <1>1, AdvancesFacts
<1>3. ASSUME NEW id \in Imported PROVE WholeFor(id)'
  <2>1. WholeFor(id) /\ id \in Ids
    BY SessionIndexAssumption DEF WholeOK
  <2>2. Phase(id)' = Phase(id) \/ (Phase(id) = "publishing" /\ Phase(id)' = "undoing")
    BY <1>2, <2>1 DEF Phase
  <2> QED BY <1>1, <2>1, <2>2 DEF WholeFor
<1> QED BY <1>3 DEF WholeOK

LEMMA WholeCrash == ASSUME IndexInv, WholeOK, Crash PROVE WholeOK'
<1>1. /\ sessions' = indexFile' /\ writing' = <<>> /\ lifecycles' = [id \in Ids |-> <<>>]
      /\ indexFile' = indexFile \/ (writing # <<>> /\ indexFile' = writing[1])
      /\ UNCHANGED <<files, spoiled>>
  BY DEF Crash
<1>2. ASSUME NEW id \in Imported PROVE WholeFor(id)'
  <2>1. WholeFor(id) /\ id \in Ids
    BY SessionIndexAssumption DEF WholeOK
  <2>2. Phase(id)' = "idle"
    BY <1>1, <2>1 DEF Phase
  <2> QED BY <1>1, <2>1, <2>2 DEF WholeFor
<1> QED BY <1>2 DEF WholeOK

(* A session is in the list only if sessions.json names it, and sessions.json names an imported *)
(* session only with its transcript and its context, unless a removal of it could not be written: *)
(* importSession publishes the index last, and what it undoes no list and no snapshot names.       *)
THEOREM ImportsStayWhole == Spec => []ImportsAreWhole
<1>1. Init => WholeOK
  <2>1. ASSUME Init, NEW id \in Imported PROVE WholeFor(id)
    <3>1. id \in Ids /\ sessions[id] = 0 /\ indexFile[id] = 0 /\ writing = <<>> /\ Phase(id) = "idle"
      BY <2>1, SessionIndexAssumption DEF Init, Phase
    <3> QED BY <3>1 DEF WholeFor
  <2> QED BY <2>1 DEF WholeOK
<1>2. ASSUME IndexInv, WholeOK, [Next]_vars PROVE WholeOK'
  <2>1. CASE UNCHANGED vars
    BY <1>2, <2>1 DEF vars, WholeOK, WholeFor, BeingPublished, Publish, Asks, Phase
  <2>2. ASSUME NEW x \in Ids, Upsert(x) \/ Remove(x) \/ ImportSession(x) \/ BeginNext(x) PROVE WholeOK'
    BY <1>2, <2>2, WholeUpsert, WholeLifecycle, WholeBeginNext DEF Remove, ImportSession
  <2>3. ASSUME NEW x \in Ids, NEW k \in 1 .. MaxCalls,
               WriteTranscript(x, k) \/ WriteContext(x, k) \/ UndoImport(x, k) \/ EraseFiles(x, k)
        PROVE  WholeOK'
    BY <1>2, <2>3, WholeFiles
  <2>4. CASE StartWrite \/ FlushSaved \/ FlushFailed \/ PublishSaved \/ PublishFailed \/ Crash
    BY <1>2, <2>4, WholeStartWrite, WholeFlushSaved, WholeFlushFailed, WholePublishSaved, WholePublishFailed,
       WholeCrash
  <2> QED BY <1>2, <2>1, <2>2, <2>3, <2>4 DEF Next
<1>3. WholeOK => ImportsAreWhole
  BY DEF WholeOK, WholeFor, ImportsAreWhole
<1> QED BY <1>1, <1>2, <1>3, IndexInvariant, PTL DEF Spec

-----------------------------------------------------------------------------
(* The transcript. *)

Jobs == [kind : {"append", "rewrite", "commit"}, rows : Seq(Items), drops : SUBSET Items]

(* x was called before y. *)
Before(x, y) == \E k, m \in DOMAIN called : k < m /\ called[k] = x /\ called[m] = y

InOrder(rows) ==
  \A i, j \in DOMAIN rows : i < j /\ {rows[i], rows[j]} \subseteq Items => Before(rows[i], rows[j])

IsRewrite(i) == i \in DOMAIN chain /\ chain[i].kind = "rewrite"
IsLine(i) == i \in DOMAIN chain /\ chain[i].kind # "rewrite"
Item(i) == chain[i].rows[1]

(* What the file holds once the rewrite that truncated it has written. *)
Now == IF step = "truncated" THEN chain[1].rows ELSE file

(* An append or a commit writes one item and leaves nothing out. *)
LinesOK ==
  \A i \in DOMAIN chain :
    IsLine(i) => Len(chain[i].rows) = 1 /\ Item(i) \in Items /\ chain[i].drops = {}

(* Half-done work belongs to the head: a commit has read the file as it still is. *)
HeadOK ==
  /\ step = "read" => IsLine(1) /\ previous = file
  /\ step = "truncated" => IsRewrite(1) /\ file = <<>>

CalledOnce == \A i, j \in DOMAIN called : called[i] = called[j] => i = j

(* Every item anywhere comes from a call. *)
AllCalled ==
  /\ Readable(file) \cup written \cup dropped \subseteq Readable(called)
  /\ \A i \in DOMAIN chain : Readable(chain[i].rows) \cup chain[i].drops \subseteq Readable(called)

(* What is in the file, or is ahead in the chain, was called before what an append will write. *)
OrderOK ==
  /\ InOrder(file)
  /\ \A i \in DOMAIN chain : InOrder(chain[i].rows)
  /\ \A j \in DOMAIN chain : IsLine(j) => \A x \in Readable(file) : Before(x, Item(j))
  /\ \A i, j \in DOMAIN chain :
       i < j /\ IsLine(j) => \A x \in Readable(chain[i].rows) : Before(x, Item(j))

(* A rewrite leaves out nothing that was called after it. *)
DropsOK ==
  /\ dropped \cap Readable(Now) = {}
  /\ step = "truncated" => chain[1].drops \subseteq dropped
  /\ \A i \in DOMAIN chain : chain[i].drops \cap Readable(chain[i].rows) = {}
  /\ \A j \in DOMAIN chain : IsLine(j) => Item(j) \notin dropped
  /\ \A i, j \in DOMAIN chain : i < j /\ IsLine(j) => Item(j) \notin chain[i].drops

Covers(j, rows) == rows \subseteq Readable(chain[j].rows) \cup chain[j].drops

(* A rewrite has decided, to keep or to leave out, about all that it will find in the file. *)
CoverOK ==
  \A j \in DOMAIN chain : IsRewrite(j) =>
    /\ Covers(j, written) /\ Covers(j, Readable(Now))
    /\ \A i \in DOMAIN chain : i < j => Covers(j, Readable(chain[i].rows))

Pending(x) == \E i \in DOMAIN chain : IsLine(i) /\ Item(i) = x

(* What was acknowledged is there; what was not, has failed or is still to come. *)
KeepOK ==
  /\ written \ (dropped \cup spoilt) \subseteq Readable(Now)
  /\ \A x \in Readable(called) : x \in written \cup failed \/ Pending(x)

(* The item is there, or is in the chain ahead of the read. *)
Comes(r, x) ==
  x \in Readable(Now) \/ \E i \in DOMAIN chain : i <= reader[r].behind /\ IsLine(i) /\ Item(i) = x

(* A read can keep its promise; one that a rewrite came behind has none left to keep. *)
ReadOK(r) ==
  /\ reader[r].calling =>
       /\ reader[r].behind <= Len(chain)
       /\ \A x \in reader[r].promised : Comes(r, x)
       /\ \A i \in DOMAIN chain : reader[r].promised \cap chain[i].drops = {}
       /\ \A i \in DOMAIN chain : IsRewrite(i) /\ i > reader[r].behind => reader[r].promised = {}
  /\ ~reader[r].calling => reader[r].promised \subseteq reader[r].got

ReadsOK == \A r \in Readers : ReadOK(r)

TranscriptInv == /\ TranscriptTypeOK /\ LinesOK /\ HeadOK /\ CalledOnce /\ AllCalled
       /\ OrderOK /\ DropsOK /\ CoverOK /\ KeepOK /\ ReadsOK

-----------------------------------------------------------------------------
(* Rows. *)

LEMMA ReadableIs ==
  ASSUME NEW rows, NEW x
  PROVE  x \in Readable(rows) <=> x \in Items /\ \E i \in DOMAIN rows : rows[i] = x
BY DEF Readable

LEMMA ReadableNone == Readable(<<>>) = {}
BY DEF Readable

LEMMA ReadableOne ==
  ASSUME NEW rows \in Seq(Items), Len(rows) = 1
  PROVE  rows[1] \in Items /\ Readable(rows) = {rows[1]} /\ rows = <<rows[1]>>
<1>1. DOMAIN rows = {1}
  BY LenProperties
<1>2. rows[1] \in Items
  BY ElementOfSeq
<1>3. rows = <<rows[1]>>
  BY <1>2, SeqEqual
<1>4. Readable(rows) = {rows[1]}
  BY <1>1, <1>2 DEF Readable
<1>5. QED BY <1>2, <1>3, <1>4

LEMMA ReadableAppend ==
  ASSUME NEW rows \in Seq(Rows), NEW row \in Rows
  PROVE  Readable(Append(rows, row)) = Readable(rows) \cup ({row} \cap Items)
<1> DEFINE more == Append(rows, row)
<1>1. Len(more) = Len(rows) + 1 /\ more[Len(rows) + 1] = row /\ \A i \in 1 .. Len(rows) : more[i] = rows[i]
  BY AppendProperties
<1>2. DOMAIN more = 1 .. Len(rows) + 1 /\ DOMAIN rows = 1 .. Len(rows) /\ Len(rows) \in Nat
  BY <1>1, AppendProperties, LenProperties
<1> HIDE DEF more
<1>3. QED BY <1>1, <1>2 DEF Readable

LEMMA ReadableConcat ==
  ASSUME NEW rows \in Seq(Rows), NEW more \in Seq(Rows)
  PROVE  Readable(rows \o more) = Readable(rows) \cup Readable(more)
<1> DEFINE both == rows \o more
<1>1. /\ Len(both) = Len(rows) + Len(more) /\ both \in Seq(Rows)
      /\ \A i \in 1 .. Len(rows) + Len(more) : both[i] = IF i <= Len(rows) THEN rows[i] ELSE more[i - Len(rows)]
  BY ConcatProperties
<1>2. /\ DOMAIN both = 1 .. Len(rows) + Len(more) /\ DOMAIN rows = 1 .. Len(rows) /\ Len(rows) \in Nat
      /\ DOMAIN more = 1 .. Len(more) /\ Len(more) \in Nat
  BY <1>1, LenProperties
<1> HIDE DEF both
<1>3. \A i \in DOMAIN rows : i \in DOMAIN both /\ both[i] = rows[i]
  BY <1>1, <1>2
<1>4. \A i \in DOMAIN more : i + Len(rows) \in DOMAIN both /\ both[i + Len(rows)] = more[i]
  BY <1>1, <1>2
<1>5. \A i \in DOMAIN both : i \in DOMAIN rows \/ (i - Len(rows) \in DOMAIN more /\ both[i] = more[i - Len(rows)])
  BY <1>1, <1>2
<1>6. Readable(both) \subseteq Readable(rows) \cup Readable(more)
  BY <1>3, <1>5 DEF Readable
<1>7. Readable(rows) \cup Readable(more) \subseteq Readable(both)
  BY <1>3, <1>4 DEF Readable
<1>8. QED BY <1>6, <1>7 DEF both

LEMMA ItemsAreRows == Seq(Items) \subseteq Seq(Rows)
BY SeqMonotonic DEF Rows

(* The chain with a call behind it, and without its head. *)
LEMMA Queued ==
  ASSUME NEW job \in Jobs, chain \in Seq(Jobs), chain' = Append(chain, job)
  PROVE  /\ chain' \in Seq(Jobs) /\ chain' # <<>> /\ Len(chain) \in Nat
         /\ DOMAIN chain = 1 .. Len(chain) /\ DOMAIN chain' = 1 .. Len(chain) + 1
         /\ Len(chain') = Len(chain) + 1
         /\ \A i \in 1 .. Len(chain) : chain'[i] = chain[i]
         /\ chain'[Len(chain) + 1] = job
<1>1. /\ Append(chain, job) \in Seq(Jobs) /\ Append(chain, job) # <<>>
      /\ Len(Append(chain, job)) = Len(chain) + 1
      /\ \A i \in 1 .. Len(chain) : Append(chain, job)[i] = chain[i]
      /\ Append(chain, job)[Len(chain) + 1] = job
  BY AppendProperties
<1>2. DOMAIN chain = 1 .. Len(chain) /\ Len(chain) \in Nat
  BY LenProperties
<1>3. DOMAIN Append(chain, job) = 1 .. Len(Append(chain, job))
  BY <1>1, LenProperties
<1>4. QED BY <1>1, <1>2, <1>3

LEMMA HeadGone ==
  ASSUME chain \in Seq(Jobs), chain # <<>>, chain' = Tail(chain)
  PROVE  /\ chain' \in Seq(Jobs) /\ Len(chain) \in Nat \ {0}
         /\ DOMAIN chain = 1 .. Len(chain) /\ DOMAIN chain' = 1 .. Len(chain) - 1
         /\ Len(chain') = Len(chain) - 1
         /\ \A i \in DOMAIN chain' : i + 1 \in DOMAIN chain /\ chain'[i] = chain[i + 1]
         /\ 1 \in DOMAIN chain
<1>1. /\ Tail(chain) \in Seq(Jobs) /\ Len(Tail(chain)) = Len(chain) - 1
      /\ \A i \in 1 .. Len(Tail(chain)) : Tail(chain)[i] = chain[i + 1]
  BY HeadTailProperties
<1>2. DOMAIN chain = 1 .. Len(chain) /\ Len(chain) \in Nat \ {0}
  BY LenProperties, EmptySeq
<1>3. DOMAIN Tail(chain) = 1 .. Len(Tail(chain))
  BY <1>1, LenProperties
<1>4. QED BY <1>1, <1>2, <1>3

LEMMA JobIs ==
  ASSUME chain \in Seq(Jobs), NEW i \in DOMAIN chain
  PROVE  /\ chain[i] \in Jobs /\ chain[i].rows \in Seq(Items) /\ chain[i].drops \subseteq Items
         /\ chain[i].kind \in {"append", "rewrite", "commit"} /\ chain[i].rows \in Seq(Rows)
<1>1. chain[i] \in Jobs
  BY ElementOfSeq, LenProperties
<1>2. QED BY <1>1, ItemsAreRows DEF Jobs

LEMMA HeadIs ==
  ASSUME chain \in Seq(Jobs), chain # <<>>
  PROVE  Head(chain) = chain[1] /\ 1 \in DOMAIN chain /\ chain[1] \in Jobs
<1>1. 1 \in DOMAIN chain
  BY LenProperties, EmptySeq
<1>2. QED BY <1>1, JobIs

-----------------------------------------------------------------------------
(* The order of calls. *)

LEMMA CalledIs ==
  ASSUME called \in Seq(Items)
  PROVE  /\ DOMAIN called = 1 .. Len(called) /\ Len(called) \in Nat
         /\ Readable(called) \subseteq Items
         /\ \A x : x \in Readable(called) <=> \E i \in DOMAIN called : called[i] = x
         /\ \A i \in DOMAIN called : called[i] \in Readable(called)
<1>1. DOMAIN called = 1 .. Len(called) /\ Len(called) \in Nat
  BY LenProperties
<1>2. \A i \in DOMAIN called : called[i] \in Items
  BY <1>1, ElementOfSeq
<1>3. QED BY <1>1, <1>2 DEF Readable

LEMMA CalledNext ==
  ASSUME called \in Seq(Items), CalledOnce, NEW item \in Items, item \notin Readable(called),
         called' = Append(called, item)
  PROVE  /\ called' \in Seq(Items) /\ CalledOnce'
         /\ Readable(called)' = Readable(called) \cup {item}
         /\ \A x, y : Before(x, y) => Before(x, y)'
         /\ \A x \in Readable(called) : Before(x, item)'
<1>1. /\ called' \in Seq(Items) /\ Len(called') = Len(called) + 1
      /\ \A i \in 1 .. Len(called) : called'[i] = called[i]
      /\ called'[Len(called) + 1] = item
  BY AppendProperties
<1>2. DOMAIN called' = 1 .. Len(called) + 1
  BY <1>1, LenProperties
<1>3. Readable(Append(called, item)) = Readable(called) \cup ({item} \cap Items)
  <2>1. called \in Seq(Rows) /\ item \in Rows
    BY ItemsAreRows DEF Rows
  <2>2. QED BY <2>1, ReadableAppend
<1>4. Readable(called)' = Readable(called) \cup {item}
  BY <1>3 DEF Readable
<1>5. \A x \in Readable(called) : Before(x, item)'
  <2> SUFFICES ASSUME NEW x \in Readable(called) PROVE Before(x, item)'
    OBVIOUS
  <2>1. PICK i \in DOMAIN called : called[i] = x
    BY CalledIs
  <2>2. i \in DOMAIN called' /\ Len(called) + 1 \in DOMAIN called' /\ i < Len(called) + 1
    BY <1>2, CalledIs
  <2>3. called'[i] = x /\ called'[Len(called) + 1] = item
    BY <1>1, <2>1, CalledIs
  <2>4. QED BY <2>2, <2>3 DEF Before
<1>6. CalledOnce'
  <2> SUFFICES ASSUME NEW i \in DOMAIN called', NEW j \in DOMAIN called', called'[i] = called'[j]
               PROVE  i = j
    BY DEF CalledOnce
  <2>1. CASE i \in DOMAIN called /\ j \in DOMAIN called
    BY <1>1, <2>1, CalledIs DEF CalledOnce
  <2>2. \A n \in DOMAIN called' : n \in DOMAIN called \/ n = Len(called) + 1
    BY <1>2, CalledIs
  <2>3. \A n \in DOMAIN called : called'[n] # item
    BY <1>1, CalledIs
  <2>4. QED BY <1>1, <2>1, <2>2, <2>3
<1>7. ASSUME NEW x, NEW y, Before(x, y)
      PROVE  Before(x, y)'
  <2>1. PICK k \in DOMAIN called, m \in DOMAIN called : k < m /\ called[k] = x /\ called[m] = y
    BY <1>7 DEF Before
  <2>2. k \in DOMAIN called' /\ m \in DOMAIN called' /\ called'[k] = x /\ called'[m] = y
    BY <1>1, <1>2, <2>1, CalledIs
  <2>3. QED BY <2>1, <2>2 DEF Before
<1>8. QED BY <1>1, <1>4, <1>5, <1>6, <1>7

LEMMA BeforeSame ==
  ASSUME UNCHANGED called
  PROVE  /\ \A x, y : Before(x, y) <=> Before(x, y)'
         /\ Readable(called)' = Readable(called)
BY DEF Before, Readable

LEMMA OrderOfConcat ==
  ASSUME NEW rows \in Seq(Rows), NEW item \in Items, InOrder(rows),
         \A x \in Readable(rows) : Before(x, item)
  PROVE  InOrder(Append(rows, item))
<1> DEFINE more == Append(rows, item)
<1>1. /\ Len(more) = Len(rows) + 1 /\ more[Len(rows) + 1] = item
      /\ \A i \in 1 .. Len(rows) : more[i] = rows[i]
      /\ DOMAIN rows = 1 .. Len(rows) /\ Len(rows) \in Nat
  <2>1. item \in Rows
    BY DEF Rows
  <2>2. more \in Seq(Rows) /\ Len(more) = Len(rows) + 1 /\ more[Len(rows) + 1] = item
    BY <2>1, AppendProperties
  <2>3. \A i \in 1 .. Len(rows) : more[i] = rows[i]
    BY <2>1, AppendProperties
  <2>4. DOMAIN rows = 1 .. Len(rows) /\ Len(rows) \in Nat
    BY LenProperties
  <2> HIDE DEF more
  <2>5. QED BY <2>2, <2>3, <2>4
<1>2. DOMAIN more = 1 .. Len(rows) + 1
  <2>1. item \in Rows
    BY DEF Rows
  <2>2. more \in Seq(Rows) /\ Len(more) = Len(rows) + 1
    BY <2>1, AppendProperties
  <2>3. QED BY <2>2, LenProperties
<1> HIDE DEF more
<1>3. ASSUME NEW i \in DOMAIN more, NEW j \in DOMAIN more, i < j, more[i] \in Items, more[j] \in Items
      PROVE  Before(more[i], more[j])
  <2>1. i \in DOMAIN rows /\ more[i] = rows[i]
    BY <1>1, <1>2, <1>3
  <2>2. CASE j \in DOMAIN rows
    <3>1. more[j] = rows[j]
      BY <1>1, <2>2
    <3>2. QED BY <1>3, <2>1, <2>2, <3>1 DEF InOrder
  <2>3. CASE j = Len(rows) + 1
    <3>1. more[j] = item
      BY <1>1, <2>3
    <3>2. rows[i] \in Readable(rows)
      BY <1>3, <2>1 DEF Readable
    <3>3. QED BY <2>1, <3>1, <3>2
  <2>4. QED BY <1>1, <1>2, <2>2, <2>3
<1>4. QED BY <1>3 DEF InOrder, more

-----------------------------------------------------------------------------
(* Types. *)

LEMMA LastOfAppend ==
  ASSUME NEW rows \in Seq(Rows), NEW row \in Rows
  PROVE  /\ Append(rows, row) \in Seq(Rows) /\ Append(rows, row) # <<>>
         /\ Append(rows, row)[Len(Append(rows, row))] = row
<1>1. /\ Append(rows, row) \in Seq(Rows) /\ Append(rows, row) # <<>>
      /\ Len(Append(rows, row)) = Len(rows) + 1 /\ Append(rows, row)[Len(rows) + 1] = row
  BY AppendProperties
<1>2. QED BY <1>1

(* A row written behind a torn one goes with its line. *)
LEMMA AppendedIs ==
  ASSUME TranscriptTypeOK, NEW item \in Items
  PROVE  /\ torn => Appended(item) = file
         /\ ~torn => Appended(item) = Append(file, item)
         /\ Appended(item) \in Seq(Rows)
<1>1. file \in Seq(Rows) /\ item \in Rows
  BY DEF TranscriptTypeOK, Rows
<1>2. CASE torn
  <2>1. file[Len(file)] = Garbled /\ file # <<>>
    BY <1>2 DEF TranscriptTypeOK
  <2>2. [file EXCEPT ![Len(file)] = Garbled] = file
    BY <1>1, <2>1
  <2>3. QED BY <1>1, <1>2, <2>2 DEF Appended
<1>3. CASE ~torn
  BY <1>1, <1>3, AppendProperties DEF Appended
<1>4. QED BY <1>2, <1>3 DEF TranscriptTypeOK

LEMMA CutShortIs ==
  ASSUME TranscriptTypeOK, CutShort
  PROVE  /\ file' \in Seq(Rows) /\ torn' \in BOOLEAN /\ (torn' => file' # <<>> /\ file'[Len(file')] = Garbled)
         /\ file' = file \/ (Head(chain).kind = "append" /\ file' = Append(file, Garbled))
<1>1. file \in Seq(Rows) /\ Garbled \in Rows /\ torn \in BOOLEAN
      /\ (torn => file # <<>> /\ file[Len(file)] = Garbled)
  BY DEF TranscriptTypeOK, Rows
<1>2. /\ Append(file, Garbled) \in Seq(Rows) /\ Append(file, Garbled) # <<>>
      /\ Append(file, Garbled)[Len(Append(file, Garbled))] = Garbled
  BY <1>1, LastOfAppend
<1>3. CASE UNCHANGED <<file, torn>>
  BY <1>1, <1>3
<1>4. CASE Head(chain).kind = "append" /\ torn' = TRUE /\ file' = IF torn THEN file ELSE Append(file, Garbled)
  BY <1>1, <1>2, <1>4
<1>5. QED BY <1>3, <1>4 DEF CutShort

ReaderType == [calling : BOOLEAN, behind : Nat, promised : SUBSET Items, got : SUBSET Items]

LEMMA QueuedType ==
  ASSUME TranscriptTypeOK, NEW job \in Jobs, chain' = Append(chain, job),
         UNCHANGED <<file, torn, step, previous, written, dropped, failed, spoilt>>,
         called' \in Seq(Items), reader' \in [Readers -> ReaderType]
  PROVE  TranscriptTypeOK'
<1>1. chain' \in Seq(Jobs) /\ chain' # <<>>
  BY Queued DEF TranscriptTypeOK, Jobs
<1>2. (torn => file # <<>> /\ file[Len(file)] = Garbled)'
  BY DEF TranscriptTypeOK
<1>3. QED BY <1>1, <1>2 DEF TranscriptTypeOK, Jobs, ReaderType

LEMMA SettledReaders ==
  ASSUME TranscriptTypeOK, Settled
  PROVE  /\ reader' \in [Readers -> ReaderType]
         /\ \A r \in Readers :
              /\ reader'[r].calling = reader[r].calling /\ reader'[r].got = reader[r].got
              /\ reader'[r].promised = reader[r].promised \ (failed' \cup spoilt')
              /\ reader'[r].behind = IF reader[r].behind = 0 THEN 0 ELSE reader[r].behind - 1
<1> DEFINE next(r) == [reader[r] EXCEPT !.behind = IF reader[r].behind = 0 THEN 0 ELSE reader[r].behind - 1,
                                        !.promised = reader[r].promised \ (failed' \cup spoilt')]
<1>1. reader' = [r \in Readers |-> next(r)]
  BY DEF Settled
<1>2. ASSUME NEW r \in Readers
      PROVE  /\ next(r) \in ReaderType
             /\ next(r).calling = reader[r].calling /\ next(r).got = reader[r].got
             /\ next(r).promised = reader[r].promised \ (failed' \cup spoilt')
             /\ next(r).behind = IF reader[r].behind = 0 THEN 0 ELSE reader[r].behind - 1
  <2>1. reader[r] \in ReaderType
    BY DEF TranscriptTypeOK, ReaderType
  <2>2. /\ (IF reader[r].behind = 0 THEN 0 ELSE reader[r].behind - 1) \in Nat
        /\ reader[r].promised \ (failed' \cup spoilt') \in SUBSET Items
    BY <2>1 DEF ReaderType
  <2>3. QED BY <2>1, <2>2 DEF ReaderType
<1> HIDE DEF next
<1>3. QED BY <1>1, <1>2

LEMMA SettledType ==
  ASSUME TranscriptTypeOK, chain # <<>>, Settled, called' = called,
         file' \in Seq(Rows), torn' \in BOOLEAN, torn' => file' # <<>> /\ file'[Len(file')] = Garbled,
         written' \subseteq Items, dropped' \subseteq Items, failed' \subseteq Items, spoilt' \subseteq Items
  PROVE  TranscriptTypeOK'
<1>1. chain' \in Seq(Jobs)
  BY HeadGone DEF TranscriptTypeOK, Jobs, Settled
<1>2. previous' \in Seq(Rows) /\ step' = "ready"
  BY EmptySeq DEF Settled
<1>3. reader' \in [Readers -> ReaderType]
  BY SettledReaders
<1>4. (torn => file # <<>> /\ file[Len(file)] = Garbled)'
  OBVIOUS
<1>5. QED BY <1>1, <1>2, <1>3, <1>4 DEF TranscriptTypeOK, Jobs, ReaderType

LEMMA KeptIs ==
  ASSUME TranscriptTypeOK, NEW n \in 0 .. Len(file), NEW keep \in Kept(n)
  PROVE  /\ keep \in Seq(Items) /\ Readable(keep) \subseteq Readable(file)
         /\ InOrder(file) => InOrder(keep)
<1> DEFINE places == {i \in 1 .. n : file[i] \in Items}
<1>1. PICK at \in [1 .. Cardinality(places) -> places] :
        /\ \A i, j \in DOMAIN at : i < j => at[i] < at[j]
        /\ keep = [i \in DOMAIN at |-> file[at[i]]]
  BY DEF Kept
<1>2. Cardinality(places) \in Nat
  <2>1. IsFiniteSet(1 .. n) /\ n \in Nat
    BY FS_Interval, LenProperties DEF TranscriptTypeOK
  <2>2. IsFiniteSet(places)
    BY <2>1, FS_Subset
  <2>3. QED BY <2>2, FS_CardinalityType
<1>3. \A i \in places : i \in DOMAIN file /\ file[i] \in Items
  BY LenProperties DEF TranscriptTypeOK
<1>4. DOMAIN keep = DOMAIN at /\ \A i \in DOMAIN keep : keep[i] = file[at[i]] /\ at[i] \in places
  BY <1>1
<1>5. keep \in [1 .. Cardinality(places) -> Items]
  BY <1>1, <1>3
<1> HIDE DEF places
<1>6. keep \in Seq(Items)
  <2>1. keep \in UNION {[1 .. m -> Items] : m \in Nat}
    BY <1>2, <1>5
  <2>2. QED BY <2>1, SeqDef
<1>7. Readable(keep) \subseteq Readable(file)
  BY <1>3, <1>4 DEF Readable
<1>8. ASSUME InOrder(file) PROVE InOrder(keep)
  BY <1>1, <1>3, <1>4, <1>8 DEF InOrder
<1>9. QED BY <1>6, <1>7, <1>8

-----------------------------------------------------------------------------
(* A call is put on the chain. *)

LEMMA NowIs ==
  ASSUME TranscriptTypeOK, HeadOK
  PROVE  /\ step = "truncated" => IsRewrite(1) /\ Now = chain[1].rows
         /\ step # "truncated" => Now = file
         /\ Now \in Seq(Rows)
BY JobIs DEF TranscriptTypeOK, HeadOK, IsRewrite, Now, Jobs

(* Of the call behind the others, or without the head: which call is which. *)
LEMMA SameCalls ==
  ASSUME TranscriptTypeOK, NEW job \in Jobs, chain' = Append(chain, job)
  PROVE  /\ \A i \in DOMAIN chain :
              /\ i \in DOMAIN chain' /\ chain'[i] = chain[i]
              /\ IsLine(i)' <=> IsLine(i)
              /\ IsRewrite(i)' <=> IsRewrite(i)
              /\ Item(i)' = Item(i)
         /\ \A i \in DOMAIN chain' : i \in DOMAIN chain \/ i = Len(chain) + 1
         /\ Len(chain) + 1 \in DOMAIN chain' /\ chain'[Len(chain) + 1] = job
         /\ Len(chain) + 1 \notin DOMAIN chain /\ \A i \in DOMAIN chain : i < Len(chain) + 1 /\ i \in Nat
<1>1. chain \in Seq(Jobs)
  BY DEF TranscriptTypeOK, Jobs
<1>2. QED BY <1>1, Queued DEF IsLine, IsRewrite, Item

LEMMA ShiftedCalls ==
  ASSUME TranscriptTypeOK, chain # <<>>, chain' = Tail(chain)
  PROVE  /\ \A i \in DOMAIN chain' :
              /\ i + 1 \in DOMAIN chain /\ chain'[i] = chain[i + 1]
              /\ IsLine(i)' <=> IsLine(i + 1)
              /\ IsRewrite(i)' <=> IsRewrite(i + 1)
              /\ Item(i)' = Item(i + 1)
              /\ 1 < i + 1 /\ i \in Nat
         /\ \A i \in DOMAIN chain : i = 1 \/ (i - 1 \in DOMAIN chain' /\ (i - 1) + 1 = i)
         /\ 1 \in DOMAIN chain /\ Len(chain') = Len(chain) - 1 /\ Len(chain) \in Nat
         /\ \A i \in DOMAIN chain : i \in Nat /\ i >= 1
<1>1. chain \in Seq(Jobs)
  BY DEF TranscriptTypeOK, Jobs
<1>2. QED BY <1>1, HeadGone DEF IsLine, IsRewrite, Item

LEMMA QueueLine ==
  ASSUME TranscriptInv, NEW item \in Items, item \notin Readable(called), called' = Append(called, item),
         NEW job \in Jobs, job.kind # "rewrite", job.rows = <<item>>, job.drops = {},
         chain' = Append(chain, job),
         UNCHANGED <<file, torn, step, previous, reader, written, dropped, failed, spoilt>>
  PROVE  TranscriptInv'
<1>0. TranscriptTypeOK /\ HeadOK /\ chain \in Seq(Jobs)
  BY DEF TranscriptInv, TranscriptTypeOK, Jobs
<1>20. PICK last \in Nat : last = Len(chain) + 1
  BY <1>0, LenProperties
<1>1. /\ CalledOnce' /\ called' \in Seq(Items) /\ Readable(called)' = Readable(called) \cup {item}
      /\ \A x, y : Before(x, y) => Before(x, y)'
      /\ \A x \in Readable(called) : Before(x, item)'
  BY CalledNext DEF TranscriptInv, TranscriptTypeOK
<1>2. TranscriptTypeOK'
  BY <1>1, QueuedType DEF TranscriptInv, TranscriptTypeOK, ReaderType
<1>3. /\ \A i \in DOMAIN chain :
           /\ i \in DOMAIN chain' /\ chain'[i] = chain[i]
           /\ IsLine(i)' <=> IsLine(i)
           /\ IsRewrite(i)' <=> IsRewrite(i)
           /\ Item(i)' = Item(i)
      /\ \A i \in DOMAIN chain' : i \in DOMAIN chain \/ i = last
      /\ last \in DOMAIN chain' /\ chain'[last] = job
      /\ last \notin DOMAIN chain /\ \A i \in DOMAIN chain : i < last /\ i \in Nat
  BY <1>0, <1>20, SameCalls
<1>21. last \in DOMAIN chain' /\ chain'[last] = job
  BY <1>3
<1>4. IsLine(last)' /\ Item(last)' = item /\ ~IsRewrite(last)' /\ Len(chain'[last].rows) = 1
  <2>1. chain'[last].rows = <<item>> /\ chain'[last].kind # "rewrite"
    BY <1>21
  <2>2. IsLine(last)' /\ ~IsRewrite(last)'
    BY <1>21, <2>1 DEF IsLine, IsRewrite
  <2>3. Item(last)' = item /\ Len(chain'[last].rows) = 1
    BY <2>1 DEF Item
  <2>4. QED BY <2>2, <2>3
<1>5. Readable(<<item>>) = {item} /\ Readable(job.rows) = {item}
  <2>1. <<item>> \in Seq(Items) /\ Len(<<item>>) = 1 /\ <<item>>[1] = item
    OBVIOUS
  <2>2. QED BY <2>1, ReadableOne
<1>6. Readable(file)' = Readable(file) /\ Readable(Now)' = Readable(Now)
  BY <1>0, <1>3 DEF HeadOK, IsRewrite, Readable, Now
<1>7. LinesOK'
  BY <1>3, <1>4 DEF TranscriptInv, LinesOK, Item
<1>8. HeadOK'
  BY <1>0, <1>3 DEF HeadOK, IsLine, IsRewrite
<1>9. AllCalled'
  <2>1. \A i \in DOMAIN chain' : Readable(chain[i].rows)' \cup chain'[i].drops \subseteq Readable(called)'
    BY <1>1, <1>3, <1>5 DEF TranscriptInv, AllCalled, Readable
  <2>2. QED BY <1>1, <1>6, <2>1 DEF TranscriptInv, AllCalled
<1>10. OrderOK'
  <2>1. InOrder(file)'
    BY <1>1 DEF TranscriptInv, OrderOK, InOrder
  <2>2. ASSUME NEW i \in DOMAIN chain' PROVE InOrder(chain[i].rows)'
    <3>1. CASE i \in DOMAIN chain
      BY <1>1, <1>3, <3>1 DEF TranscriptInv, OrderOK, InOrder
    <3>2. CASE i = last
      BY <1>3, <3>2 DEF InOrder
    <3>3. QED BY <1>3, <3>1, <3>2
  <2>3. ASSUME NEW j \in DOMAIN chain', IsLine(j)', NEW x \in Readable(file)' PROVE Before(x, Item(j))'
    <3>1. CASE j \in DOMAIN chain
      BY <1>1, <1>3, <1>6, <2>3, <3>1 DEF TranscriptInv, OrderOK
    <3>2. CASE j = last
      BY <1>1, <1>4, <1>6, <3>2 DEF TranscriptInv, AllCalled
    <3>3. QED BY <1>3, <3>1, <3>2
  <2>4. ASSUME NEW i \in DOMAIN chain', NEW j \in DOMAIN chain', i < j, IsLine(j)', NEW x \in Readable(chain[i].rows)'
        PROVE  Before(x, Item(j))'
    <3>1. i \in DOMAIN chain
      BY <1>3, <1>20, <2>4
    <3>2. x \in Readable(chain[i].rows)
      BY <1>3, <3>1 DEF Readable
    <3>3. CASE j \in DOMAIN chain
      BY <1>1, <1>3, <2>4, <3>1, <3>2, <3>3 DEF TranscriptInv, OrderOK
    <3>4. CASE j = last
      BY <1>1, <1>4, <3>1, <3>2, <3>4 DEF TranscriptInv, AllCalled
    <3>5. QED BY <1>3, <3>3, <3>4
  <2>5. QED BY <2>1, <2>2, <2>3, <2>4 DEF OrderOK
<1>11. DropsOK'
  <2>1. (step = "truncated" => chain[1].drops \subseteq dropped)'
    BY <1>0, <1>3 DEF HeadOK, IsRewrite, TranscriptInv, DropsOK
  <2>2. \A i \in DOMAIN chain' : chain'[i].drops \cap Readable(chain[i].rows)' = {}
    BY <1>3 DEF TranscriptInv, DropsOK, Readable
  <2>3. \A j \in DOMAIN chain' : IsLine(j)' => Item(j)' \notin dropped'
    BY <1>3, <1>4 DEF TranscriptInv, DropsOK, AllCalled
  <2>4. \A i, j \in DOMAIN chain' : i < j /\ IsLine(j)' => Item(j)' \notin chain'[i].drops
    BY <1>3, <1>4, <1>20 DEF TranscriptInv, DropsOK, AllCalled
  <2>5. QED BY <1>6, <2>1, <2>2, <2>3, <2>4 DEF TranscriptInv, DropsOK
<1>12. CoverOK'
  <2> SUFFICES ASSUME NEW j \in DOMAIN chain', IsRewrite(j)'
               PROVE  /\ Covers(j, written)' /\ Covers(j, Readable(Now))'
                      /\ \A i \in DOMAIN chain' : i < j => Covers(j, Readable(chain[i].rows))'
    BY DEF CoverOK
  <2>1. j \in DOMAIN chain /\ IsRewrite(j) /\ chain'[j] = chain[j]
    BY <1>3, <1>4
  <2>2. Covers(j, written) /\ Covers(j, Readable(Now))
    BY <2>1 DEF TranscriptInv, CoverOK
  <2>3. Readable(chain[j].rows)' = Readable(chain[j].rows)
    BY <2>1 DEF Readable
  <2>4. Covers(j, written)' /\ Covers(j, Readable(Now))'
    BY <1>6, <2>1, <2>2, <2>3 DEF Covers
  <2>5. ASSUME NEW i \in DOMAIN chain', i < j PROVE Covers(j, Readable(chain[i].rows))'
    <3>1. i \in DOMAIN chain /\ chain'[i] = chain[i]
      BY <1>3, <1>20, <2>1, <2>5
    <3>2. Covers(j, Readable(chain[i].rows))
      BY <2>1, <2>5, <3>1 DEF TranscriptInv, CoverOK
    <3>3. QED BY <2>1, <2>3, <3>1, <3>2 DEF Covers, Readable
  <2>6. QED BY <2>4, <2>5
<1>13. KeepOK'
  <2>1. \A x : Pending(x) => Pending(x)'
    BY <1>3 DEF Pending
  <2>2. Pending(item)'
    BY <1>3, <1>4 DEF Pending
  <2>3. QED BY <1>1, <1>6, <2>1, <2>2 DEF TranscriptInv, KeepOK
<1>14. ReadsOK'
  <2> SUFFICES ASSUME NEW r \in Readers PROVE ReadOK(r)'
    BY DEF ReadsOK
  <2>0. ReadOK(r)
    BY DEF TranscriptInv, ReadsOK
  <2>1. CASE reader[r].calling
    <3>1. /\ reader[r].behind <= Len(chain)
          /\ \A x \in reader[r].promised : Comes(r, x)
          /\ \A i \in DOMAIN chain : reader[r].promised \cap chain[i].drops = {}
          /\ \A i \in DOMAIN chain : IsRewrite(i) /\ i > reader[r].behind => reader[r].promised = {}
      BY <2>0, <2>1 DEF ReadOK
    <3>2. \A x : Comes(r, x) => Comes(r, x)'
      BY <1>3, <1>6 DEF Comes
    <3>3. (reader[r].behind <= Len(chain))'
      <4>1. Len(chain') = Len(chain) + 1 /\ Len(chain) \in Nat
        BY <1>0, Queued DEF TranscriptTypeOK, Jobs
      <4>2. reader[r].behind \in Nat
        BY <1>0 DEF TranscriptTypeOK
      <4>3. QED BY <3>1, <4>1, <4>2
    <3>4. \A i \in DOMAIN chain' : reader'[r].promised \cap chain'[i].drops = {}
      BY <1>3, <3>1
    <3>5. \A i \in DOMAIN chain' : IsRewrite(i)' /\ i > reader'[r].behind => reader'[r].promised = {}
      BY <1>3, <1>4, <3>1
    <3>6. QED BY <2>1, <3>1, <3>2, <3>3, <3>4, <3>5 DEF ReadOK
  <2>2. CASE ~reader[r].calling
    BY <2>0, <2>2 DEF ReadOK
  <2>3. QED BY <2>1, <2>2
<1>15. QED
  BY <1>1, <1>2, <1>7, <1>8, <1>9, <1>10, <1>11, <1>12, <1>13, <1>14 DEF TranscriptInv
LEMMA QueueRewrite ==
  ASSUME TranscriptInv, NEW job \in Jobs, job.kind = "rewrite",
         job.drops = Readable(called) \ Readable(job.rows),
         Readable(job.rows) \subseteq Readable(file), InOrder(job.rows),
         chain' = Append(chain, job),
         reader' = [r \in Readers |-> [reader[r] EXCEPT !.promised = {}]],
         UNCHANGED <<file, torn, step, previous, called, written, dropped, failed, spoilt>>
  PROVE  TranscriptInv'
<1>0. TranscriptTypeOK /\ HeadOK /\ chain \in Seq(Jobs)
  BY DEF TranscriptInv, TranscriptTypeOK, Jobs
<1>20. PICK last \in Nat : last = Len(chain) + 1
  BY <1>0, LenProperties
<1>1. /\ \A x, y : Before(x, y) <=> Before(x, y)'
      /\ Readable(called)' = Readable(called)
  BY BeforeSame
<1>22. /\ reader' \in [Readers -> ReaderType]
       /\ \A r \in Readers : /\ reader'[r].calling = reader[r].calling /\ reader'[r].behind = reader[r].behind
                             /\ reader'[r].promised = {}
  BY <1>0 DEF TranscriptTypeOK, ReaderType
<1>2. TranscriptTypeOK'
  BY <1>22, <1>0, QueuedType DEF TranscriptTypeOK
<1>3. /\ \A i \in DOMAIN chain :
           /\ i \in DOMAIN chain' /\ chain'[i] = chain[i]
           /\ IsLine(i)' <=> IsLine(i)
           /\ IsRewrite(i)' <=> IsRewrite(i)
           /\ Item(i)' = Item(i)
      /\ \A i \in DOMAIN chain' : i \in DOMAIN chain \/ i = last
      /\ last \in DOMAIN chain' /\ chain'[last] = job
      /\ last \notin DOMAIN chain /\ \A i \in DOMAIN chain : i < last /\ i \in Nat
  BY <1>0, <1>20, SameCalls
<1>21. last \in DOMAIN chain' /\ chain'[last] = job
  BY <1>3
<1>4. ~IsLine(last)'
  BY <1>21 DEF IsLine
<1>5. \A i \in DOMAIN chain' : IsLine(i)' => i \in DOMAIN chain /\ IsLine(i)
  BY <1>3, <1>4
<1>6. Readable(file)' = Readable(file) /\ Readable(Now)' = Readable(Now)
  BY <1>0, <1>3 DEF HeadOK, IsRewrite, Readable, Now
<1>23. Readable(Now) \subseteq Readable(called) /\ Readable(file) \subseteq Readable(called) /\ written \subseteq Readable(called)
  BY <1>0, NowIs DEF TranscriptInv, AllCalled, IsRewrite
<1>7. LinesOK'
  BY <1>3, <1>5 DEF TranscriptInv, LinesOK, Item
<1>8. HeadOK'
  BY <1>0, <1>3 DEF HeadOK, IsLine, IsRewrite
<1>25. CalledOnce'
  BY DEF TranscriptInv, CalledOnce
<1>9. AllCalled'
  <2>1. \A i \in DOMAIN chain' : Readable(chain[i].rows)' \cup chain'[i].drops \subseteq Readable(called)'
    BY <1>1, <1>3, <1>23 DEF TranscriptInv, AllCalled, Readable
  <2>2. QED BY <1>1, <1>6, <2>1 DEF TranscriptInv, AllCalled
<1>10. OrderOK'
  <2>1. InOrder(file)'
    BY <1>1 DEF TranscriptInv, OrderOK, InOrder
  <2>2. ASSUME NEW i \in DOMAIN chain' PROVE InOrder(chain[i].rows)'
    BY <1>1, <1>3, <2>2 DEF TranscriptInv, OrderOK, InOrder
  <2>3. ASSUME NEW j \in DOMAIN chain', IsLine(j)', NEW x \in Readable(file)' PROVE Before(x, Item(j))'
    BY <1>1, <1>3, <1>5, <1>6, <2>3 DEF TranscriptInv, OrderOK
  <2>4. ASSUME NEW i \in DOMAIN chain', NEW j \in DOMAIN chain', i < j, IsLine(j)', NEW x \in Readable(chain[i].rows)'
        PROVE  Before(x, Item(j))'
    <3>1. i \in DOMAIN chain /\ j \in DOMAIN chain /\ IsLine(j)
      BY <1>3, <1>5, <1>20, <2>4
    <3>2. x \in Readable(chain[i].rows)
      BY <1>3, <3>1 DEF Readable
    <3>3. QED BY <1>1, <1>3, <2>4, <3>1, <3>2 DEF TranscriptInv, OrderOK
  <2>5. QED BY <2>1, <2>2, <2>3, <2>4 DEF OrderOK
<1>11. DropsOK'
  <2>1. (step = "truncated" => chain[1].drops \subseteq dropped)'
    BY <1>0, <1>3 DEF HeadOK, IsRewrite, TranscriptInv, DropsOK
  <2>2. \A i \in DOMAIN chain' : chain'[i].drops \cap Readable(chain[i].rows)' = {}
    BY <1>3 DEF TranscriptInv, DropsOK, Readable
  <2>3. \A j \in DOMAIN chain' : IsLine(j)' => Item(j)' \notin dropped'
    BY <1>3, <1>5 DEF TranscriptInv, DropsOK, AllCalled
  <2>4. ASSUME NEW i \in DOMAIN chain', NEW j \in DOMAIN chain', i < j, IsLine(j)'
        PROVE  Item(j)' \notin chain'[i].drops
    <3>1. i \in DOMAIN chain /\ j \in DOMAIN chain /\ IsLine(j)
      BY <1>3, <1>5, <1>20, <2>4
    <3>2. QED BY <1>3, <2>4, <3>1 DEF TranscriptInv, DropsOK
  <2>5. QED BY <1>6, <2>1, <2>2, <2>3, <2>4 DEF TranscriptInv, DropsOK
<1>12. CoverOK'
  <2> SUFFICES ASSUME NEW j \in DOMAIN chain', IsRewrite(j)'
               PROVE  /\ Covers(j, written)' /\ Covers(j, Readable(Now))'
                      /\ \A i \in DOMAIN chain' : i < j => Covers(j, Readable(chain[i].rows))'
    BY DEF CoverOK
  <2>1. CASE j \in DOMAIN chain
    <3>1. IsRewrite(j) /\ chain'[j] = chain[j]
      BY <1>3, <2>1
    <3>2. Covers(j, written) /\ Covers(j, Readable(Now))
      BY <2>1, <3>1 DEF TranscriptInv, CoverOK
    <3>3. Readable(chain[j].rows)' = Readable(chain[j].rows)
      BY <3>1 DEF Readable
    <3>4. Covers(j, written)' /\ Covers(j, Readable(Now))'
      BY <1>6, <3>1, <3>2, <3>3 DEF Covers
    <3>5. ASSUME NEW i \in DOMAIN chain', i < j PROVE Covers(j, Readable(chain[i].rows))'
      <4>1. i \in DOMAIN chain /\ chain'[i] = chain[i]
        BY <1>3, <1>20, <2>1, <3>5
      <4>2. Covers(j, Readable(chain[i].rows))
        BY <2>1, <3>1, <3>5, <4>1 DEF TranscriptInv, CoverOK
      <4>3. QED BY <3>1, <3>3, <4>1, <4>2 DEF Covers, Readable
    <3>6. QED BY <3>4, <3>5
  <2>2. CASE j = last
    <3>1. Readable(chain[j].rows)' \cup chain'[j].drops = Readable(called) \cup Readable(job.rows)
      BY <1>21, <2>2 DEF Readable
    <3>2. Covers(j, written)' /\ Covers(j, Readable(Now))'
      BY <1>6, <1>23, <3>1 DEF Covers
    <3>3. ASSUME NEW i \in DOMAIN chain', i < j PROVE Covers(j, Readable(chain[i].rows))'
      <4>1. i \in DOMAIN chain /\ chain'[i] = chain[i]
        BY <1>3, <1>20, <2>2, <3>3
      <4>2. Readable(chain[i].rows)' \subseteq Readable(called)
        BY <4>1 DEF TranscriptInv, AllCalled, Readable
      <4>3. QED BY <3>1, <4>2 DEF Covers
    <3>4. QED BY <3>2, <3>3
  <2>3. QED BY <1>3, <2>1, <2>2
<1>13. KeepOK'
  <2>1. \A x : Pending(x) => Pending(x)'
    BY <1>3 DEF Pending
  <2>2. QED BY <1>1, <1>6, <2>1 DEF TranscriptInv, KeepOK
<1>14. ReadsOK'
  <2> SUFFICES ASSUME NEW r \in Readers PROVE ReadOK(r)'
    BY DEF ReadsOK
  <2>1. (reader[r].calling => reader[r].behind <= Len(chain))'
    <3>1. reader[r].calling => reader[r].behind <= Len(chain)
      BY DEF TranscriptInv, ReadsOK, ReadOK
    <3>2. Len(chain') = Len(chain) + 1 /\ Len(chain) \in Nat
      BY <1>0, Queued
    <3>3. reader[r].behind \in Nat
      BY <1>0 DEF TranscriptTypeOK
    <3>4. QED BY <1>22, <3>1, <3>2, <3>3
  <2>2. reader'[r].promised = {}
    BY <1>22
  <2>3. QED BY <2>1, <2>2 DEF ReadOK
<1>15. QED
  BY <1>2, <1>7, <1>8, <1>25, <1>9, <1>10, <1>11, <1>12, <1>13, <1>14 DEF TranscriptInv

-----------------------------------------------------------------------------
(* The head of the chain settles. *)

(* The item that the head writes, if it writes one. *)
HeadWrites == IF IsLine(1) THEN {Item(1)} ELSE {}

LEMMA Settling ==
  ASSUME TranscriptInv, chain # <<>>, Settled, TranscriptTypeOK', UNCHANGED <<called, dropped>>,
         Readable(file)' \subseteq Readable(Now) \cup HeadWrites,
         Readable(Now) \subseteq Readable(file)' \cup spoilt',
         HeadWrites \subseteq Readable(file)' \cup failed' \cup spoilt',
         written \subseteq written', written' \subseteq written \cup HeadWrites,
         written' \subseteq written \cup Readable(file)' \cup spoilt',
         HeadWrites \subseteq written' \cup failed',
         failed \subseteq failed', spoilt \subseteq spoilt', InOrder(file)'
  PROVE  TranscriptInv'
<1>0. /\ TranscriptTypeOK /\ HeadOK /\ chain \in Seq(Jobs) /\ chain' = Tail(chain) /\ step' = "ready"
      /\ chain' \in Seq(Jobs)
  BY HeadGone DEF TranscriptInv, TranscriptTypeOK, Jobs, Settled
<1>1. /\ \A x, y : Before(x, y) <=> Before(x, y)'
      /\ Readable(called)' = Readable(called)
  BY BeforeSame
<1>3. /\ \A i \in DOMAIN chain' :
           /\ i + 1 \in DOMAIN chain /\ chain'[i] = chain[i + 1]
           /\ IsLine(i)' <=> IsLine(i + 1)
           /\ IsRewrite(i)' <=> IsRewrite(i + 1)
           /\ Item(i)' = Item(i + 1)
           /\ 1 < i + 1 /\ i \in Nat
      /\ \A i \in DOMAIN chain : i = 1 \/ (i - 1 \in DOMAIN chain' /\ (i - 1) + 1 = i)
      /\ 1 \in DOMAIN chain /\ Len(chain') = Len(chain) - 1 /\ Len(chain) \in Nat
      /\ \A i \in DOMAIN chain : i \in Nat /\ i >= 1
  BY <1>0, ShiftedCalls
<1>4. \A i \in DOMAIN chain' : Readable(chain[i].rows)' = Readable(chain[i + 1].rows)
  BY <1>3 DEF Readable
<1>5. Readable(Now)' = Readable(file)'
  BY <1>0 DEF Now
<1>6. IsLine(1) => Readable(chain[1].rows) = {Item(1)}
  BY <1>0, <1>3, JobIs, ReadableOne DEF TranscriptInv, LinesOK, Item
<1>7. Readable(Now) = Readable(file) \/ (IsRewrite(1) /\ Readable(Now) = Readable(chain[1].rows))
  BY <1>0, NowIs
(* What is in the file now was in it, or comes from the head. *)
<1>8. Readable(file)' \subseteq Readable(file) \cup Readable(chain[1].rows)
  BY <1>6, <1>7 DEF HeadWrites
<1>9. LinesOK'
  BY <1>3 DEF TranscriptInv, LinesOK, Item
<1>10. HeadOK'
  BY <1>0 DEF HeadOK
<1>11. CalledOnce'
  BY DEF TranscriptInv, CalledOnce
<1>12. AllCalled'
  <2>1. Readable(file) \cup Readable(chain[1].rows) \cup written \cup dropped \subseteq Readable(called)
    BY <1>3 DEF TranscriptInv, AllCalled
  <2>2. HeadWrites \subseteq Readable(called)
    BY <1>6, <2>1 DEF HeadWrites
  <2>3. \A i \in DOMAIN chain' : Readable(chain[i].rows)' \cup chain'[i].drops \subseteq Readable(called)
    BY <1>3, <1>4 DEF TranscriptInv, AllCalled
  <2>4. QED BY <1>1, <1>8, <2>1, <2>2, <2>3 DEF AllCalled
<1>13. OrderOK'
  <2>1. ASSUME NEW i \in DOMAIN chain' PROVE InOrder(chain[i].rows)'
    BY <1>1, <1>3, <2>1 DEF TranscriptInv, OrderOK, InOrder
  <2>2. ASSUME NEW j \in DOMAIN chain', IsLine(j)', NEW x \in Readable(file)' PROVE Before(x, Item(j))'
    <3>1. j + 1 \in DOMAIN chain /\ IsLine(j + 1) /\ 1 < j + 1 /\ Item(j)' = Item(j + 1) /\ 1 \in DOMAIN chain
      BY <1>3, <2>2
    <3>2. x \in Readable(file) \/ x \in Readable(chain[1].rows)
      BY <1>8, <2>2
    <3>3. Before(x, Item(j + 1))
      BY <3>1, <3>2 DEF TranscriptInv, OrderOK
    <3>4. QED BY <1>1, <3>1, <3>3
  <2>3. ASSUME NEW i \in DOMAIN chain', NEW j \in DOMAIN chain', i < j, IsLine(j)', NEW x \in Readable(chain[i].rows)'
        PROVE  Before(x, Item(j))'
    <3>1. /\ i + 1 \in DOMAIN chain /\ j + 1 \in DOMAIN chain /\ IsLine(j + 1) /\ Item(j)' = Item(j + 1)
          /\ i + 1 < j + 1 /\ x \in Readable(chain[i + 1].rows)
      BY <1>3, <1>4, <2>3
    <3>2. Before(x, Item(j + 1))
      BY <3>1 DEF TranscriptInv, OrderOK
    <3>3. QED BY <1>1, <3>1, <3>2
  <2>4. QED BY <2>1, <2>2, <2>3 DEF OrderOK
<1>14. DropsOK'
  <2>1. dropped \cap Readable(Now) = {} /\ dropped \cap HeadWrites = {}
    BY <1>3 DEF TranscriptInv, DropsOK, HeadWrites
  <2>2. \A i \in DOMAIN chain' : chain'[i].drops \cap Readable(chain[i].rows)' = {}
    BY <1>3, <1>4 DEF TranscriptInv, DropsOK
  <2>3. \A j \in DOMAIN chain' : IsLine(j)' => Item(j)' \notin dropped'
    BY <1>3 DEF TranscriptInv, DropsOK
  <2>4. ASSUME NEW i \in DOMAIN chain', NEW j \in DOMAIN chain', i < j, IsLine(j)'
        PROVE  Item(j)' \notin chain'[i].drops
    <3>1. /\ i + 1 \in DOMAIN chain /\ j + 1 \in DOMAIN chain /\ IsLine(j + 1) /\ Item(j)' = Item(j + 1)
          /\ i + 1 < j + 1 /\ chain'[i] = chain[i + 1]
      BY <1>3, <2>4
    <3>2. Item(j + 1) \notin chain[i + 1].drops
      BY <3>1 DEF TranscriptInv, DropsOK
    <3>3. QED BY <3>1, <3>2
  <2>5. (dropped \cap Readable(Now) = {})'
    BY <1>5, <2>1
  <2>6. QED BY <1>0, <2>2, <2>3, <2>4, <2>5 DEF DropsOK
<1>15. CoverOK'
  <2> SUFFICES ASSUME NEW j \in DOMAIN chain', IsRewrite(j)'
               PROVE  /\ Covers(j, written)' /\ Covers(j, Readable(Now))'
                      /\ \A i \in DOMAIN chain' : i < j => Covers(j, Readable(chain[i].rows))'
    BY DEF CoverOK
  <2>1. /\ j + 1 \in DOMAIN chain /\ IsRewrite(j + 1) /\ 1 < j + 1 /\ chain'[j] = chain[j + 1]
        /\ 1 \in DOMAIN chain
    BY <1>3
  <2>2. /\ Covers(j + 1, written) /\ Covers(j + 1, Readable(Now)) /\ Covers(j + 1, Readable(chain[1].rows))
        /\ \A i \in DOMAIN chain : i < j + 1 => Covers(j + 1, Readable(chain[i].rows))
    BY <2>1 DEF TranscriptInv, CoverOK
  <2>3. Readable(chain[j].rows)' \cup chain'[j].drops = Readable(chain[j + 1].rows) \cup chain[j + 1].drops
    BY <1>4, <2>1
  <2>4. Covers(j + 1, HeadWrites)
    BY <1>6, <2>2 DEF HeadWrites, Covers
  <2>5. Covers(j, written)' /\ Covers(j, Readable(Now))'
    BY <1>5, <2>2, <2>3, <2>4 DEF Covers
  <2>6. ASSUME NEW i \in DOMAIN chain', i < j PROVE Covers(j, Readable(chain[i].rows))'
    <3>1. i + 1 \in DOMAIN chain /\ i + 1 < j + 1
      BY <1>3, <2>6
    <3>2. Covers(j + 1, Readable(chain[i + 1].rows))
      BY <2>2, <3>1
    <3>3. QED BY <1>4, <2>3, <3>2 DEF Covers
  <2>7. QED BY <2>5, <2>6
<1>16. KeepOK'
  <2>1. (written \ (dropped \cup spoilt) \subseteq Readable(Now))'
    BY <1>5 DEF TranscriptInv, KeepOK
  <2>2. ASSUME NEW x \in Readable(called), x \notin written', x \notin failed' PROVE Pending(x)'
    <3>1. Pending(x)
      BY <2>2 DEF TranscriptInv, KeepOK
    <3>2. PICK i \in DOMAIN chain : IsLine(i) /\ Item(i) = x
      BY <3>1 DEF Pending
    <3>3. i # 1
      BY <2>2, <3>2 DEF HeadWrites
    <3>4. PICK k \in DOMAIN chain' : k + 1 = i
      BY <1>3, <3>3
    <3>5. IsLine(k)' /\ Item(k)' = x
      BY <1>3, <3>2, <3>4
    <3>6. QED BY <3>5 DEF Pending
  <2>3. QED BY <1>1, <2>1, <2>2 DEF KeepOK
<1>17. ReadsOK'
  <2> SUFFICES ASSUME NEW r \in Readers PROVE ReadOK(r)'
    BY DEF ReadsOK
  <2>0. ReadOK(r)
    BY DEF TranscriptInv, ReadsOK
  <2>22. /\ reader'[r].calling = reader[r].calling /\ reader'[r].got = reader[r].got
         /\ reader'[r].promised = reader[r].promised \ (failed' \cup spoilt')
         /\ reader'[r].behind = IF reader[r].behind = 0 THEN 0 ELSE reader[r].behind - 1
         /\ reader[r].behind \in Nat
    BY <1>0, SettledReaders DEF TranscriptTypeOK
  <2>1. CASE reader[r].calling
    <3>1. /\ reader[r].behind <= Len(chain)
          /\ \A x \in reader[r].promised : Comes(r, x)
          /\ \A i \in DOMAIN chain : reader[r].promised \cap chain[i].drops = {}
          /\ \A i \in DOMAIN chain : IsRewrite(i) /\ i > reader[r].behind => reader[r].promised = {}
      BY <2>0, <2>1 DEF ReadOK
    <3>2. ASSUME NEW x \in reader'[r].promised PROVE Comes(r, x)'
      <4>1. x \in reader[r].promised /\ x \notin failed' /\ x \notin spoilt'
        BY <2>22, <3>2
      <4>2. CASE x \in Readable(Now)
        BY <1>5, <4>1, <4>2 DEF Comes
      <4>3. CASE x \notin Readable(Now)
        <5>1. PICK i \in DOMAIN chain : i <= reader[r].behind /\ IsLine(i) /\ Item(i) = x
          BY <3>1, <4>1, <4>3 DEF Comes
        <5>2. CASE i = 1
          BY <1>5, <4>1, <5>1, <5>2 DEF HeadWrites, Comes
        <5>3. CASE i # 1
          <6>1. PICK k \in DOMAIN chain' : k + 1 = i
            BY <1>3, <5>3
          <6>2. IsLine(k)' /\ Item(k)' = x
            BY <1>3, <5>1, <6>1
          <6>3. k <= reader'[r].behind
            BY <1>3, <2>22, <5>1, <6>1
          <6>4. QED BY <6>2, <6>3 DEF Comes
        <5>4. QED BY <5>2, <5>3
      <4>4. QED BY <4>2, <4>3
    <3>3. (reader[r].behind <= Len(chain))'
      BY <1>3, <2>22, <3>1
    <3>4. \A i \in DOMAIN chain' : reader'[r].promised \cap chain'[i].drops = {}
      BY <1>3, <2>22, <3>1
    <3>5. ASSUME NEW i \in DOMAIN chain', IsRewrite(i)', i > reader'[r].behind
          PROVE  reader'[r].promised = {}
      <4>1. i + 1 \in DOMAIN chain /\ IsRewrite(i + 1)
        BY <1>3, <3>5
      <4>2. i + 1 > reader[r].behind
        BY <1>3, <2>22, <3>5
      <4>3. QED BY <2>22, <3>1, <4>1, <4>2
    <3>6. QED BY <2>1, <2>22, <3>2, <3>3, <3>4, <3>5 DEF ReadOK
  <2>2. CASE ~reader[r].calling
    BY <2>0, <2>2, <2>22 DEF ReadOK
  <2>3. QED BY <2>1, <2>2
<1>18. QED
  BY <1>9, <1>10, <1>11, <1>12, <1>13, <1>14, <1>15, <1>16, <1>17 DEF TranscriptInv
(* A torn write changes no row that can be read. *)
LEMMA CutShortReadable ==
  ASSUME TranscriptTypeOK, CutShort, UNCHANGED called, InOrder(file)
  PROVE  Readable(file)' = Readable(file) /\ InOrder(file)'
<1>1. \A x, y : Before(x, y) <=> Before(x, y)'
  BY BeforeSame
<1>2. CASE file' = file
  BY <1>1, <1>2 DEF Readable, InOrder
<1>3. CASE file' = Append(file, Garbled)
  <2>0. Garbled \in Rows /\ Garbled \notin Items
    BY TranscriptAssumption DEF Rows
  <2>1. file \in Seq(Rows) /\ Garbled \in Rows /\ Garbled \notin Items
    BY <2>0 DEF TranscriptTypeOK
  <2>2. Readable(Append(file, Garbled)) = Readable(file)
    <3>1. Readable(Append(file, Garbled)) = Readable(file) \cup ({Garbled} \cap Items)
      BY <2>1, ReadableAppend
    <3>2. {Garbled} \cap Items = {}
      BY <2>0
    <3>3. QED BY <3>1, <3>2
  <2>3. /\ DOMAIN file' = 1 .. Len(file) + 1 /\ DOMAIN file = 1 .. Len(file) /\ Len(file) \in Nat
        /\ file'[Len(file) + 1] = Garbled /\ \A i \in 1 .. Len(file) : file'[i] = file[i]
    <3>1. /\ Append(file, Garbled) \in Seq(Rows) /\ Len(Append(file, Garbled)) = Len(file) + 1
          /\ Append(file, Garbled)[Len(file) + 1] = Garbled
          /\ \A i \in 1 .. Len(file) : Append(file, Garbled)[i] = file[i]
      BY <2>1, AppendProperties
    <3>2. DOMAIN Append(file, Garbled) = 1 .. Len(Append(file, Garbled))
      BY <3>1, LenProperties
    <3>3. DOMAIN file = 1 .. Len(file) /\ Len(file) \in Nat
      BY <2>1, LenProperties
    <3>4. QED BY <1>3, <3>1, <3>2, <3>3
  <2>4. \A i \in DOMAIN file' : file'[i] \in Items => i \in DOMAIN file /\ file'[i] = file[i]
    BY <2>1, <2>3
  <2>5. InOrder(file)'
    BY <1>1, <2>4 DEF InOrder
  <2>6. QED BY <1>3, <2>2, <2>5 DEF Readable
<1>4. QED BY <1>2, <1>3, CutShortIs

LEMMA HeadLine ==
  ASSUME TranscriptInv, chain # <<>>
  PROVE  /\ Head(chain) = chain[1] /\ chain[1] \in Jobs
         /\ chain[1].kind # "rewrite" =>
              /\ IsLine(1) /\ HeadWrites = {Item(1)} /\ Item(1) \in Items /\ step # "truncated" /\ Now = file
              /\ Readable(chain[1].rows) = {Item(1)} /\ chain[1].rows = <<Item(1)>>
         /\ chain[1].kind = "rewrite" => IsRewrite(1) /\ HeadWrites = {}
<1>1. chain \in Seq(Jobs) /\ TranscriptTypeOK /\ HeadOK /\ LinesOK
  BY DEF TranscriptInv, TranscriptTypeOK, Jobs
<1>2. Head(chain) = chain[1] /\ 1 \in DOMAIN chain /\ chain[1] \in Jobs
  BY <1>1, HeadIs
<1>3. ASSUME chain[1].kind # "rewrite"
      PROVE  /\ IsLine(1) /\ HeadWrites = {Item(1)} /\ Item(1) \in Items /\ step # "truncated" /\ Now = file
             /\ Readable(chain[1].rows) = {Item(1)} /\ chain[1].rows = <<Item(1)>>
  <2>1. IsLine(1) /\ ~IsRewrite(1)
    BY <1>2, <1>3 DEF IsLine, IsRewrite
  <2>2. step # "truncated" /\ Now = file
    BY <1>1, <2>1 DEF HeadOK, Now
  <2>3. Len(chain[1].rows) = 1 /\ chain[1].rows \in Seq(Items)
    BY <1>1, <1>2, <2>1, JobIs DEF LinesOK
  <2>4. Item(1) \in Items /\ Readable(chain[1].rows) = {Item(1)} /\ chain[1].rows = <<Item(1)>>
    BY <2>3, ReadableOne DEF Item
  <2>5. QED BY <2>1, <2>2, <2>4 DEF HeadWrites
<1>4. chain[1].kind = "rewrite" => IsRewrite(1) /\ HeadWrites = {}
  BY <1>2 DEF IsRewrite, IsLine, HeadWrites
<1>5. QED BY <1>2, <1>3, <1>4

LEMMA InvAppendTranscript ==
  ASSUME TranscriptInv, NEW item \in Items, AppendTranscript(item)
  PROVE  TranscriptInv'
<1> DEFINE job == [kind |-> "append", rows |-> <<item>>, drops |-> {}]
<1>1. job \in Jobs /\ job.kind # "rewrite" /\ job.rows = <<item>> /\ job.drops = {}
  BY DEF Jobs
<1>2. /\ item \notin Readable(called) /\ called' = Append(called, item) /\ chain' = Append(chain, job)
      /\ UNCHANGED <<file, torn, step, previous, reader, written, dropped, failed, spoilt>>
  BY DEF AppendTranscript, QueueWrite
<1> HIDE DEF job
<1>3. QED BY <1>1, <1>2, QueueLine

LEMMA InvCommitTranscript ==
  ASSUME TranscriptInv, NEW item \in Items, CommitTranscript(item)
  PROVE  TranscriptInv'
<1> DEFINE job == [kind |-> "commit", rows |-> <<item>>, drops |-> {}]
<1>1. job \in Jobs /\ job.kind # "rewrite" /\ job.rows = <<item>> /\ job.drops = {}
  BY DEF Jobs
<1>2. /\ item \notin Readable(called) /\ called' = Append(called, item) /\ chain' = Append(chain, job)
      /\ UNCHANGED <<file, torn, step, previous, reader, written, dropped, failed, spoilt>>
  BY DEF CommitTranscript, QueueWrite
<1> HIDE DEF job
<1>3. QED BY <1>1, <1>2, QueueLine

LEMMA InvRewriteTranscript ==
  ASSUME TranscriptInv, NEW n \in 0 .. Len(file), NEW keep \in Kept(n), RewriteTranscript(keep)
  PROVE  TranscriptInv'
<1>1. keep \in Seq(Items) /\ Readable(keep) \subseteq Readable(file) /\ InOrder(keep)
  BY KeptIs DEF TranscriptInv, OrderOK
<1>2. PICK job : job = [kind |-> "rewrite", rows |-> keep, drops |-> Readable(called) \ Readable(keep)]
  OBVIOUS
<1>3. /\ job.kind = "rewrite" /\ job.rows = keep /\ job.drops = Readable(called) \ Readable(job.rows)
  BY <1>2
<1>4. job \in Jobs
  <2>1. Readable(called) \ Readable(keep) \subseteq Items
    BY DEF Readable
  <2>2. QED BY <1>1, <1>2, <2>1 DEF Jobs
<1>5. /\ chain' = Append(chain, job) /\ reader' = [r \in Readers |-> [reader[r] EXCEPT !.promised = {}]]
      /\ UNCHANGED <<file, torn, step, previous, called, written, dropped, failed, spoilt>>
  BY <1>2 DEF RewriteTranscript, QueueWrite
<1>6. QED BY <1>1, <1>3, <1>4, <1>5, QueueRewrite

LEMMA InvWriteLine ==
  ASSUME TranscriptInv, WriteLine
  PROVE  TranscriptInv'
<1>0. TranscriptTypeOK /\ chain # <<>> /\ Settled /\ UNCHANGED <<called, dropped, failed>> /\ torn' = FALSE
  BY DEF TranscriptInv, WriteLine
<1>1. /\ chain[1].kind # "rewrite" /\ Head(chain) = chain[1]
      /\ IsLine(1) /\ HeadWrites = {Item(1)} /\ Item(1) \in Items /\ Now = file
  BY <1>0, HeadLine DEF WriteLine
<1>2. /\ file' = Appended(Item(1)) /\ written' = written \cup {Item(1)}
      /\ spoilt' = IF torn THEN spoilt \cup {Item(1)} ELSE spoilt
  BY <1>1 DEF WriteLine, Item
<1>3. file' \in Seq(Rows) /\ (torn => file' = file) /\ (~torn => file' = Append(file, Item(1)))
  BY <1>0, <1>1, <1>2, AppendedIs
<1>4. TranscriptTypeOK'
  <2>1. written' \subseteq Items /\ spoilt' \subseteq Items /\ dropped' \subseteq Items /\ failed' \subseteq Items
    BY <1>0, <1>1, <1>2 DEF TranscriptTypeOK
  <2>2. torn' \in BOOLEAN /\ (torn' => file' # <<>> /\ file'[Len(file')] = Garbled)
    BY <1>0
  <2>3. QED BY <1>0, <1>3, <2>1, <2>2, SettledType
<1>5. /\ Readable(file)' = IF torn THEN Readable(file) ELSE Readable(file) \cup {Item(1)}
      /\ InOrder(file)'
  <2>1. /\ \A x, y : Before(x, y) <=> Before(x, y)'
    BY <1>0, BeforeSame
  <2>2. InOrder(file)
    BY DEF TranscriptInv, OrderOK
  <2>3. CASE torn
    BY <1>3, <2>1, <2>2, <2>3 DEF Readable, InOrder
  <2>4. CASE ~torn
    <3>1. file \in Seq(Rows) /\ Item(1) \in Rows
      BY <1>0, <1>1 DEF TranscriptTypeOK, Rows
    <3>2. Readable(Append(file, Item(1))) = Readable(file) \cup {Item(1)}
      BY <1>1, <3>1, ReadableAppend
    <3>3. \A x \in Readable(file) : Before(x, Item(1))
      BY <1>1 DEF TranscriptInv, OrderOK, IsLine
    <3>4. InOrder(Append(file, Item(1)))
      BY <1>1, <2>2, <3>1, <3>3, OrderOfConcat
    <3>5. file' = Append(file, Item(1))
      BY <1>3, <2>4
    <3>6. Readable(file)' = Readable(file) \cup {Item(1)}
      BY <3>2, <3>5 DEF Readable
    <3>7. InOrder(file)'
      BY <2>1, <3>4, <3>5 DEF InOrder
    <3>8. QED BY <2>4, <3>6, <3>7
  <2>5. QED BY <2>3, <2>4
<1>6. QED BY <1>0, <1>1, <1>2, <1>4, <1>5, Settling

LEMMA InvReplaceFile ==
  ASSUME TranscriptInv, ReplaceFile
  PROVE  TranscriptInv'
<1>0. /\ TranscriptTypeOK /\ chain # <<>> /\ Settled /\ UNCHANGED <<called, dropped, failed, spoilt>> /\ torn' = FALSE
      /\ previous = file
  BY DEF TranscriptInv, ReplaceFile, HeadOK
<1>1. /\ chain[1].kind # "rewrite" /\ Head(chain) = chain[1]
      /\ IsLine(1) /\ HeadWrites = {Item(1)} /\ Item(1) \in Items /\ Now = file
      /\ Readable(chain[1].rows) = {Item(1)} /\ chain[1].rows = <<Item(1)>>
  BY <1>0, HeadLine DEF ReplaceFile
<1>2. file \in Seq(Rows) /\ Item(1) \in Rows
  BY <1>0, <1>1 DEF TranscriptTypeOK, Rows
<1>3. file' = Append(file, Item(1)) /\ written' = written \cup {Item(1)}
  <2>1. file' = file \o <<Item(1)>>
    BY <1>0, <1>1 DEF ReplaceFile
  <2>2. Append(file, Item(1)) = file \o <<Item(1)>>
    BY <1>2, AppendIsConcat
  <2>3. QED BY <1>1, <2>1, <2>2 DEF ReplaceFile
<1>4. TranscriptTypeOK'
  <2>1. written' \subseteq Items /\ spoilt' \subseteq Items /\ dropped' \subseteq Items /\ failed' \subseteq Items
    BY <1>0, <1>1, <1>3 DEF TranscriptTypeOK
  <2>2. torn' \in BOOLEAN /\ (torn' => file' # <<>> /\ file'[Len(file')] = Garbled)
    BY <1>0
  <2>3. file' \in Seq(Rows)
    BY <1>2, <1>3, AppendProperties
  <2>4. QED BY <1>0, <2>1, <2>2, <2>3, SettledType
<1>5. Readable(file)' = Readable(file) \cup {Item(1)} /\ InOrder(file)'
  <2>1. /\ \A x, y : Before(x, y) <=> Before(x, y)'
    BY <1>0, BeforeSame
  <2>2. Readable(Append(file, Item(1))) = Readable(file) \cup {Item(1)}
    BY <1>1, <1>2, ReadableAppend
  <2>3. InOrder(file) /\ \A x \in Readable(file) : Before(x, Item(1))
    BY <1>1 DEF TranscriptInv, OrderOK, IsLine
  <2>4. InOrder(Append(file, Item(1)))
    BY <1>1, <1>2, <2>3, OrderOfConcat
  <2>5. Readable(file)' = Readable(file) \cup {Item(1)}
    BY <1>3, <2>2 DEF Readable
  <2>6. InOrder(file)'
    BY <1>3, <2>1, <2>4 DEF InOrder
  <2>7. QED BY <2>5, <2>6
<1>6. QED BY <1>0, <1>1, <1>3, <1>4, <1>5, Settling

LEMMA InvWriteKept ==
  ASSUME TranscriptInv, WriteKept
  PROVE  TranscriptInv'
<1>0. /\ TranscriptTypeOK /\ HeadOK /\ chain # <<>> /\ Settled
      /\ UNCHANGED <<torn, called, written, dropped, failed, spoilt>> /\ step = "truncated"
  BY DEF TranscriptInv, WriteKept
<1>1. Head(chain) = chain[1] /\ IsRewrite(1) /\ HeadWrites = {} /\ Now = chain[1].rows
  BY <1>0, HeadLine, NowIs DEF WriteKept
<1>2. file' = Now /\ Now \in Seq(Rows)
  BY <1>0, <1>1, NowIs DEF WriteKept
<1>3. torn = FALSE
  BY <1>0 DEF TranscriptTypeOK, HeadOK
<1>4. TranscriptTypeOK'
  <2>1. written' \subseteq Items /\ spoilt' \subseteq Items /\ dropped' \subseteq Items /\ failed' \subseteq Items
    BY <1>0 DEF TranscriptTypeOK
  <2>2. torn' \in BOOLEAN /\ (torn' => file' # <<>> /\ file'[Len(file')] = Garbled)
    BY <1>0, <1>3
  <2>3. QED BY <1>0, <1>2, <2>1, <2>2, SettledType
<1>5. Readable(file)' = Readable(Now)
  BY <1>2 DEF Readable
<1>6. InOrder(file)'
  <2>1. \A x, y : Before(x, y) <=> Before(x, y)'
    BY <1>0, BeforeSame
  <2>2. InOrder(chain[1].rows)
    BY <1>1 DEF TranscriptInv, OrderOK, IsRewrite
  <2>3. QED BY <1>1, <1>2, <2>1, <2>2 DEF InOrder
<1>7. QED BY <1>0, <1>1, <1>4, <1>5, <1>6, Settling

LEMMA InvWriteFails ==
  ASSUME TranscriptInv, WriteFails
  PROVE  TranscriptInv'
<1>0. /\ TranscriptTypeOK /\ HeadOK /\ chain # <<>> /\ Settled /\ CutShort /\ UNCHANGED <<called, written, dropped>>
      /\ spoilt' = spoilt \cup LostRows
      /\ failed' = IF Head(chain).kind = "rewrite" THEN failed ELSE failed \cup Readable(Head(chain).rows)
  BY DEF TranscriptInv, WriteFails
<1>1. /\ Head(chain) = chain[1]
      /\ chain[1].kind # "rewrite" => HeadWrites = {Item(1)} /\ Readable(chain[1].rows) = {Item(1)} /\ Item(1) \in Items
      /\ chain[1].kind = "rewrite" => HeadWrites = {}
  BY <1>0, HeadLine
<1>2. failed' = failed \cup HeadWrites /\ HeadWrites \subseteq Items
  BY <1>0, <1>1
<1>3. Readable(file)' = Readable(file) /\ InOrder(file)'
  BY <1>0, CutShortReadable DEF TranscriptInv, OrderOK
<1>4. /\ step = "truncated" => Readable(file) = {} /\ LostRows = Readable(Now)
      /\ step # "truncated" => Readable(file) = Readable(Now) /\ LostRows = {}
  BY <1>0, <1>1, ReadableNone DEF HeadOK, LostRows, Now
<1>5. TranscriptTypeOK'
  <2>1. LostRows \subseteq Items
    BY DEF LostRows, Readable
  <2>2. written' \subseteq Items /\ spoilt' \subseteq Items /\ dropped' \subseteq Items /\ failed' \subseteq Items
    BY <1>0, <1>2, <2>1 DEF TranscriptTypeOK
  <2>3. file' \in Seq(Rows) /\ torn' \in BOOLEAN /\ (torn' => file' # <<>> /\ file'[Len(file')] = Garbled)
    BY <1>0, CutShortIs
  <2>4. QED BY <1>0, <2>2, <2>3, SettledType
<1>6. Readable(file)' \subseteq Readable(Now) /\ Readable(Now) \subseteq Readable(file)' \cup spoilt'
  BY <1>0, <1>3, <1>4
<1>7. QED BY <1>0, <1>2, <1>3, <1>5, <1>6, Settling
-----------------------------------------------------------------------------
(* The other steps. *)

(* A step that leaves the chain and the calls alone. *)
LEMMA SameChain ==
  ASSUME UNCHANGED <<chain, called>>
  PROVE  /\ \A i : (IsLine(i)' <=> IsLine(i)) /\ (IsRewrite(i)' <=> IsRewrite(i)) /\ Item(i)' = Item(i)
         /\ \A i : Readable(chain[i].rows)' = Readable(chain[i].rows) /\ chain'[i] = chain[i]
         /\ \A x : Pending(x)' <=> Pending(x)
         /\ \A j, rows : Covers(j, rows) <=> rows \subseteq Readable(chain[j].rows) \cup chain[j].drops
BY DEF IsLine, IsRewrite, Item, Readable, Pending, Covers

LEMMA InvTruncate ==
  ASSUME TranscriptInv, Truncate
  PROVE  TranscriptInv'
<1>0. /\ TranscriptTypeOK /\ HeadOK /\ chain # <<>> /\ UNCHANGED <<chain, previous, reader, called, written, failed, spoilt>>
      /\ step = "ready" /\ step' = "truncated" /\ file' = <<>> /\ torn' = FALSE
      /\ dropped' = (dropped \cup Head(chain).drops) \ Readable(Head(chain).rows)
  BY DEF TranscriptInv, Truncate
<1>1. /\ Head(chain) = chain[1] /\ IsRewrite(1) /\ 1 \in DOMAIN chain /\ Now = file /\ ~IsLine(1)
      /\ chain[1] \in Jobs /\ chain[1].drops \subseteq Items
  BY <1>0, HeadLine, NowIs DEF Truncate, IsRewrite, IsLine, Jobs
<1>2. /\ \A x, y : Before(x, y) <=> Before(x, y)'
      /\ Readable(called)' = Readable(called)
  BY <1>0, BeforeSame
<1>3. /\ \A i : (IsLine(i)' <=> IsLine(i)) /\ (IsRewrite(i)' <=> IsRewrite(i)) /\ Item(i)' = Item(i)
      /\ \A i : Readable(chain[i].rows)' = Readable(chain[i].rows) /\ chain'[i] = chain[i]
      /\ \A x : Pending(x)' <=> Pending(x)
  BY <1>0, SameChain
<1>4. Readable(file)' = {} /\ Readable(Now)' = Readable(chain[1].rows)
  BY <1>0 DEF Readable, Now
<1>5. /\ dropped' = (dropped \cup chain[1].drops) \ Readable(chain[1].rows)
      /\ chain[1].drops \cap Readable(chain[1].rows) = {}
  BY <1>0, <1>1 DEF TranscriptInv, DropsOK
<1>24. \A i \in DOMAIN chain : i \in Nat /\ i >= 1
  BY <1>0, LenProperties DEF TranscriptTypeOK
<1>6. TranscriptTypeOK'
  <2>1. <<>> \in Seq(Rows) /\ dropped' \subseteq Items
    BY <1>0, <1>1, <1>5, EmptySeq DEF TranscriptTypeOK
  <2>2. (torn => file # <<>> /\ file[Len(file)] = Garbled)'
    BY <1>0
  <2>3. QED BY <1>0, <2>1, <2>2 DEF TranscriptTypeOK
<1>7. LinesOK'
  BY <1>0, <1>3 DEF TranscriptInv, LinesOK
<1>8. HeadOK'
  BY <1>0, <1>1, <1>3 DEF HeadOK
<1>9. CalledOnce'
  BY <1>0 DEF TranscriptInv, CalledOnce
<1>10. AllCalled'
  <2>1. written' \cup dropped' \subseteq Readable(called)
    BY <1>0, <1>1, <1>5 DEF TranscriptInv, AllCalled
  <2>2. \A i \in DOMAIN chain' : Readable(chain[i].rows)' \cup chain'[i].drops \subseteq Readable(called)
    BY <1>0, <1>3 DEF TranscriptInv, AllCalled
  <2>3. QED BY <1>2, <1>4, <2>1, <2>2 DEF AllCalled
<1>11. OrderOK'
  <2>1. InOrder(file)'
    BY <1>0 DEF InOrder
  <2>2. ASSUME NEW i \in DOMAIN chain' PROVE InOrder(chain[i].rows)'
    BY <1>0, <1>2, <2>2 DEF TranscriptInv, OrderOK, InOrder
  <2>3. \A j \in DOMAIN chain' : IsLine(j)' => \A x \in Readable(file)' : Before(x, Item(j))'
    BY <1>4
  <2>4. ASSUME NEW i \in DOMAIN chain', NEW j \in DOMAIN chain', i < j, IsLine(j)', NEW x \in Readable(chain[i].rows)'
        PROVE  Before(x, Item(j))'
    BY <1>0, <1>2, <1>3, <2>4 DEF TranscriptInv, OrderOK
  <2>5. QED BY <2>1, <2>2, <2>3, <2>4 DEF OrderOK
<1>12. DropsOK'
  <2>1. (dropped \cap Readable(Now) = {})' /\ chain'[1].drops \subseteq dropped'
    BY <1>0, <1>4, <1>5
  <2>2. \A i \in DOMAIN chain' : chain'[i].drops \cap Readable(chain[i].rows)' = {}
    BY <1>0, <1>3 DEF TranscriptInv, DropsOK
  <2>3. ASSUME NEW j \in DOMAIN chain', IsLine(j)' PROVE Item(j)' \notin dropped'
    <3>1. j \in DOMAIN chain /\ IsLine(j) /\ Item(j)' = Item(j)
      BY <1>0, <1>3, <2>3
    <3>2. 1 < j
      BY <1>1, <1>24, <3>1
    <3>3. Item(j) \notin dropped /\ Item(j) \notin chain[1].drops
      BY <1>1, <3>1, <3>2 DEF TranscriptInv, DropsOK
    <3>4. QED BY <1>5, <3>1, <3>3
  <2>4. \A i, j \in DOMAIN chain' : i < j /\ IsLine(j)' => Item(j)' \notin chain'[i].drops
    BY <1>0, <1>3 DEF TranscriptInv, DropsOK
  <2>5. QED BY <2>1, <2>2, <2>3, <2>4 DEF DropsOK
<1>13. CoverOK'
  <2> SUFFICES ASSUME NEW j \in DOMAIN chain', IsRewrite(j)'
               PROVE  /\ Covers(j, written)' /\ Covers(j, Readable(Now))'
                      /\ \A i \in DOMAIN chain' : i < j => Covers(j, Readable(chain[i].rows))'
    BY DEF CoverOK
  <2>1. /\ j \in DOMAIN chain /\ IsRewrite(j) /\ Covers(j, written)
        /\ \A i \in DOMAIN chain : i < j => Covers(j, Readable(chain[i].rows))
    BY <1>0, <1>3 DEF TranscriptInv, CoverOK
  <2>2. Covers(j, Readable(chain[1].rows))
    <3>1. CASE j = 1
      BY <3>1 DEF Covers
    <3>2. CASE 1 < j
      BY <1>1, <2>1, <3>2
    <3>3. QED BY <1>24, <2>1, <3>1, <3>2
  <2>3. Readable(chain[j].rows)' \cup chain'[j].drops = Readable(chain[j].rows) \cup chain[j].drops
    BY <1>3
  <2>4. Covers(j, written)' /\ Covers(j, Readable(Now))'
    BY <1>0, <1>4, <2>1, <2>2, <2>3 DEF Covers
  <2>5. ASSUME NEW i \in DOMAIN chain', i < j PROVE Covers(j, Readable(chain[i].rows))'
    BY <1>0, <1>3, <2>1, <2>3, <2>5 DEF Covers
  <2>6. QED BY <2>4, <2>5
<1>26. Covers(1, written) /\ Covers(1, Readable(file))
  BY <1>1 DEF TranscriptInv, CoverOK
<1>14. KeepOK'
  <2>1. (written \ (dropped \cup spoilt) \subseteq Readable(Now))'
    BY <1>0, <1>4, <1>5, <1>26 DEF Covers
  <2>2. QED BY <1>0, <1>2, <1>3, <2>1 DEF TranscriptInv, KeepOK
<1>15. ReadsOK'
  <2> SUFFICES ASSUME NEW r \in Readers PROVE ReadOK(r)'
    BY DEF ReadsOK
  <2>0. ReadOK(r)
    BY DEF TranscriptInv, ReadsOK
  <2>1. CASE reader[r].calling
    <3>1. /\ reader[r].behind <= Len(chain)
          /\ \A x \in reader[r].promised : Comes(r, x)
          /\ \A i \in DOMAIN chain : reader[r].promised \cap chain[i].drops = {}
          /\ \A i \in DOMAIN chain : IsRewrite(i) /\ i > reader[r].behind => reader[r].promised = {}
      BY <2>0, <2>1 DEF ReadOK
    <3>2. ASSUME NEW x \in reader[r].promised PROVE Comes(r, x)'
      <4>1. x \notin chain[1].drops
        BY <1>1, <3>1, <3>2
      <4>2. CASE x \in Readable(file)
        BY <1>4, <1>26, <4>1, <4>2 DEF Covers, Comes
      <4>3. CASE x \notin Readable(file)
        <5>1. PICK i \in DOMAIN chain : i <= reader[r].behind /\ IsLine(i) /\ Item(i) = x
          BY <1>1, <3>1, <3>2, <4>3 DEF Comes
        <5>2. QED BY <1>0, <1>3, <5>1 DEF Comes
      <4>4. QED BY <4>2, <4>3
    <3>3. QED BY <1>0, <1>3, <2>1, <3>1, <3>2 DEF ReadOK
  <2>2. CASE ~reader[r].calling
    BY <1>0, <2>0, <2>2 DEF ReadOK
  <2>3. QED BY <2>1, <2>2
<1>16. QED
  BY <1>6, <1>7, <1>8, <1>9, <1>10, <1>11, <1>12, <1>13, <1>14, <1>15 DEF TranscriptInv

(* A step that at most begins a commit, or only moves readers. *)
LEMMA StepOfReaders ==
  ASSUME TranscriptInv, TranscriptTypeOK', HeadOK', ReadsOK', step' # "truncated" \/ UNCHANGED step, step # "truncated" \/ UNCHANGED step,
         UNCHANGED <<file, chain, called, written, dropped, failed, spoilt>>
  PROVE  TranscriptInv'
<1>1. /\ \A x, y : Before(x, y) <=> Before(x, y)'
      /\ Readable(called)' = Readable(called)
  BY BeforeSame
<1>2. /\ \A i : (IsLine(i)' <=> IsLine(i)) /\ (IsRewrite(i)' <=> IsRewrite(i)) /\ Item(i)' = Item(i)
      /\ \A i : Readable(chain[i].rows)' = Readable(chain[i].rows) /\ chain'[i] = chain[i]
      /\ \A x : Pending(x)' <=> Pending(x)
  BY SameChain
<1>3. Readable(file)' = Readable(file) /\ Readable(Now)' = Readable(Now) /\ (step' = "truncated" => step = "truncated")
  BY DEF Readable, Now
<1>4. LinesOK' /\ CalledOnce' /\ AllCalled'
  BY <1>1, <1>2, <1>3 DEF TranscriptInv, LinesOK, CalledOnce, AllCalled
<1>5. OrderOK'
  <2>1. InOrder(file)' /\ \A i \in DOMAIN chain' : InOrder(chain[i].rows)'
    BY <1>1 DEF TranscriptInv, OrderOK, InOrder
  <2>2. ASSUME NEW j \in DOMAIN chain', IsLine(j)', NEW x \in Readable(file)' PROVE Before(x, Item(j))'
    BY <1>1, <1>2, <1>3, <2>2 DEF TranscriptInv, OrderOK
  <2>3. ASSUME NEW i \in DOMAIN chain', NEW j \in DOMAIN chain', i < j, IsLine(j)', NEW x \in Readable(chain[i].rows)'
        PROVE  Before(x, Item(j))'
    BY <1>1, <1>2, <2>3 DEF TranscriptInv, OrderOK
  <2>4. QED BY <2>1, <2>2, <2>3 DEF OrderOK
<1>6. DropsOK'
  <2>1. \A i, j \in DOMAIN chain' : i < j /\ IsLine(j)' => Item(j)' \notin chain'[i].drops
    BY <1>2 DEF TranscriptInv, DropsOK
  <2>2. QED BY <1>2, <1>3, <2>1 DEF TranscriptInv, DropsOK
<1>7. CoverOK'
  <2> SUFFICES ASSUME NEW j \in DOMAIN chain', IsRewrite(j)'
               PROVE  /\ Covers(j, written)' /\ Covers(j, Readable(Now))'
                      /\ \A i \in DOMAIN chain' : i < j => Covers(j, Readable(chain[i].rows))'
    BY DEF CoverOK
  <2>1. /\ Covers(j, written) /\ Covers(j, Readable(Now))
        /\ \A i \in DOMAIN chain : i < j => Covers(j, Readable(chain[i].rows))
    BY <1>2 DEF TranscriptInv, CoverOK
  <2>2. QED BY <1>2, <1>3, <2>1 DEF Covers
<1>8. KeepOK'
  BY <1>1, <1>2, <1>3 DEF TranscriptInv, KeepOK
<1>9. QED BY <1>4, <1>5, <1>6, <1>7, <1>8 DEF TranscriptInv

LEMMA InvReadPrevious ==
  ASSUME TranscriptInv, ReadPrevious
  PROVE  TranscriptInv'
<1>0. /\ TranscriptTypeOK /\ HeadOK /\ chain # <<>> /\ Head(chain).kind = "commit" /\ step = "ready" /\ step' = "read"
      /\ previous' = file /\ UNCHANGED <<file, torn, chain, reader, called, written, dropped, failed, spoilt>>
  BY DEF TranscriptInv, ReadPrevious
<1>1. IsLine(1)
  BY <1>0, HeadLine
<1>2. TranscriptTypeOK'
  BY <1>0 DEF TranscriptTypeOK
<1>3. HeadOK'
  BY <1>0, <1>1 DEF HeadOK, IsLine
<1>4. ReadsOK'
  <2>1. \A i : IsRewrite(i)' <=> IsRewrite(i)
    BY <1>0, SameChain
  <2>2. \A r, x : Comes(r, x) => Comes(r, x)'
    BY <1>0 DEF Comes, Now, Readable, IsLine, Item
  <2>3. ASSUME NEW r \in Readers PROVE ReadOK(r)'
    BY <1>0, <2>1, <2>2 DEF TranscriptInv, ReadsOK, ReadOK
  <2>4. QED BY <2>3 DEF ReadsOK
<1>5. QED BY <1>0, <1>2, <1>3, <1>4, StepOfReaders

(* Another reader goes on as it was. *)
LEMMA OtherReads ==
  ASSUME TranscriptInv, NEW r \in Readers, reader'[r] = reader[r], UNCHANGED <<file, chain, step>>
  PROVE  ReadOK(r)'
<1>1. \A i : IsRewrite(i)' <=> IsRewrite(i)
  BY DEF IsRewrite
<1>2. \A x : Comes(r, x) => Comes(r, x)'
  BY DEF Comes, Now, Readable, IsLine, Item
<1>3. QED BY <1>1, <1>2 DEF TranscriptInv, ReadsOK, ReadOK

LEMMA InvReadTranscript ==
  ASSUME TranscriptInv, NEW r \in Readers, ReadTranscript(r)
  PROVE  TranscriptInv'
<1> DEFINE call == [calling |-> TRUE, behind |-> Len(chain), promised |-> Readable(called) \ Gone, got |-> {}]
<1>0. /\ TranscriptTypeOK /\ HeadOK /\ reader' = [reader EXCEPT ![r] = call]
      /\ UNCHANGED <<file, torn, chain, step, previous, called, written, dropped, failed, spoilt>>
  BY DEF TranscriptInv, ReadTranscript
<1>1. Len(chain) \in Nat /\ \A i \in DOMAIN chain : i \in Nat /\ i <= Len(chain)
  BY <1>0, LenProperties DEF TranscriptTypeOK
<1>2. call \in ReaderType
  <2>1. Readable(called) \ Gone \subseteq Items
    BY DEF Readable
  <2>2. QED BY <1>1, <2>1 DEF ReaderType
<1>3. /\ call.calling = TRUE /\ call.behind = Len(chain) /\ call.promised = Readable(called) \ Gone
  OBVIOUS
<1> HIDE DEF call
<1>4. /\ reader' \in [Readers -> ReaderType] /\ reader'[r] = call
      /\ \A s \in Readers : s # r => reader'[s] = reader[s]
  BY <1>0, <1>2 DEF TranscriptTypeOK, ReaderType
<1>5. TranscriptTypeOK'
  BY <1>0, <1>4 DEF TranscriptTypeOK, ReaderType
<1>6. HeadOK'
  BY <1>0 DEF HeadOK, IsLine, IsRewrite
<1>7. ReadOK(r)'
  <2>1. ASSUME NEW x \in call.promised PROVE Comes(r, x)'
    <3>1. /\ x \in Readable(called) /\ x \notin failed /\ x \notin spoilt /\ x \notin dropped
      BY <1>3, <2>1 DEF Gone
    <3>2. CASE x \in written
      <4>1. x \in Readable(Now)
        BY <3>1, <3>2 DEF TranscriptInv, KeepOK
      <4>2. Readable(Now)' = Readable(Now)
        BY <1>0 DEF Now, Readable
      <4>3. QED BY <4>1, <4>2 DEF Comes
    <3>3. CASE Pending(x)
      <4>1. PICK i \in DOMAIN chain : IsLine(i) /\ Item(i) = x
        BY <3>3 DEF Pending
      <4>2. IsLine(i)' /\ Item(i)' = x /\ i \in DOMAIN chain' /\ i <= reader'[r].behind
        BY <1>0, <1>1, <1>3, <1>4, <4>1 DEF IsLine, Item
      <4>3. QED BY <4>2 DEF Comes
    <3>4. QED BY <3>1, <3>2, <3>3 DEF TranscriptInv, KeepOK
  <2>2. \A i \in DOMAIN chain : call.promised \cap chain[i].drops = {}
    BY <1>3 DEF Gone
  <2>3. \A i \in DOMAIN chain : ~(i > Len(chain))
    BY <1>1
  <2>4. (reader[r].behind <= Len(chain))'
    BY <1>0, <1>1, <1>3, <1>4
  <2>5. QED BY <1>0, <1>3, <1>4, <2>1, <2>2, <2>3, <2>4 DEF ReadOK
<1>8. ReadsOK'
  BY <1>0, <1>4, <1>7, OtherReads DEF ReadsOK
<1>9. QED BY <1>0, <1>5, <1>6, <1>8, StepOfReaders

LEMMA InvReadFile ==
  ASSUME TranscriptInv, NEW r \in Readers, ReadFile(r)
  PROVE  TranscriptInv'
<1>0. /\ TranscriptTypeOK /\ HeadOK /\ reader[r].calling /\ reader[r].behind = 0
      /\ reader' = [reader EXCEPT ![r].calling = FALSE, ![r].got = Readable(file)]
      /\ UNCHANGED <<file, torn, chain, step, previous, called, written, dropped, failed, spoilt>>
  BY DEF TranscriptInv, ReadFile
<1>1. reader \in [Readers -> ReaderType] /\ Readable(file) \subseteq Items
  BY <1>0 DEF TranscriptTypeOK, ReaderType, Readable
<1>2. /\ reader' \in [Readers -> ReaderType]
      /\ reader'[r].calling = FALSE /\ reader'[r].got = Readable(file) /\ reader'[r].promised = reader[r].promised
      /\ \A s \in Readers : s # r => reader'[s] = reader[s]
  BY <1>0, <1>1 DEF ReaderType
<1>3. TranscriptTypeOK'
  BY <1>0, <1>2 DEF TranscriptTypeOK, ReaderType
<1>4. HeadOK'
  BY <1>0 DEF HeadOK, IsLine, IsRewrite
<1>5. reader[r].promised \subseteq Readable(file)
  <2>1. /\ \A x \in reader[r].promised : Comes(r, x)
        /\ \A i \in DOMAIN chain : IsRewrite(i) /\ i > reader[r].behind => reader[r].promised = {}
    BY <1>0 DEF TranscriptInv, ReadsOK, ReadOK
  <2>2. CASE step = "truncated"
    <3>1. IsRewrite(1) /\ 1 \in DOMAIN chain
      BY <1>0, <2>2 DEF HeadOK, IsRewrite
    <3>2. QED BY <1>0, <2>1, <3>1
  <2>3. CASE step # "truncated"
    <3>1. Now = file
      BY <2>3 DEF Now
    <3>2. \A i \in DOMAIN chain : ~(i <= 0)
      BY <1>0, LenProperties DEF TranscriptTypeOK
    <3>3. QED BY <1>0, <2>1, <3>1, <3>2 DEF Comes
  <2>4. QED BY <2>2, <2>3
<1>6. ReadOK(r)'
  BY <1>2, <1>5 DEF ReadOK
<1>7. ReadsOK'
  BY <1>0, <1>2, <1>6, OtherReads DEF ReadsOK
<1>8. QED BY <1>0, <1>3, <1>4, <1>7, StepOfReaders

LEMMA InvCrash ==
  ASSUME TranscriptInv, ProcessDies
  PROVE  TranscriptInv'
<1>0. /\ TranscriptTypeOK /\ HeadOK /\ UNCHANGED <<called, written, dropped>>
      /\ chain' = <<>> /\ step' = "ready" /\ previous' = <<>> /\ reader' = [r \in Readers |-> NoRead]
      /\ failed' = failed \cup (Readable(called) \ written) /\ spoilt' = spoilt \cup LostRows
  BY DEF TranscriptInv, ProcessDies
<1>1. /\ Readable(file)' = Readable(file) /\ InOrder(file)'
      /\ file' \in Seq(Rows) /\ torn' \in BOOLEAN /\ (torn' => file' # <<>> /\ file'[Len(file')] = Garbled)
  <2>1. CASE UNCHANGED <<file, torn>>
    <3>1. \A x, y : Before(x, y) <=> Before(x, y)'
      BY <1>0, BeforeSame
    <3>2. Readable(file)' = Readable(file) /\ InOrder(file)'
      BY <2>1, <3>1 DEF TranscriptInv, OrderOK, InOrder, Readable
    <3>3. QED BY <1>0, <2>1, <3>2 DEF TranscriptTypeOK
  <2>2. CASE CutShort
    BY <1>0, <2>2, CutShortReadable, CutShortIs DEF TranscriptInv, OrderOK
  <2>3. QED BY <2>1, <2>2 DEF ProcessDies
<1>2. LostRows \subseteq Items /\ Readable(Now) \subseteq Readable(file) \cup LostRows
  BY <1>0, HeadIs DEF LostRows, Now, Readable, TranscriptTypeOK, Jobs, HeadOK, IsRewrite
<1>3. TranscriptTypeOK'
  <2>1. reader' \in [Readers -> ReaderType]
    BY <1>0 DEF NoRead, ReaderType
  <2>2. written' \subseteq Items /\ spoilt' \subseteq Items /\ dropped' \subseteq Items /\ failed' \subseteq Items
    BY <1>0, <1>2 DEF TranscriptTypeOK, Readable
  <2>3. chain' \in Seq(Jobs) /\ previous' \in Seq(Rows)
    BY <1>0, EmptySeq
  <2>4. QED BY <1>0, <1>1, <2>1, <2>2, <2>3 DEF TranscriptTypeOK, Jobs, ReaderType
<1>4. DOMAIN chain' = {} /\ Readable(called)' = Readable(called) /\ Readable(Now)' = Readable(file)
  BY <1>0, <1>1, BeforeSame DEF Now
<1>5. LinesOK' /\ HeadOK' /\ CalledOnce'
  BY <1>0, <1>4 DEF TranscriptInv, LinesOK, HeadOK, CalledOnce
<1>6. AllCalled' /\ OrderOK'
  BY <1>0, <1>1, <1>4 DEF TranscriptInv, AllCalled, OrderOK
<1>7. DropsOK' /\ CoverOK'
  <2>1. dropped \cap Readable(file) = {}
    BY <1>0, ReadableNone DEF TranscriptInv, DropsOK, Now, HeadOK
  <2>2. QED BY <1>0, <1>4, <2>1 DEF DropsOK, CoverOK
<1>8. KeepOK'
  BY <1>0, <1>2, <1>4 DEF TranscriptInv, KeepOK
<1>9. ReadsOK'
  BY <1>0 DEF NoRead, ReadsOK, ReadOK
<1>10. QED BY <1>3, <1>5, <1>6, <1>7, <1>8, <1>9 DEF TranscriptInv

LEMMA InvInit == TranscriptInit => TranscriptInv
<1> SUFFICES ASSUME TranscriptInit PROVE TranscriptInv
  OBVIOUS
<1>1. /\ file = <<>> /\ torn = FALSE /\ chain = <<>> /\ step = "ready" /\ previous = <<>>
      /\ reader = [r \in Readers |-> NoRead] /\ called = <<>>
      /\ written = {} /\ dropped = {} /\ failed = {} /\ spoilt = {}
  BY DEF TranscriptInit
<1>2. TranscriptTypeOK
  <2>1. /\ file \in Seq(Rows) /\ previous \in Seq(Rows) /\ called \in Seq(Items) /\ chain \in Seq(Jobs)
    BY <1>1, EmptySeq
  <2>2. reader \in [Readers -> ReaderType]
    BY <1>1 DEF NoRead, ReaderType
  <2>3. QED BY <1>1, <2>1, <2>2 DEF TranscriptTypeOK, Jobs, ReaderType
<1>3. DOMAIN chain = {} /\ DOMAIN called = {} /\ DOMAIN file = {} /\ Readable(<<>>) = {} /\ Now = file
  BY <1>1, ReadableNone DEF Now
<1>4. LinesOK /\ HeadOK /\ CalledOnce /\ AllCalled
  BY <1>1, <1>3 DEF LinesOK, HeadOK, CalledOnce, AllCalled
<1>5. OrderOK /\ DropsOK /\ CoverOK /\ KeepOK
  BY <1>1, <1>3 DEF OrderOK, DropsOK, CoverOK, KeepOK, InOrder
<1>6. ReadsOK
  BY <1>1 DEF ReadsOK, ReadOK, NoRead
<1>7. QED BY <1>2, <1>4, <1>5, <1>6 DEF TranscriptInv

LEMMA InvNext == TranscriptInv /\ [TranscriptNext]_transcriptVars => TranscriptInv'
<1> SUFFICES ASSUME TranscriptInv, [TranscriptNext]_transcriptVars PROVE TranscriptInv'
  OBVIOUS
<1>1. CASE \E item \in Items : AppendTranscript(item) \/ CommitTranscript(item)
  BY <1>1, InvAppendTranscript, InvCommitTranscript
<1>2. CASE \E n \in 0 .. Len(file) : \E keep \in Kept(n) : RewriteTranscript(keep)
  BY <1>2, InvRewriteTranscript
<1>3. CASE \E r \in Readers : ReadTranscript(r) \/ ReadFile(r)
  BY <1>3, InvReadTranscript, InvReadFile
<1>4. CASE WriteLine
  BY <1>4, InvWriteLine
<1>5. CASE Truncate \/ WriteKept
  BY <1>5, InvTruncate, InvWriteKept
<1>6. CASE ReadPrevious \/ ReplaceFile
  BY <1>6, InvReadPrevious, InvReplaceFile
<1>7. CASE WriteFails \/ ProcessDies
  BY <1>7, InvWriteFails, InvCrash
<1>8. CASE UNCHANGED transcriptVars
  <2>1. UNCHANGED <<file, torn, chain, step, previous, reader, called, written, dropped, failed, spoilt>>
    BY <1>8 DEF transcriptVars
  <2>2. TranscriptTypeOK' /\ HeadOK'
    BY <2>1 DEF TranscriptInv, TranscriptTypeOK, HeadOK, IsLine, IsRewrite
  <2>3. ReadsOK'
    BY <2>1, OtherReads DEF ReadsOK
  <2>4. QED BY <2>1, <2>2, <2>3, StepOfReaders
<1>9. QED BY <1>1, <1>2, <1>3, <1>4, <1>5, <1>6, <1>7, <1>8 DEF TranscriptNext

(* The invariant holds in every reachable state: of the transcript's file, of the calls waiting in *)
(* its chain (queueTranscriptWrite) and of the reads behind them.                                   *)
THEOREM TranscriptInvariant == TranscriptSpec => []TranscriptInv
<1>1. QED BY InvInit, InvNext, PTL DEF TranscriptSpec

(* Rows stand in the transcript in the order their writes were called in, and none twice, whatever *)
(* appends, rewrites, commits and failures raced.                                                    *)
THEOREM OrderIsProved == TranscriptSpec => []RowsInCallOrder
<1>1. TranscriptInv => RowsInCallOrder
  BY DEF TranscriptInv, OrderOK, InOrder, Before, RowsInCallOrder
<1>2. QED BY <1>1, TranscriptInvariant, PTL

(* What a rewrite (clearTranscript, editAndResend) left out stays away; a row that its caller was *)
(* told is written stays, but for a torn line or an interrupted rewrite.                            *)
THEOREM RowsAreKept == TranscriptSpec => []RowsStayAsWritten
<1>1. TranscriptInv => RowsStayAsWritten
  BY ReadableNone DEF TranscriptInv, HeadOK, DropsOK, KeepOK, Now, RowsStayAsWritten
<1>2. QED BY <1>1, TranscriptInvariant, PTL

(* readTranscript shows every item whose append was called before it, unless that write failed. *)
THEOREM ReadsAreProved == TranscriptSpec => []ReadShowsWhatWasAnnounced
<1>1. TranscriptInv => ReadShowsWhatWasAnnounced
  BY DEF TranscriptInv, ReadsOK, ReadOK, ReadShowsWhatWasAnnounced
<1>2. QED BY <1>1, TranscriptInvariant, PTL
=============================================================================
