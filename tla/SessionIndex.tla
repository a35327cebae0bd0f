---------------------------- MODULE SessionIndex ----------------------------
(***************************************************************************)
(* The session index of src/main/store.ts: one list of session metadata in *)
(* memory, one file, and a promise chain that writes whole snapshots.      *)
(*                                                                         *)
(* Callers that change the list share the next snapshot instead of writing *)
(* one each (flushIndex); an import writes the session's own files first,  *)
(* then publishes the index with itself in it and only then enters the     *)
(* list; a removal leaves the list first and erases the files last.        *)
(* Imports and removals of one id are chained (queueSessionLifecycle).     *)
(*                                                                         *)
(* Abstracted: a session's metadata is the number of its last change; the  *)
(* position in the list is left out; transcripts are in Transcript.        *)
(***************************************************************************)
EXTENDS Naturals, Sequences, FiniteSets

CONSTANTS Ids,         \* session ids
          Imported,    \* those that come from importSession; the others from upsert
          MaxVersion,  \* bound on the changes of one session
          MaxCalls,    \* bound on imports and removals
          MaxFaults,   \* bound on failing writes
          MaxCrashes   \* bound on process deaths

ASSUME SessionIndexAssumption ==
  /\ Imported \subseteq Ids
  /\ {MaxVersion, MaxCalls, MaxFaults, MaxCrashes} \subseteq Nat

Versions == 0 .. MaxVersion   \* 0: not listed
Indexes == [Ids -> Versions]
Callers == Ids \X Versions    \* <<id, change>> of an upsert or import, <<id, 0>> of a removal
Operations == [op : {"import", "remove"},
               step : {"waiting", "transcript", "context", "publishing", "undoing",
                       "flushing", "erasing"}]

VARIABLES
  sessions,     \* this.sessions
  indexFile,    \* sessions.json
  writeQueue,   \* snapshots waiting on the chain; the head is being written once `writing` is set
  pending,      \* pendingIndexWrite: the last flush of the chain has not taken its snapshot
  writing,      \* <<the snapshot the head writes>>, or <<>>
  lifecycles,   \* per id, its unfinished imports and removals in order of call
  owned,        \* ids that have an entry in sessionLifecycles
  importing,    \* this.importing
  files,        \* of a session directory: transcript.jsonl and fork-context.md
  calls, faults, crashes,
  (* History. *)
  version,      \* last change handed out for an id
  acked,        \* the newest change whose caller was told it is saved, until its removal begins
  buried,       \* the newest change a finished removal took away
  spoiled       \* listed ids whose removal could not be written

queueVars == <<writeQueue, pending>>
historyVars == <<version, acked, buried, spoiled>>
vars == <<sessions, indexFile, writeQueue, pending, writing, lifecycles, owned, importing, files,
          calls, faults, crashes, version, acked, buried, spoiled>>

Init ==
  /\ sessions = [id \in Ids |-> 0] /\ indexFile = sessions
  /\ writeQueue = <<>> /\ pending = FALSE /\ writing = <<>>
  /\ lifecycles = [id \in Ids |-> <<>>] /\ owned = {} /\ importing = {}
  /\ files = [id \in Ids |-> "none"]
  /\ calls = 0 /\ faults = 0 /\ crashes = 0
  /\ version = [id \in Ids |-> 0] /\ acked = version /\ buried = version
  /\ spoiled = {}

-----------------------------------------------------------------------------
(* The write chain. *)

(* Wrong variant: also joins the generation whose snapshot is already being written. *)
FlushIndexInFlight(caller) ==
  LET flushes == {i \in DOMAIN writeQueue : writeQueue[i].kind = "flush"}
      last == CHOOSE i \in flushes : \A j \in flushes : j <= i
  IN IF flushes # {}
     THEN /\ writeQueue' = [writeQueue EXCEPT ![last].callers = @ \cup {caller}]
          /\ UNCHANGED pending
     ELSE /\ writeQueue' = Append(writeQueue, [kind |-> "flush", callers |-> {caller}])
          /\ pending' = TRUE

(* flushIndex: join the generation that has not started, or queue a new one. *)
FlushIndex(caller) ==
  IF pending
  THEN LET flushes == {i \in DOMAIN writeQueue : writeQueue[i].kind = "flush"}
           last == CHOOSE i \in flushes : \A j \in flushes : j <= i
       IN /\ writeQueue' = [writeQueue EXCEPT ![last].callers = @ \cup {caller}]
          /\ UNCHANGED pending
  ELSE /\ writeQueue' = Append(writeQueue, [kind |-> "flush", callers |-> {caller}])
       /\ pending' = TRUE

Upsert(id) ==
  /\ sessions[id] > 0 \/ (id \notin Imported /\ version[id] = 0)
  /\ version[id] < MaxVersion
  /\ version' = [version EXCEPT ![id] = @ + 1]
  /\ sessions' = [sessions EXCEPT ![id] = version'[id]]
  /\ FlushIndex(<<id, version'[id]>>)
  /\ UNCHANGED <<indexFile, writing, lifecycles, owned, importing, files, calls, faults, crashes,
                 acked, buried, spoiled>>

(* What the head serialises: the list as it is now, an import's session in front. *)
Snapshot(entry) ==
  IF entry.kind = "flush" THEN sessions
  ELSE [id \in Ids |-> IF \E v \in Versions : <<id, v>> \in entry.callers
                       THEN version[id] ELSE sessions[id]]

StartWrite ==
  /\ writeQueue # <<>> /\ writing = <<>>
  /\ writing' = <<Snapshot(Head(writeQueue))>>
  /\ pending' = (pending /\ Head(writeQueue).kind = "publish")
  /\ UNCHANGED <<sessions, indexFile, writeQueue, lifecycles, owned, importing, files,
                 calls, faults, crashes, historyVars>>

-----------------------------------------------------------------------------
(* queueSessionLifecycle. *)

(* Wrong variant: a removal flushes first and leaves the list when it is done. *)
BeginsListed(id, chain, k) ==
  IF chain[k].op = "remove"
  THEN /\ lifecycles' = [lifecycles EXCEPT ![id] = [chain EXCEPT ![k].step = "flushing"]]
       /\ acked' = [acked EXCEPT ![id] = 0]
       /\ FlushIndex(<<id, 0>>)
       /\ UNCHANGED sessions
  ELSE /\ lifecycles' = [lifecycles EXCEPT ![id] = [chain EXCEPT ![k].step = "transcript"]]
       /\ UNCHANGED <<sessions, acked, queueVars>>

(* The k-th operation of a chain runs up to its first await: a removal has *)
(* left the list and flushed, an import has found no session of its id.    *)
Begins(id, chain, k) ==
  IF chain[k].op = "remove"
  THEN /\ lifecycles' = [lifecycles EXCEPT ![id] = [chain EXCEPT ![k].step = "flushing"]]
       /\ sessions' = [sessions EXCEPT ![id] = 0]
       /\ acked' = [acked EXCEPT ![id] = 0]
       /\ FlushIndex(<<id, 0>>)
  ELSE /\ lifecycles' = [lifecycles EXCEPT ![id] = [chain EXCEPT ![k].step = "transcript"]]
       /\ UNCHANGED <<sessions, acked, queueVars>>

(* An uncontended operation starts synchronously, another waits for the last one. *)
Lifecycle(id, op) ==
  LET chain == Append(lifecycles[id], [op |-> op, step |-> "waiting"]) IN
  /\ calls < MaxCalls
  /\ calls' = calls + 1
  /\ owned' = owned \cup {id}
  /\ IF id \in owned
     THEN /\ lifecycles' = [lifecycles EXCEPT ![id] = chain]
          /\ UNCHANGED <<sessions, acked, queueVars>>
     ELSE Begins(id, chain, Len(chain))
  /\ UNCHANGED <<indexFile, writing, files, faults, crashes, version, buried, spoiled>>

Remove(id) ==
  /\ version[id] > 0
  /\ Lifecycle(id, "remove")
  /\ UNCHANGED importing

(* importChats found no session of this id; its own queue runs one import at a time. *)
ImportSession(id) ==
  /\ id \in Imported \ importing
  /\ sessions[id] = 0
  /\ version[id] < MaxVersion
  /\ importing' = importing \cup {id}
  /\ Lifecycle(id, "import")

BeginNext(id) ==
  /\ lifecycles[id] # <<>> /\ Head(lifecycles[id]).step = "waiting"
  /\ Begins(id, lifecycles[id], 1)
  /\ UNCHANGED <<indexFile, writing, owned, importing, files, calls, faults, crashes,
                 version, buried, spoiled>>

(* Wrong variant: whoever finishes deletes the entry. *)
DisownAny(id, k) == owned \ {id}

(* The map's entry goes only with the operation that put it there, the last of the chain. *)
Disown(id, k) == IF k = Len(lifecycles[id]) THEN owned \ {id} ELSE owned

(* The k-th operation of a chain has resolved or thrown. *)
Settles(id, k) ==
  /\ lifecycles' = [lifecycles EXCEPT ![id] = SubSeq(@, 1, k - 1) \o SubSeq(@, k + 1, Len(@))]
  /\ owned' = Disown(id, k)
  /\ importing' = IF lifecycles[id][k].op = "import" THEN importing \ {id} ELSE importing

Step(id, k, step) == k \in DOMAIN lifecycles[id] /\ lifecycles[id][k].step = step
Advances(id, k, step) ==
  /\ lifecycles' = [lifecycles EXCEPT ![id][k].step = step]
  /\ UNCHANGED <<owned, importing>>

-----------------------------------------------------------------------------
(* importSession, from the transcript to its place in the chain. *)

WriteTranscript(id, k) ==
  /\ Step(id, k, "transcript")
  /\ \/ /\ Advances(id, k, "context")
        /\ files' = [files EXCEPT ![id] = IF @ = "none" THEN "partial" ELSE @]
        /\ UNCHANGED faults
     \/ /\ faults < MaxFaults /\ faults' = faults + 1
        /\ Advances(id, k, "undoing")
        /\ UNCHANGED files
  /\ UNCHANGED <<sessions, indexFile, queueVars, writing, calls, crashes, historyVars>>

(* Wrong variant: the session enters the list before its index write. *)
WriteContextListed(id, k) ==
  /\ Step(id, k, "context")
  /\ Advances(id, k, "publishing")
  /\ files' = [files EXCEPT ![id] = "whole"]
  /\ version' = [version EXCEPT ![id] = @ + 1]
  /\ sessions' = [sessions EXCEPT ![id] = version'[id]]
  /\ writeQueue' = Append(writeQueue, [kind |-> "publish", callers |-> {<<id, version'[id]>>}])
  /\ UNCHANGED <<indexFile, pending, writing, calls, faults, crashes,
                 acked, buried, spoiled>>

WriteContext(id, k) ==
  /\ Step(id, k, "context")
  /\ \/ /\ Advances(id, k, "publishing")
        /\ files' = [files EXCEPT ![id] = "whole"]
        /\ version' = [version EXCEPT ![id] = @ + 1]
        /\ writeQueue' = Append(writeQueue, [kind |-> "publish", callers |-> {<<id, version'[id]>>}])
        /\ UNCHANGED faults
     \/ /\ faults < MaxFaults /\ faults' = faults + 1
        /\ Advances(id, k, "undoing")
        /\ UNCHANGED <<files, version, writeQueue>>
  /\ UNCHANGED <<sessions, indexFile, pending, writing, calls, crashes,
                 acked, buried, spoiled>>

(* The failed import's rmrf, whose own failure is swallowed. *)
UndoImport(id, k) ==
  /\ Step(id, k, "undoing")
  /\ \/ files' = [files EXCEPT ![id] = "none"] /\ UNCHANGED faults
     \/ faults < MaxFaults /\ faults' = faults + 1 /\ UNCHANGED files
  /\ Settles(id, k)
  /\ UNCHANGED <<sessions, indexFile, queueVars, writing, calls, crashes, historyVars>>

(* The last step of a removal. *)
EraseFiles(id, k) ==
  /\ Step(id, k, "erasing")
  /\ \/ /\ files' = [files EXCEPT ![id] = "none"]
        /\ buried' = [buried EXCEPT ![id] = version[id]]
        /\ UNCHANGED faults
     \/ /\ faults < MaxFaults /\ faults' = faults + 1
        /\ files' = [files EXCEPT ![id] = IF @ = "whole" THEN "partial" ELSE @]
        /\ UNCHANGED buried
  /\ Settles(id, k)
  /\ UNCHANGED <<sessions, indexFile, queueVars, writing, calls, crashes,
                 version, acked, spoiled>>

-----------------------------------------------------------------------------
(* The end of the head's write. *)

Dequeue == writeQueue' = Tail(writeQueue) /\ writing' = <<>> /\ UNCHANGED pending
Listing(snapshot) == {id \in Ids : snapshot[id] # 0}
Removals(entry) == {id \in Ids : <<id, 0>> \in entry.callers}
Removing(id) == \E k \in DOMAIN lifecycles[id] : lifecycles[id][k].step \in {"flushing", "erasing"}

(* Told that a change is saved; a change whose session is being removed is of no more interest. *)
Acknowledged(entry) ==
  [id \in Ids |-> IF Removing(id) THEN acked[id]
                  ELSE LET saved == {v \in Versions : <<id, v>> \in entry.callers} \cup {acked[id]}
                       IN CHOOSE v \in saved : \A w \in saved : w <= v]

FlushSaved ==
  LET entry == Head(writeQueue) IN
  /\ writing # <<>> /\ entry.kind = "flush"
  /\ indexFile' = writing[1]
  /\ acked' = Acknowledged(entry)
  /\ spoiled' = spoiled \cap Listing(writing[1])
  /\ lifecycles' = [id \in Ids |->
       [k \in DOMAIN lifecycles[id] |->
          IF id \in Removals(entry) /\ lifecycles[id][k].step = "flushing"
          THEN [lifecycles[id][k] EXCEPT !.step = "erasing"] ELSE lifecycles[id][k]]]
  /\ Dequeue
  /\ UNCHANGED <<sessions, owned, importing, files, calls, faults, crashes, version, buried>>

(* A generation's callers are rejected; a removal among them ends here, out of the list. *)
FlushFailed ==
  LET entry == Head(writeQueue)
      failed == {id \in Removals(entry) : Step(id, 1, "flushing")} IN
  /\ writing # <<>> /\ entry.kind = "flush"
  /\ faults < MaxFaults /\ faults' = faults + 1
  /\ spoiled' = spoiled \cup (failed \cap Listing(indexFile))
  /\ lifecycles' = [id \in Ids |-> IF id \in failed THEN Tail(lifecycles[id]) ELSE lifecycles[id]]
  /\ owned' = {id \in owned : id \in failed => id \in Disown(id, 1)}
  /\ Dequeue
  /\ UNCHANGED <<sessions, indexFile, importing, files, calls, crashes, version, acked, buried>>

(* Only now does an imported session enter the list. *)
Published(id) == sessions' = [sessions EXCEPT ![id] = version[id]]

PublishSaved ==
  \E id \in Ids, k \in 1 .. MaxCalls :
    /\ writing # <<>> /\ Head(writeQueue).callers = {<<id, version[id]>>}
    /\ Head(writeQueue).kind = "publish"
    /\ Step(id, k, "publishing")
    /\ indexFile' = writing[1]
    /\ Published(id)
    /\ acked' = [acked EXCEPT ![id] = version[id]]
    /\ spoiled' = (spoiled \ {id}) \cap Listing(writing[1])
    /\ Settles(id, k)
    /\ Dequeue
    /\ UNCHANGED <<files, calls, faults, crashes, version, buried>>

PublishFailed ==
  \E id \in Ids, k \in 1 .. MaxCalls :
    /\ writing # <<>> /\ Head(writeQueue).callers = {<<id, version[id]>>}
    /\ Head(writeQueue).kind = "publish"
    /\ Step(id, k, "publishing")
    /\ faults < MaxFaults /\ faults' = faults + 1
    /\ Advances(id, k, "undoing")
    /\ Dequeue
    /\ UNCHANGED <<sessions, indexFile, files, calls, crashes, version, acked, buried, spoiled>>

(* The process dies, before or after the rename of a write in progress, and starts again: load(). *)
Crash ==
  /\ crashes < MaxCrashes
  /\ crashes' = crashes + 1
  /\ indexFile' \in {indexFile} \cup (IF writing = <<>> THEN {} ELSE {writing[1]})
  /\ sessions' = indexFile'
  /\ writeQueue' = <<>> /\ pending' = FALSE /\ writing' = <<>>
  /\ lifecycles' = [id \in Ids |-> <<>>] /\ owned' = {} /\ importing' = {}
  /\ acked' = [id \in Ids |-> IF Removing(id) THEN 0 ELSE acked[id]]
  /\ UNCHANGED <<files, calls, faults, version, buried, spoiled>>

Next ==
  \/ \E id \in Ids : Upsert(id) \/ Remove(id) \/ ImportSession(id) \/ BeginNext(id)
  \/ \E id \in Ids, k \in 1 .. MaxCalls :
       WriteTranscript(id, k) \/ WriteContext(id, k) \/ UndoImport(id, k) \/ EraseFiles(id, k)
  \/ StartWrite \/ FlushSaved \/ FlushFailed \/ PublishSaved \/ PublishFailed \/ Crash

Spec == Init /\ [][Next]_vars

-----------------------------------------------------------------------------
(* Properties. *)

(* The shape of the state. *)
TypeOK ==
  /\ {sessions, indexFile, version, acked, buried} \subseteq Indexes
  /\ writeQueue \in Seq([kind : {"flush", "publish"}, callers : SUBSET Callers])
  /\ pending \in BOOLEAN /\ writing \in {<<>>} \cup [{1} -> Indexes]
  /\ lifecycles \in [Ids -> Seq(Operations)]
  /\ owned = {id \in Ids : lifecycles[id] # <<>>}
  /\ importing \subseteq Imported
  /\ files \in [Ids -> {"none", "partial", "whole"}]
  /\ calls \in 0 .. MaxCalls /\ faults \in 0 .. MaxFaults /\ crashes \in 0 .. MaxCrashes
  /\ spoiled \subseteq Ids

(* A change whose caller was told that it is saved is on disk, in that or a later form, whatever *)
(* other writes fail and whenever the process dies.                                              *)
SavedMeansDurable == \A id \in Ids : acked[id] <= indexFile[id]

(* A session whose removal finished does not come back through a write that began before it, *)
(* nor by a restart; only a new import of the id may list it again.                          *)
RemovedStaysRemoved == \A id \in Ids : indexFile[id] = 0 \/ indexFile[id] > buried[id]

(* An imported session enters the list only when the file lists it: no other session's write *)
(* can publish it early, and none can find it in memory and lose it at a crash. And the file   *)
(* never names one whose transcript or context is missing, even after a crash between any two  *)
(* writes. The exception is a removal that could not be written: a later failing import of the *)
(* same id then erases files the old index still names.                                        *)
ImportsAreWhole ==
  \A id \in Imported :
    /\ sessions[id] # 0 => indexFile[id] # 0
    /\ indexFile[id] # 0 /\ id \notin spoiled => files[id] = "whole"
=============================================================================
