----------------------------- MODULE Transcript -----------------------------
(***************************************************************************)
(* One session's transcript.jsonl (src/main/store.ts): appends, rewrites   *)
(* and commits run one at a time on a promise chain (queueTranscriptWrite) *)
(* and a read first waits for the writes it was called behind.             *)
(*                                                                         *)
(* Abstracted: every append writes an item of its own, so the reader's     *)
(* collapse of several rows of one item is left out; a row is its item, or *)
(* Garbled if it is not JSON. repriceTurns keeps every row and so is the   *)
(* rewrite that keeps all items, written atomically like a commit. The     *)
(* process dies, the machine does not: written rows reach the disk.        *)
(*                                                                         *)
(* No name is also one of SessionIndex: SessionStoreProofs extends both.   *)
(***************************************************************************)
EXTENDS Naturals, Sequences, FiniteSets

CONSTANTS Items,
          Garbled,
          Readers,       \* concurrent calls of readTranscript
          MaxRewrites,   \* bound on calls of rewriteTranscript
          MaxCommits,    \* bound on calls of commitTranscript
          MaxWriteFaults,  \* bound on failing writes
          MaxDeaths,     \* bound on process deaths
          Tears          \* a write cut short may leave part of its line

ASSUME TranscriptAssumption ==
  /\ Garbled \notin Items /\ Tears \in BOOLEAN
  /\ {MaxRewrites, MaxCommits, MaxWriteFaults, MaxDeaths} \subseteq Nat

Rows == Items \cup {Garbled}
NoRead == [calling |-> FALSE, behind |-> 0, promised |-> {}, got |-> {}]

VARIABLES
  file,       \* the rows of transcript.jsonl
  torn,       \* its last row, Garbled, has no newline
  chain,      \* transcriptWrites: calls waiting; the head runs
  step,       \* of the head: "ready", "truncated" (a rewrite), "read" (a commit)
  previous,   \* what a commit read
  reader,     \* calls of readTranscript: how many writes each still waits for
  rewrites, commits, writeFaults, deaths,
  (* History. *)
  called,     \* items whose append or commit was called, in that order
  written,    \* those whose caller was told that they are written
  dropped,    \* items a rewrite was called to leave out
  failed,     \* items whose write failed
  spoilt      \* items lost with a torn row or an interrupted rewrite

counts == <<rewrites, commits, writeFaults, deaths>>
transcriptVars == <<file, torn, chain, step, previous, reader, rewrites, commits, writeFaults,
                    deaths, called, written, dropped, failed, spoilt>>

TranscriptInit ==
  /\ file = <<>> /\ torn = FALSE
  /\ chain = <<>> /\ step = "ready" /\ previous = <<>>
  /\ reader = [r \in Readers |-> NoRead]
  /\ rewrites = 0 /\ commits = 0 /\ writeFaults = 0 /\ deaths = 0
  /\ called = <<>> /\ written = {} /\ dropped = {} /\ failed = {} /\ spoilt = {}

Readable(rows) == {rows[i] : i \in DOMAIN rows} \cap Items

-----------------------------------------------------------------------------
(* Calls. queueTranscriptWrite puts each behind the pending ones. *)

(* Wrong variants: a rewrite, or an append, does not wait for the calls before it. *)
QueueRewriteFirst(job) ==
  chain' = IF job.kind = "rewrite" /\ step = "ready" THEN <<job>> \o chain ELSE Append(chain, job)
QueueAppendFirst(job) ==
  chain' = IF job.kind = "append" /\ step = "ready" THEN <<job>> \o chain ELSE Append(chain, job)

QueueWrite(job) == chain' = Append(chain, job)

AppendTranscript(item) ==
  /\ item \notin Readable(called)
  /\ called' = Append(called, item)
  /\ QueueWrite([kind |-> "append", rows |-> <<item>>, drops |-> {}])
  /\ UNCHANGED <<file, torn, step, previous, reader, counts, written, dropped, failed, spoilt>>

(* The items in the first n rows, in their order. *)
Kept(n) ==
  LET places == {i \in 1 .. n : file[i] \in Items}
      orders == {at \in [1 .. Cardinality(places) -> places] :
                   \A i, j \in DOMAIN at : i < j => at[i] < at[j]}
  IN {[i \in DOMAIN at |-> file[at[i]]] : at \in orders}

(* clearTranscript keeps nothing, editAndResend a prefix of the rows it read before. *)
RewriteTranscript(keep) ==
  /\ rewrites < MaxRewrites
  /\ rewrites' = rewrites + 1
  /\ QueueWrite([kind |-> "rewrite", rows |-> keep, drops |-> Readable(called) \ Readable(keep)])
  (* A read called before may now see the file before, during or after the rewrite. *)
  /\ reader' = [r \in Readers |-> [reader[r] EXCEPT !.promised = {}]]
  /\ UNCHANGED <<file, torn, step, previous, commits, writeFaults, deaths,
                 called, written, dropped, failed, spoilt>>

(* The controller's barrier: the live items of its turn, behind what was appended. *)
CommitTranscript(item) ==
  /\ commits < MaxCommits
  /\ item \notin Readable(called)
  /\ commits' = commits + 1
  /\ called' = Append(called, item)
  /\ QueueWrite([kind |-> "commit", rows |-> <<item>>, drops |-> {}])
  /\ UNCHANGED <<file, torn, step, previous, reader, rewrites, writeFaults, deaths,
                 written, dropped, failed, spoilt>>

(* Items that a read called now is not promised. *)
Gone == failed \cup spoilt \cup dropped \cup UNION {chain[i].drops : i \in DOMAIN chain}

(* Wrong variant: the read does not wait. *)
ReadAtOnce(r) ==
  /\ ~reader[r].calling
  /\ reader' = [reader EXCEPT ![r] = [calling |-> TRUE, behind |-> 0,
                                      promised |-> Readable(called) \ Gone, got |-> {}]]
  /\ UNCHANGED <<file, torn, chain, step, previous, counts, called, written, dropped, failed, spoilt>>

ReadTranscript(r) ==
  /\ ~reader[r].calling
  /\ reader' = [reader EXCEPT ![r] = [calling |-> TRUE, behind |-> Len(chain),
                                      promised |-> Readable(called) \ Gone, got |-> {}]]
  /\ UNCHANGED <<file, torn, chain, step, previous, counts, called, written, dropped, failed, spoilt>>

(* The chain has settled as of the call: readJsonl skips what is not JSON. *)
ReadFile(r) ==
  /\ reader[r].calling /\ reader[r].behind = 0
  /\ reader' = [reader EXCEPT ![r].calling = FALSE, ![r].got = Readable(file)]
  /\ UNCHANGED <<file, torn, chain, step, previous, counts, called, written, dropped, failed, spoilt>>

-----------------------------------------------------------------------------
(* The head of the chain. *)

Settled ==
  /\ chain' = Tail(chain) /\ step' = "ready" /\ previous' = <<>>
  /\ reader' = [r \in Readers |->
       [reader[r] EXCEPT !.behind = IF @ = 0 THEN 0 ELSE @ - 1,
                         !.promised = @ \ (failed' \cup spoilt')]]

(* A row written behind a torn one becomes part of its line. *)
Appended(row) == IF torn THEN [file EXCEPT ![Len(file)] = Garbled] ELSE Append(file, row)

WriteLine ==
  /\ chain # <<>> /\ Head(chain).kind = "append"
  /\ LET item == Head(chain).rows[1] IN
       /\ file' = Appended(item)
       /\ written' = written \cup {item}
       /\ spoilt' = IF torn THEN spoilt \cup {item} ELSE spoilt
  /\ torn' = FALSE
  /\ UNCHANGED <<counts, called, dropped, failed>>
  /\ Settled

(* What a write of the head's line leaves when it is cut short: nothing, or part of it. *)
CutShort ==
  \/ UNCHANGED <<file, torn>>
  \/ Tears /\ Head(chain).kind = "append" /\ torn' = TRUE
     /\ file' = IF torn THEN file ELSE Append(file, Garbled)

(* fs.writeFile: truncate, then write. *)
Truncate ==
  /\ chain # <<>> /\ Head(chain).kind = "rewrite" /\ step = "ready"
  /\ step' = "truncated"
  /\ file' = <<>> /\ torn' = FALSE
  (* A rewrite computed from an older read brings back what a rewrite before it left out. *)
  /\ dropped' = (dropped \cup Head(chain).drops) \ Readable(Head(chain).rows)
  /\ UNCHANGED <<chain, previous, reader, counts, called, written, failed, spoilt>>

WriteKept ==
  /\ chain # <<>> /\ Head(chain).kind = "rewrite" /\ step = "truncated"
  /\ file' = Head(chain).rows
  /\ UNCHANGED <<torn, counts, called, written, dropped, failed, spoilt>>
  /\ Settled

(* Wrong variant: a commit that cannot read the file takes it for empty. *)
ReadPreviousOrNothing ==
  /\ chain # <<>> /\ Head(chain).kind = "commit" /\ step = "ready"
  /\ step' = "read" /\ previous' \in {file, <<>>}
  /\ UNCHANGED <<file, torn, chain, reader, counts, called, written, dropped, failed, spoilt>>

ReadPrevious ==
  /\ chain # <<>> /\ Head(chain).kind = "commit" /\ step = "ready"
  /\ step' = "read" /\ previous' = file
  /\ UNCHANGED <<file, torn, chain, reader, counts, called, written, dropped, failed, spoilt>>

(* writeText: the whole file anew, by rename; a torn last row gets its newline. *)
ReplaceFile ==
  /\ chain # <<>> /\ Head(chain).kind = "commit" /\ step = "read"
  /\ file' = previous \o Head(chain).rows
  /\ torn' = FALSE
  /\ written' = written \cup Readable(Head(chain).rows)
  /\ UNCHANGED <<counts, called, dropped, failed, spoilt>>
  /\ Settled

(* What the kept rows of a truncated file become when it is never written. *)
LostRows == IF step = "truncated" THEN Readable(Head(chain).rows) ELSE {}

(* The caller is rejected, the chain goes on. *)
WriteFails ==
  /\ chain # <<>>
  /\ writeFaults < MaxWriteFaults /\ writeFaults' = writeFaults + 1
  /\ CutShort
  /\ spoilt' = spoilt \cup LostRows
  /\ failed' = IF Head(chain).kind = "rewrite" THEN failed
               ELSE failed \cup Readable(Head(chain).rows)
  /\ UNCHANGED <<rewrites, commits, deaths, called, written, dropped>>
  /\ Settled

(* What the chain still held is lost with the process. *)
ProcessDies ==
  /\ deaths < MaxDeaths
  /\ deaths' = deaths + 1
  /\ IF chain = <<>> THEN UNCHANGED <<file, torn>> ELSE CutShort
  /\ failed' = failed \cup (Readable(called) \ written)
  /\ spoilt' = spoilt \cup LostRows
  /\ chain' = <<>> /\ step' = "ready" /\ previous' = <<>>
  /\ reader' = [r \in Readers |-> NoRead]
  /\ UNCHANGED <<rewrites, commits, writeFaults, called, written, dropped>>

TranscriptNext ==
  \/ \E item \in Items : AppendTranscript(item) \/ CommitTranscript(item)
  \/ \E n \in 0 .. Len(file) : \E keep \in Kept(n) : RewriteTranscript(keep)
  \/ \E r \in Readers : ReadTranscript(r) \/ ReadFile(r)
  \/ WriteLine \/ Truncate \/ WriteKept \/ ReadPrevious \/ ReplaceFile \/ WriteFails \/ ProcessDies

TranscriptSpec == TranscriptInit /\ [][TranscriptNext]_transcriptVars

-----------------------------------------------------------------------------
(* Properties. *)

(* The shape of the state; a chain at rest has no half-done head. *)
TranscriptTypeOK ==
  /\ file \in Seq(Rows) /\ torn \in BOOLEAN
  /\ torn => file # <<>> /\ file[Len(file)] = Garbled
  /\ chain \in Seq([kind : {"append", "rewrite", "commit"}, rows : Seq(Items), drops : SUBSET Items])
  /\ step \in {"ready", "truncated", "read"} /\ (step # "ready" => chain # <<>>)
  /\ previous \in Seq(Rows)
  /\ reader \in [Readers -> [calling : BOOLEAN, behind : Nat,
                             promised : SUBSET Items, got : SUBSET Items]]
  /\ called \in Seq(Items) /\ {written, dropped, failed, spoilt} \subseteq SUBSET Items

(* A read shows every item whose append was called before it, unless that write failed: what an *)
(* event already told the renderer is in the transcript the renderer then asks for.             *)
ReadShowsWhatWasAnnounced == \A r \in Readers : ~reader[r].calling => reader[r].promised \subseteq reader[r].got

(* Once a rewrite has run, nothing it left out comes back through an append it was queued behind. *)
(* And a row whose writer was told that it is written stays readable until a rewrite leaves it     *)
(* out, through other writers' failures, the controller's whole-file commits and crashes. The only *)
(* exceptions are rows lost behind a torn row or with an interrupted rewrite (`spoilt`).           *)
RowsStayAsWritten ==
  /\ dropped \cap Readable(file) = {}
  /\ step = "truncated" \/ written \ (dropped \cup spoilt) \subseteq Readable(file)

(* Rows stand in the order their writes were called in, and none twice: no write overtakes another, *)
(* and a commit repeats nothing.                                                                     *)
RowsInCallOrder ==
  \A i, j \in DOMAIN file : i < j /\ {file[i], file[j]} \subseteq Items =>
    \E k, m \in DOMAIN called : k < m /\ called[k] = file[i] /\ called[m] = file[j]
=============================================================================
