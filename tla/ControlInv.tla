------------------------------ MODULE ControlInv ------------------------------
(***************************************************************************)
(* The inductive invariant of Control: what makes its safety properties    *)
(* hold, conjunct by conjunct.                                             *)
(***************************************************************************)
EXTENDS Control

SameKey(a, b) ==
  /\ ident[a].who = ident[b].who
  /\ ident[a].window = ident[b].window
  /\ ident[a].key = ident[b].key

(* Memory is never ahead of the disk, and a dead process has no volatile state. *)
Durable ==
  /\ mem = disk
  /\ writing # None => up /\ queue # <<>>
  /\ ~up => queue = <<>> /\ \A o \in Ops : job[o] = "none"

(* What the queue holds for a job is what the job waits for, and only once. *)
OpKinds == {"dispatch", "settle", "abandon"}
QueueOK ==
  /\ \A i \in 1..Len(queue) :
       /\ queue[i].kind = "dispatch" => job[queue[i].op] = "dispatching"
       /\ queue[i].kind = "abandon" => job[queue[i].op] = "abandoning"
       /\ queue[i].kind = "settle" => /\ job[queue[i].op] = "settling"
                                      /\ queue[i].outcome \in {ran[queue[i].op], "unknown"}
  /\ \A i, j \in 1..Len(queue) :
       queue[i].kind \in OpKinds /\ queue[j].kind \in OpKinds /\ queue[i].op = queue[j].op => i = j

(* Where a job stands says what the harness did. *)
JobOK ==
  \A o \in Ops :
    /\ job[o] = "running" <=> ran[o] = "running"
    /\ job[o] \in {"ready", "dispatching"} => ran[o] = "no"
    /\ job[o] = "settling" => ran[o] \in Outcomes
    /\ ran[o] = "running" => disk.state[o] = "dispatched"
    /\ job[o] # "none" \/ ran[o] # "no" \/ disk.state[o] # "none" => o \in written

(* An admission window vanishes together with all its receipts, and its id   *)
(* never comes back: that is what makes a late retry harmless.               *)
WindowsOK ==
  /\ disk.windows \subseteq issued
  /\ \A o \in written :
       /\ ident[o] # None
       /\ ident[o].window \in issued
       /\ disk.state[o] # "none" <=> ident[o].window \in disk.windows
  /\ \A a, b \in written : SameKey(a, b) => a = b

WithdrawnOK ==
  \A o \in withdrawn : o \in written /\ ran[o] = "no" /\ disk.state[o] \notin Live

(* What the transaction t, on its way to the disk, does to the receipt of o.  *)
Fresh(t, o) ==
  /\ t.kind = "admit" /\ o \notin written
  /\ writing.state[o] = "accepted" /\ ident[o] # None
  /\ ident[o].window \in writing.windows \cap issued
  /\ \A a \in written : ~SameKey(a, o)
Canceled(t, o) ==
  /\ t.kind \in {"enable", "grant", "revoke"}
  /\ o \in Withdrawn(disk, Loses(disk, t))
  /\ writing.state[o] = "failed"
Decided(t, o) ==
  /\ t.kind \in OpKinds /\ t.op = o
  /\ \/ /\ t.kind = "dispatch"
        /\ disk.state[o] = "accepted" /\ writing.state[o] = "dispatched"
     \/ /\ t.kind = "settle"
        /\ disk.state[o] \in Live /\ writing.state[o] = t.outcome
     \/ /\ t.kind = "abandon"
        /\ \/ disk.state[o] = "accepted" /\ writing.state[o] = "failed"
           \/ disk.state[o] = "dispatched" /\ writing.state[o] = "unknown"
Effect(t, o) ==
  \/ writing.state[o] = disk.state[o]
  \/ disk.state[o] \in Terminal /\ writing.state[o] = "none"
  \/ Fresh(t, o) \/ Canceled(t, o) \/ Decided(t, o)

(* The document on its way to the disk differs from the disk only by what    *)
(* its transaction does, and by what pruning drops.                          *)
WritingOK ==
  writing # None =>
    LET t == Head(queue)
    IN /\ \A o \in Ops : Effect(t, o)
       /\ t.kind = "dispatch" => Decided(t, t.op)
       /\ t.kind \in {"enable", "grant", "revoke"} =>
            \A o \in Withdrawn(disk, Loses(disk, t)) : Canceled(t, o)
       /\ \A o, p \in Ops \ written :
            writing.state[o] # "none" /\ writing.state[p] # "none" => o = p
       /\ \A o \in written : writing.state[o] # "none" <=> ident[o].window \in writing.windows
       /\ writing.windows \cap issued \subseteq disk.windows

IInv ==
  /\ TypeOK
  /\ Durable
  /\ QueueOK
  /\ JobOK
  /\ HonestReceipts
  /\ WindowsOK
  /\ WithdrawnOK
  /\ WritingOK
=============================================================================
