--------------------------- MODULE RemoteTerminal ---------------------------
(***************************************************************************)
(* One terminal of the desktop streamed to one paired browser:             *)
(* src/main/remote/terminal-streams.ts (the host's stream), the watchers   *)
(* and snapshots of src/main/terminal.ts, the ordered sendTo of            *)
(* src/main/remote/host.ts and the viewer src/web/terminal/remote-         *)
(* terminal.ts.  The browser is sent a snapshot of the screen and then the *)
(* output behind it.  The shell is never paused for it: a viewer that      *)
(* falls a window behind gets no output until it has acknowledged what it  *)
(* was sent, and then one fresh snapshot.                                  *)
(*                                                                         *)
(* Output chunks are numbered by the terminal and are all of length one.   *)
(* A connection is lost at both ends at once; how the ends find out is the *)
(* subject of RemoteConnection.  The smallest snapshot fits a frame.       *)
(***************************************************************************)
EXTENDS Integers, FiniteSets, Sequences

CONSTANTS
  Window,       \* REMOTE_TERMINAL_WINDOW: output a viewer may hold unacknowledged
  Chunk,        \* REMOTE_TERMINAL_CHUNK: output in one frame
  Attempts,     \* how often a snapshot is taken again because the output outran it
  Steps,        \* REMOTE_TERMINAL_SCROLLBACK_STEPS: sizes of a snapshot tried
  MaxOutput,    \* bound on the chunks of output
  Events,       \* which of the other events may happen, each once
  MaxEvents,    \* bound on how many of them do
  Nil

ASSUME TerminalAssumption ==
  /\ {Window, Chunk, Attempts, Steps} \subseteq Nat \ {0}
  /\ {MaxOutput, MaxEvents} \subseteq Nat
  /\ Events \subseteq {"clear", "resize", "refusal", "drop", "reopen"}
  /\ Nil \notin Nat \cup [kind : {"watch", "resync"}, seq : Nat, attempt : Nat, step : Nat]

VARIABLES
  term,      \* the terminal: chunks fed so far, times cleared, its geometry, open or closed
  stream,    \* the host's Stream for the browser, or Nil
  serving,   \* the browser's request in progress: a watch, or Nil
  out,       \* outgoing: frames sealed one after the other
  wire,      \* frames on their way to the browser
  up,        \* requests on their way to the host
  view,      \* the browser's RemoteTerminalStream
  screen,    \* what the browser shows
  happened   \* the bounded events that did happen

terminalVars == <<term, stream, serving, out, wire, up, view, screen, happened>>
viewer == <<view, screen>>

-----------------------------------------------------------------------------
(* The host's stream. *)

Snapshotting(s) == s.taking # Nil

(* takeSnapshot, up to its first await: output is held from here on. *)
TakeSnapshot(s, kind) ==
  [s EXCEPT !.taking = [kind |-> kind, seq |-> term.seq, attempt |-> 1, step |-> 1],
            !.held = TRUE, !.releasing = FALSE, !.buffer = <<>>, !.timer = FALSE,
            !.pending = <<>>, !.overflowed = FALSE]

(* Wrong variant: a viewer that is still behind gets its next snapshot. *)
MaybeResyncEarly(s) ==
  IF ~s.stale \/ s.resyncing \/ Snapshotting(s) \/ s.snapshotUnacked
  THEN s
  ELSE TakeSnapshot([s EXCEPT !.resyncing = TRUE, !.stale = FALSE], "resync")

(* A fresh snapshot once every frame and the last snapshot are acknowledged. *)
MaybeResync(s) ==
  IF ~s.stale \/ s.resyncing \/ Snapshotting(s) \/ s.snapshotUnacked \/ s.unacked > 0
  THEN s
  ELSE TakeSnapshot([s EXCEPT !.resyncing = TRUE, !.stale = FALSE], "resync")

FallBehind(s) == MaybeResync([s EXCEPT !.stale = TRUE, !.buffer = <<>>, !.timer = FALSE])

(* flush: as many frames as the buffer fills, or as bring the viewer past its window. *)
Frames(s) ==
  LET Upto(j) == IF j * Chunk < Len(s.buffer) THEN j * Chunk ELSE Len(s.buffer)
      Past(j) == s.unacked + Upto(j) > Window
      sent == {j \in 1..Len(s.buffer) : /\ (j - 1) * Chunk < Len(s.buffer)
                                        /\ \A i \in 1..(j - 1) : ~Past(i)}
  IN [j \in sent |-> [kind |-> "data", watch |-> s.watch, floor |-> s.floor, seq |-> s.buffer[Len(s.buffer)],
                      data |-> SubSeq(s.buffer, (j - 1) * Chunk + 1, Upto(j))]]

Totals(weights) ==
  LET sum[i \in 0..Len(weights)] == IF i = 0 THEN 0 ELSE sum[i - 1] + weights[i] IN sum
Total(weights) == Totals(weights)[Len(weights)]

Size(f) == IF f.kind = "data" THEN Len(f.data) ELSE 0
Chars(frames) == Total([i \in DOMAIN frames |-> Size(frames[i])])

Sent(s) ==
  LET after == [s EXCEPT !.unacked = @ + Chars(Frames(s)), !.buffer = <<>>, !.timer = FALSE]
  IN IF after.unacked > Window THEN FallBehind(after) ELSE after

(* release: what was held goes, now that the snapshot is on its way. *)
Released(s) == [s EXCEPT !.held = FALSE, !.releasing = FALSE]

(* The stream becomes s, and the frames follow what is already in the ordered send. *)
Becomes(s, frames) ==
  /\ stream' = s
  /\ out' = out \o frames

(* s, with its buffer flushed into the ordered send behind the frames. *)
Flushes(s, frames) ==
  IF s.buffer = <<>> THEN Becomes([s EXCEPT !.timer = FALSE], frames)
  ELSE Becomes(Sent(s), frames \o Frames(s))

(* enqueue, for output that comes while no snapshot is taken *)
Enqueue(s, n) ==
  LET more == [s EXCEPT !.buffer = Append(@, n)]
  IN CASE s.stale \/ n <= s.floor -> Becomes(s, <<>>)
       [] ~s.stale /\ n > s.floor /\ s.held ->
            Becomes(IF Len(more.buffer) > Window THEN FallBehind(more) ELSE more, <<>>)
       [] OTHER ->
            IF Len(more.buffer) >= Chunk THEN Flushes(more, <<>>)
            ELSE Becomes([more EXCEPT !.timer = TRUE], <<>>)

(* What a snapshot in progress may miss is kept, within the window. *)
Keep(s, n) ==
  IF s.overflowed \/ Len(s.pending) + 1 > Window
  THEN [s EXCEPT !.pending = <<>>, !.overflowed = TRUE]
  ELSE [s EXCEPT !.pending = Append(@, n)]

-----------------------------------------------------------------------------
(* The terminal. *)

Happens(event) ==
  /\ event \in Events \ happened /\ Cardinality(happened) < MaxEvents
  /\ happened' = happened \cup {event}

(* feed: a chunk of the shell's output, shown to every watcher *)
Output ==
  /\ term.open /\ term.seq < MaxOutput
  /\ term' = [term EXCEPT !.seq = @ + 1]
  /\ IF stream = Nil THEN UNCHANGED <<stream, out>>
     ELSE IF Snapshotting(stream) THEN Becomes(Keep(stream, term.seq + 1), <<>>)
     ELSE Enqueue(stream, term.seq + 1)
  /\ UNCHANGED <<serving, wire, up, viewer, happened>>

(* Wrong variant: a resize behind a held snapshot is left to that snapshot. *)
ResizeWhileHeld(s) == s

(* The viewer's next snapshot has the old geometry, so it needs another one. *)
ResizedWhileHeld(s) == [s EXCEPT !.stale = TRUE, !.buffer = <<>>]

(* resize on the desktop; onResize *)
Resize ==
  /\ term.open /\ Happens("resize")
  /\ term' = [term EXCEPT !.geometry = @ + 1]
  /\ CASE stream = Nil \/ (stream # Nil /\ (Snapshotting(stream) \/ stream.stale)) ->
            UNCHANGED <<stream, out>>
       [] OTHER ->
            IF stream.held THEN Becomes(ResizedWhileHeld(stream), <<>>)
            ELSE LET resized == <<[kind |-> "resize", geometry |-> term.geometry + 1]>>
                 IN IF stream.buffer = <<>> THEN Becomes([stream EXCEPT !.timer = FALSE], resized)
                    ELSE Becomes(Sent(stream), Frames(stream) \o resized)
  /\ UNCHANGED <<serving, wire, up, viewer>>

(* clear on the desktop; onReset(false) *)
Clear ==
  /\ term.open /\ Happens("clear")
  /\ term' = [term EXCEPT !.era = @ + 1]
  /\ stream' = IF stream = Nil THEN Nil ELSE FallBehind(stream)
  /\ UNCHANGED <<serving, out, wire, up, viewer>>

(* close on the desktop; onReset(true): a snapshot in progress fails, its watch is refused *)
CloseTab ==
  /\ term.open
  /\ term' = [term EXCEPT !.open = FALSE]
  /\ IF stream = Nil THEN UNCHANGED <<stream, out>>
     ELSE Becomes(Nil, <<[kind |-> "closed"]>>
                          \o IF Snapshotting(stream) /\ serving # Nil
                             THEN <<[kind |-> "refused", watch |-> serving]>> ELSE <<>>)
  /\ UNCHANGED <<serving, wire, up, viewer, happened>>

-----------------------------------------------------------------------------
(* The host serves one request of the browser after the other. *)

NewStream(w) ==
  [watch |-> w, floor |-> 0, taking |-> Nil, pending |-> <<>>, overflowed |-> FALSE,
   held |-> TRUE, releasing |-> FALSE, buffer |-> <<>>, timer |-> FALSE, unacked |-> 0,
   snapshotUnacked |-> FALSE, stale |-> FALSE, resyncing |-> FALSE]

Takes(kind) ==
  /\ up # <<>> /\ Head(up).kind = kind /\ serving = Nil
  /\ up' = Tail(up)

(* terminal:watch: the stream replaces the browser's former one; it is answered later. *)
Watch ==
  /\ Takes("watch")
  /\ serving' = Head(up).watch
  /\ IF term.open THEN Becomes(TakeSnapshot(NewStream(Head(up).watch), "watch"), <<>>)
     ELSE Becomes(Nil, <<[kind |-> "refused", watch |-> Head(up).watch]>>)
  /\ UNCHANGED <<term, wire, viewer, happened>>

(* terminal:unwatch *)
Unwatch ==
  /\ Takes("unwatch")
  /\ stream' = Nil
  /\ UNCHANGED <<term, serving, out, wire, viewer, happened>>

Acked(s, ack) ==
  [s EXCEPT !.unacked = IF ack.chars < @ THEN @ - ack.chars ELSE 0,
            !.snapshotUnacked = @ /\ ack.snapshot # s.floor]

(* terminal:watchAck. The timer of a watch's release is long over when an answer to it arrives. *)
Ack ==
  /\ Takes("ack")
  /\ stream # Nil => ~stream.releasing
  /\ stream' = IF stream = Nil THEN Nil ELSE MaybeResync(Acked(stream, Head(up)))
  /\ UNCHANGED <<term, serving, out, wire, viewer, happened>>

(* A candidate that does not fit is followed by one with less scrollback. *)
SnapshotTooLarge ==
  /\ stream # Nil /\ Snapshotting(stream) /\ stream.taking.step < Steps
  /\ stream' = [stream EXCEPT !.taking = [stream.taking EXCEPT !.seq = term.seq, !.step = @ + 1]]
  /\ UNCHANGED <<term, serving, out, wire, up, viewer, happened>>

(* Output outran the snapshot: it is taken again. *)
SnapshotOutrun ==
  /\ stream # Nil /\ Snapshotting(stream)
  /\ stream.overflowed /\ stream.taking.attempt < Attempts
  /\ stream' = [stream EXCEPT !.taking = [stream.taking EXCEPT !.seq = term.seq, !.step = 1, !.attempt = @ + 1],
                              !.pending = <<>>, !.overflowed = FALSE]
  /\ UNCHANGED <<term, serving, out, wire, up, viewer, happened>>

(* Wrong variant: what came while the snapshot was taken is replayed from its beginning. *)
LaterAll(s, stale) == IF stale THEN <<>> ELSE s.pending

(* What the snapshot misses, unless a resync brings all of it. Output is pending in the order of its *)
(* numbers, so what the snapshot has seen is the beginning of it.                                    *)
Later(s, stale) ==
  LET seen == {i \in DOMAIN s.pending : s.pending[i] <= s.taking.seq}
  IN IF stale THEN <<>> ELSE SubSeq(s.pending, Cardinality(seen) + 1, Len(s.pending))

(* takeSnapshot, behind its last await *)
Snapped(s) ==
  LET stale == s.overflowed \/ s.stale
  IN [s EXCEPT !.taking = Nil, !.floor = s.taking.seq, !.unacked = 0, !.snapshotUnacked = TRUE,
               !.stale = stale, !.overflowed = FALSE, !.pending = <<>>, !.buffer = Later(s, stale)]

SnapshotFrame(kind) ==
  [kind |-> kind, watch |-> stream.watch, seq |-> stream.taking.seq, era |-> term.era,
   geometry |-> term.geometry]

(* A snapshot is ready, and is answered to the watch or sent as a reset with what follows it. *)
SnapshotReady ==
  /\ stream # Nil /\ Snapshotting(stream)
  /\ stream.overflowed => stream.taking.attempt = Attempts
  /\ IF stream.taking.kind = "watch"
     THEN Becomes([Snapped(stream) EXCEPT !.releasing = TRUE], <<SnapshotFrame("answer")>>)
     ELSE Flushes(Released(Snapped(stream)), <<SnapshotFrame("reset")>>)
  /\ UNCHANGED <<term, serving, wire, up, viewer, happened>>

(* The timer of watch(): the answer is on its way. *)
Release ==
  /\ stream # Nil /\ stream.releasing
  /\ Flushes(Released(stream), <<>>)
  /\ UNCHANGED <<term, serving, wire, up, viewer, happened>>

(* The timer of enqueue() *)
FlushTimer ==
  /\ stream # Nil /\ stream.timer
  /\ Flushes(stream, <<>>)
  /\ UNCHANGED <<term, serving, wire, up, viewer, happened>>

(* sendTo: the next frame is sealed and sent. *)
Send ==
  /\ out # <<>>
  /\ out' = Tail(out)
  /\ wire' = Append(wire, Head(out))
  /\ serving' = IF Head(out).kind \in {"answer", "refused"} THEN Nil ELSE serving
  /\ stream' = IF stream # Nil /\ Head(out).kind = "reset" /\ Head(out).watch = stream.watch
               THEN MaybeResync([stream EXCEPT !.resyncing = FALSE]) ELSE stream
  /\ UNCHANGED <<term, up, viewer, happened>>

(* Output that was never sent is never acknowledged: it is taken back before the resync. *)
TakenBack(s, f) == FallBehind([s EXCEPT !.unacked = IF Len(f.data) < @ THEN @ - Len(f.data) ELSE 0])

(* sendTo: a frame of output is over the relay's limit. *)
Oversize ==
  /\ out # <<>> /\ Head(out).kind = "data" /\ Happens("refusal")
  /\ out' = Tail(out)
  /\ stream' = IF stream # Nil /\ Head(out).watch = stream.watch /\ Head(out).floor = stream.floor
               THEN TakenBack(stream, Head(out)) ELSE stream
  /\ UNCHANGED <<term, serving, wire, up, viewer>>

-----------------------------------------------------------------------------
(* The browser. *)

AsksFor(w) == [kind |-> "watch", watch |-> w]
Acks(chars, snapshot) == [kind |-> "ack", chars |-> chars, snapshot |-> snapshot]

NewView(w) == [state |-> "asking", watch |-> w, floor |-> 0, early |-> <<>>, unacked |-> 0]

(* applySnapshot *)
Applies(f) ==
  /\ view' = [view EXCEPT !.state = "watching", !.floor = f.seq, !.unacked = 0, !.early = <<>>]
  /\ screen' = [watch |-> f.watch, data |-> [i \in 1..f.seq |-> i], era |-> f.era, geometry |-> f.geometry]
  /\ up' = Append(up, Acks(0, f.seq))

Receives(kinds) == wire # <<>> /\ Head(wire).kind \in kinds
Unmoved == UNCHANGED <<term, stream, serving, out, happened>>

(* The watch is answered; what came before the answer is replayed behind it. *)
ReceiveAnswer ==
  /\ Receives({"answer"})
  /\ IF view.state = "asking" /\ Head(wire).watch = view.watch
     THEN Applies(Head(wire)) /\ wire' = view.early \o Tail(wire)
     ELSE UNCHANGED <<viewer, up>> /\ wire' = Tail(wire)
  /\ Unmoved

(* The watch is refused: the view shows the error. *)
ReceiveRefusal ==
  /\ Receives({"refused"})
  /\ view' = IF view.state = "asking" /\ Head(wire).watch = view.watch
             THEN [view EXCEPT !.state = "refused"] ELSE view
  /\ wire' = Tail(wire)
  /\ UNCHANGED <<screen, up>> /\ Unmoved

(* A frame before the answer waits for it. *)
ReceiveEarly ==
  /\ Receives({"data", "reset", "resize", "closed"})
  /\ view.state = "asking"
  /\ view' = [view EXCEPT !.early = Append(@, Head(wire))]
  /\ wire' = Tail(wire)
  /\ UNCHANGED <<screen, up>> /\ Unmoved

(* onFrame: every character counts against the window, applied or not. *)
ReceiveData ==
  /\ Receives({"data"}) /\ view.state = "watching"
  /\ view' = [view EXCEPT !.unacked = @ + Len(Head(wire).data)]
  /\ screen' = IF Head(wire).seq > view.floor THEN [screen EXCEPT !.data = @ \o Head(wire).data]
               ELSE screen
  /\ wire' = Tail(wire)
  /\ UNCHANGED up /\ Unmoved

ReceiveReset ==
  /\ Receives({"reset"}) /\ view.state = "watching"
  /\ Applies(Head(wire))
  /\ wire' = Tail(wire)
  /\ Unmoved

ReceiveResize ==
  /\ Receives({"resize"}) /\ view.state = "watching"
  /\ screen' = [screen EXCEPT !.geometry = Head(wire).geometry]
  /\ wire' = Tail(wire)
  /\ UNCHANGED <<view, up>> /\ Unmoved

(* The tab is closed: the view stops and tells the host. *)
ReceiveClosed ==
  /\ Receives({"closed"}) /\ view.state = "watching"
  /\ view' = [view EXCEPT !.state = "closed"]
  /\ up' = Append(up, [kind |-> "unwatch"])
  /\ wire' = Tail(wire)
  /\ UNCHANGED screen /\ Unmoved

(* ack: enough characters were consumed, or the timer fired. *)
SendAck ==
  /\ view.state = "watching" /\ view.unacked > 0
  /\ up' = Append(up, Acks(view.unacked, Nil))
  /\ view' = [view EXCEPT !.unacked = 0]
  /\ UNCHANGED <<term, stream, serving, out, wire, screen, happened>>

(* The user leaves the terminal and comes back to it on the same connection. *)
Reopen ==
  /\ view.state \in {"asking", "watching"} /\ Happens("reopen")
  /\ up' = up \o <<[kind |-> "unwatch"], AsksFor(view.watch + 1)>>
  /\ view' = NewView(view.watch + 1)
  /\ UNCHANGED <<term, stream, serving, out, wire, screen>>

(* The connection is lost; the host drops the stream of the ended session. *)
Disconnect ==
  /\ view.state # "lost" /\ Happens("drop")
  /\ stream' = Nil /\ serving' = Nil
  /\ out' = <<>> /\ wire' = <<>> /\ up' = <<>>
  /\ view' = [NewView(view.watch) EXCEPT !.state = IF view.state = "closed" THEN "closed" ELSE "lost"]
  /\ UNCHANGED <<term, screen>>

(* Online again: the terminal is watched again, unless its tab is closed. *)
Reconnect ==
  /\ view.state = "lost"
  /\ view' = NewView(view.watch)
  /\ up' = <<AsksFor(view.watch)>>
  /\ UNCHANGED <<term, stream, serving, out, wire, screen, happened>>

-----------------------------------------------------------------------------
TerminalInit ==
  /\ term = [seq |-> 0, era |-> 0, geometry |-> 0, open |-> TRUE]
  /\ stream = Nil /\ serving = Nil
  /\ out = <<>> /\ wire = <<>>
  /\ up = <<AsksFor(0)>>
  /\ view = NewView(0)
  /\ screen = [watch |-> 0, data |-> <<>>, era |-> 0, geometry |-> 0]
  /\ happened = {}

Desktop == Output \/ Resize \/ Clear \/ CloseTab
Host == \/ Watch \/ Unwatch \/ Ack
        \/ SnapshotTooLarge \/ SnapshotOutrun \/ SnapshotReady \/ Release \/ FlushTimer
        \/ Send
Receive == \/ ReceiveAnswer \/ ReceiveRefusal \/ ReceiveEarly \/ ReceiveData \/ ReceiveReset
           \/ ReceiveResize \/ ReceiveClosed
Browser == Receive \/ SendAck \/ Reopen

TerminalNext == Desktop \/ Host \/ Oversize \/ Browser \/ Disconnect \/ Reconnect

TerminalSpec == TerminalInit /\ [][TerminalNext]_terminalVars

(* Requests, promises and timers of the host go on, frames arrive, the browser's timer fires and   *)
(* a lost connection comes back. Nothing is assumed of the shell or of the users.                  *)
FairTerminalSpec == TerminalSpec /\ WF_terminalVars(Host) /\ WF_terminalVars(Receive) /\ WF_terminalVars(SendAck) /\ WF_terminalVars(Reconnect)
-----------------------------------------------------------------------------
(* What the screen shows is a beginning of the output, without a gap and without a repetition. *)
Whole == screen.data = [i \in 1..Len(screen.data) |-> i]

Current == Whole /\ Len(screen.data) = term.seq /\ screen.era = term.era
                 /\ screen.geometry = term.geometry

(* REMOTE-ACCESS.md "Exactly once across the snapshot": snapshots and output reach the screen over *)
(* two paths and fit together. Excepted is a view that shows a reset of an earlier watch, and one   *)
(* that waits for its resync after a frame the relay's limit refused.                              *)
ScreenIsWhole ==
  view.state = "watching" /\ screen.watch = view.watch /\ "refusal" \notin happened => Whole

Snapshots(frames) ==
  Total([i \in DOMAIN frames |-> IF frames[i].kind \in {"answer", "reset"} THEN 1 ELSE 0])

AckedChars == Total([i \in DOMAIN up |-> IF up[i].kind = "ack" THEN up[i].chars ELSE 0])
AckedSnapshots ==
  Total([i \in DOMAIN up |-> IF up[i].kind = "ack" /\ up[i].snapshot # Nil THEN 1 ELSE 0])

(* terminal-streams.ts, the invariants at its head: a browser's first watch counts as unacknowledged *)
(* what is on its way, held by the viewer or being acknowledged, so acknowledgements always refer to *)
(* the current floor; and at most one snapshot is unacknowledged.                                    *)
AcksMeetTheFloor ==
  stream # Nil /\ stream.watch = 0 /\ view.watch = 0 =>
    /\ stream.unacked = Chars(out) + Chars(wire) + Chars(view.early) + view.unacked + AckedChars
    /\ Snapshots(out) + Snapshots(wire) + Snapshots(view.early) + AckedSnapshots
         = IF stream.snapshotUnacked THEN 1 ELSE 0

(* The two ends of a terminal agree: on what the screen shows, and on what is still on its way. *)
EndsAgree == ScreenIsWhole /\ AcksMeetTheFloor

(* However the output floods, the desktop clears or resizes and the connection drops: a view that is *)
(* left open ends up showing the terminal as it is. The reset of an earlier watch is excepted again. *)
CatchesUp ==
  <>[](/\ term.open
       /\ view.state = "watching" => screen.watch = view.watch
       => view.state = "watching" /\ Current)
=============================================================================
