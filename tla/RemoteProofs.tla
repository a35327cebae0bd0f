---------------------------- MODULE RemoteProofs ----------------------------
(***************************************************************************)
(* Proofs about RemoteConnection and RemoteTerminal.                       *)
(*                                                                         *)
(* The connection, for any sockets and any bounds: the desktop keeps no    *)
(* session and no stream beyond its pairing or socket; a browser that      *)
(* shows it online shares a session with it and holds the newest mirror    *)
(* key, once everything under way is over.                                 *)
(*                                                                         *)
(* A terminal, for any window, chunk, scrollback and bounds: the screen    *)
(* shows a beginning of the output, and what the host counts as            *)
(* unacknowledged is on its way, held or being acknowledged.  The frames   *)
(* on their way are one sequence, Path: those held for the answer to a     *)
(* watch, those on the wire and those in the ordered send.  A step of the  *)
(* host appends to it (Extends), a step of the browser takes one frame     *)
(* from it (Skips); the parts of TerminalInv are shown for each of the     *)
(* two, and the actions are instances of them.                             *)
(***************************************************************************)
EXTENDS RemoteConnection, RemoteTerminal, FiniteSetTheorems, WellFoundedInduction, TLAPS

Kinds == {"hs", "watch", "gone", "answer"}
Message == [kind : Kinds, id : Sockets \cup {None}, on : HostSockets]

(* A message of the chain was received over a socket of the desktop. *)
SourcesOK ==
  /\ sock \in Sockets \cup {None} /\ session \in Sockets \cup {None}
  /\ hosts \subseteq HostSockets
  /\ incoming \in Seq(Message)
  /\ running \subseteq Message

(* ... hence a session is over a socket, and none is left when the host has none. *)
SessionInv ==
  /\ SourcesOK
  /\ hsession # None => hsession.on \in HostSockets
  /\ SessionsEnd

-----------------------------------------------------------------------------
LEMMA AppendKeepsMessages ==
  ASSUME SourcesOK, ws \in hosts, NEW kind \in Kinds, NEW s \in Sockets \cup {None}
  PROVE  Append(incoming, [kind |-> kind, id |-> s, on |-> ws]) \in Seq(Message)
<1> DEFINE m == [kind |-> kind, id |-> s, on |-> ws]
<1>1. m \in Message
  BY DEF SourcesOK, Message
<1>2. incoming \in Seq(Message)
  BY DEF SourcesOK
<1> HIDE DEF m
<1>3. Append(incoming, m) \in Seq(Message)
  BY <1>1, <1>2
<1> QED BY <1>3 DEF m

LEMMA ToBrowserKeepsMessages ==
  ASSUME SourcesOK, NEW ACTION reaches, ToBrowser(reaches)
  PROVE  incoming' \in Seq(Message)
<1>1. ws \in hosts => Append(incoming, [kind |-> "gone", id |-> None, on |-> ws]) \in Seq(Message)
  BY AppendKeepsMessages DEF Kinds
<1>2. incoming \in Seq(Message)
  BY DEF SourcesOK
<1> QED BY <1>1, <1>2 DEF ToBrowser, Arrives

LEMMA ReplyKeepsSockets ==
  ASSUME SourcesOK, NEW s, ToBrowser(TakesReply(s))
  PROVE  sock' = sock /\ session' = session
BY DEF ToBrowser, TakesReply, browser

LEMMA FrameKeepsSockets ==
  ASSUME SourcesOK, NEW f, ToBrowser(TakesFrame(f))
  PROVE  sock' = sock /\ session' = session
BY DEF ToBrowser, TakesFrame, browser

LEMMA ReadyTakesOne ==
  ASSUME SourcesOK, Ready
  PROVE  incoming' \in Seq(Message) /\ Head(incoming) \in Message
BY DEF Ready, SourcesOK

-----------------------------------------------------------------------------
(* The steps of the browser, the network and the hub leave the desktop alone but for its messages. *)
Elsewhere ==
  /\ UNCHANGED <<ws, running, hsession, streamed, paired>>
  /\ SourcesOK'

LEMMA ElsewherePreserves == ASSUME SessionInv, Elsewhere PROVE SessionInv'
BY DEF SessionInv, SessionsEnd, Elsewhere

LEMMA ConnectsElsewhere == ASSUME SessionInv, Connects PROVE Elsewhere
BY DEF SessionInv, SourcesOK, Connects, Elsewhere, host

LEMMA BrowserElsewhere ==
  ASSUME SessionInv,
         RetryTimer \/ Wake \/ TicketFails \/ Connecting \/ Drops \/ Asks
  PROVE  Elsewhere
<1>1. CASE RetryTimer
  BY <1>1, ConnectsElsewhere DEF RetryTimer, SessionInv, SourcesOK, Elsewhere, host
<1>2. CASE Wake
  BY <1>2, ConnectsElsewhere DEF Wake
<1>3. CASE TicketFails \/ Drops
  BY <1>3 DEF TicketFails, Drops, SessionInv, SourcesOK, Elsewhere, host
<1>4. CASE Connecting
  <2>1. CASE TicketDenied \/ HandshakeTimesOut \/ Finishes \/ Mirrored
    BY <2>1 DEF TicketDenied, HandshakeTimesOut, Finishes, Mirrored, SessionInv, SourcesOK,
                Elsewhere, host
  <2>2. CASE \E s \in Sockets : Opens(s)
    BY <2>2 DEF Opens, SessionInv, SourcesOK, Elsewhere, host
  <2>3. CASE Greets
    <3>1. ws \in hosts => Append(incoming, [kind |-> "hs", id |-> sock, on |-> ws]) \in Seq(Message)
      BY AppendKeepsMessages DEF SessionInv, SourcesOK, Kinds
    <3>2. incoming' \in Seq(Message)
      BY <2>3, <3>1 DEF Greets, Arrives, SessionInv, SourcesOK
    <3> QED BY <2>3, <3>2 DEF Greets, SessionInv, SourcesOK, Elsewhere
  <2> QED BY <1>4, <2>1, <2>2, <2>3 DEF Connecting
<1>5. CASE Asks
  <2>1. ws \in hosts => Append(incoming, [kind |-> "watch", id |-> session, on |-> ws]) \in Seq(Message)
    BY AppendKeepsMessages DEF SessionInv, SourcesOK, Kinds
  <2>2. incoming' \in Seq(Message)
    BY <1>5, <2>1 DEF Asks, Arrives, SessionInv, SourcesOK
  <2> QED BY <1>5, <2>2 DEF Asks, SessionInv, SourcesOK, Elsewhere
<1> QED BY <1>1, <1>2, <1>3, <1>4, <1>5

LEMMA NetworkElsewhere ==
  ASSUME SessionInv,
         \/ \E s \in Sockets \cup HostSockets : Breaks(s)
         \/ \E s \in Sockets : HubLosesClient(s)
         \/ \E l \in HostSockets : HubLosesHost(l)
         \/ Revoke
  PROVE  Elsewhere
<1>1. CASE (\E s \in Sockets \cup HostSockets : Breaks(s)) \/ Revoke
  BY <1>1 DEF Breaks, Revoke, SessionInv, SourcesOK, Elsewhere, host, browser
<1>2. CASE \E s \in Sockets : HubLosesClient(s)
  <2>1. ws \in hosts => Append(incoming, [kind |-> "gone", id |-> None, on |-> ws]) \in Seq(Message)
    BY AppendKeepsMessages DEF SessionInv, Kinds
  <2>2. incoming' \in Seq(Message)
    BY <1>2, <2>1 DEF HubLosesClient, Arrives, SessionInv, SourcesOK
  <2> QED BY <1>2, <2>2 DEF HubLosesClient, SessionInv, SourcesOK, Elsewhere, browser
<1>3. CASE \E l \in HostSockets : HubLosesHost(l)
  BY <1>3 DEF HubLosesHost, HostGone, SessionInv, SourcesOK, Elsewhere, host
<1> QED BY <1>1, <1>2, <1>3

-----------------------------------------------------------------------------
LEMMA HandlingPreserves == ASSUME SessionInv, Handling PROVE SessionInv'
<1>1. CASE BeginsTask
  BY <1>1, ReadyTakesOne
     DEF BeginsTask, Started, HostRest, SessionInv, SessionsEnd, SourcesOK, browser
<1>2. CASE ClientGone
  BY <1>2, ReadyTakesOne
     DEF ClientGone, Forgets, HostRest, SessionInv, SessionsEnd, SourcesOK, browser
<1>3. ASSUME NEW r \in running, Accepts(r) PROVE SessionInv'
  <2>1. r.on \in HostSockets
    BY DEF SessionInv, SourcesOK, Message
  <2>2. SourcesOK'
    <3>1. sock' = sock /\ session' = session /\ incoming' \in Seq(Message)
      BY <1>3, ReplyKeepsSockets, ToBrowserKeepsMessages DEF Accepts, SessionInv, SourcesOK, browser
    <3> QED BY <1>3, <3>1 DEF Accepts, SessionInv, SourcesOK
  <2>3. hsession' # None => hsession'.on \in HostSockets /\ paired' /\ hsession'.on = ws'
    BY <1>3, <2>1 DEF Accepts, SessionInv, SessionsEnd
  <2>4. streamed' # None => hsession' # None /\ streamed' = hsession'.id
    BY <1>3 DEF Accepts, SessionInv, SessionsEnd
  <2> QED BY <2>2, <2>3, <2>4 DEF SessionInv, SessionsEnd
<1>4. ASSUME NEW r \in running, Watches(r) PROVE SessionInv'
  <2>0. r \in Message
    BY DEF SessionInv, SourcesOK
  <2>1. [r EXCEPT !.kind = "answer"] \in Message
    BY <2>0 DEF Message, Kinds
  <2> QED BY <1>4, <2>1 DEF Watches, HostRest, SessionInv, SessionsEnd, SourcesOK, browser
<1>5. ASSUME NEW r \in running, Answers(r) PROVE SessionInv'
  BY <1>5 DEF Answers, HostRest, SessionInv, SessionsEnd, SourcesOK, browser
<1> QED BY <1>1, <1>2, <1>3, <1>4, <1>5 DEF Handling

LEMMA HostPreserves ==
  ASSUME SessionInv,
         \/ HostDrops
         \/ \E l \in HostSockets : HostConnects(l)
         \/ Sends \/ Reconciles \/ OtherForgotten \/ Rotating
  PROVE  SessionInv'
<1>1. CASE HostDrops
  BY <1>1 DEF HostDrops, Forgets, SessionInv, SessionsEnd, SourcesOK, browser
<1>2. CASE \E l \in HostSockets : HostConnects(l)
  BY <1>2, ConnectionAssumption DEF HostConnects, SessionInv, SessionsEnd, SourcesOK, browser
<1>3. CASE Sends
  <2>1. sock' = sock /\ session' = session /\ incoming' \in Seq(Message)
    BY <1>3, FrameKeepsSockets, ToBrowserKeepsMessages DEF Sends, SessionInv
  <2> QED BY <1>3, <2>1 DEF Sends, SessionInv, SessionsEnd, SourcesOK
<1>4. CASE Reconciles
  BY <1>4 DEF Reconciles, Forgets, SessionInv, SessionsEnd, SourcesOK, browser
<1>5. CASE OtherForgotten \/ Rotating
  BY <1>5 DEF OtherForgotten, Rotating, NewKey, HandsOut, SessionInv, SessionsEnd, SourcesOK, browser
<1> QED BY <1>1, <1>2, <1>3, <1>4, <1>5

(* The desktop keeps a session only for a paired browser and over its own socket, and streams only  *)
(* to the session it has (onHandshake, onFrame, dropClients): SessionsEnd holds of every behaviour. *)
THEOREM SessionsEndWithTheirSocket == Spec => []SessionsEnd
<1>1. Init => SessionInv
  BY DEF Init, SessionInv, SessionsEnd, SourcesOK
<1>2. SessionInv /\ [Next]_vars => SessionInv'
  <2> SUFFICES ASSUME SessionInv, [Next]_vars PROVE SessionInv'
    OBVIOUS
  <2>1. CASE UNCHANGED vars
    BY <2>1 DEF vars, browser, host, SessionInv, SessionsEnd, SourcesOK
  <2>2. CASE Next
    BY <2>2, BrowserElsewhere, NetworkElsewhere, ElsewherePreserves, HandlingPreserves, HostPreserves
       DEF Next
  <2> QED BY <2>1, <2>2
<1>3. SessionInv => SessionsEnd
  BY DEF SessionInv
<1> QED BY <1>1, <1>2, <1>3, PTL DEF Spec
-----------------------------------------------------------------------------
(* The second part: what both ends hold once everything under way is over, when the hub learns of  *)
(* a closed socket before the browser opens the next.                                              *)

Frame == [kind : {"key", "rekey", "result"}, id : Sockets, key : Nat]

(* The browser's living socket is the only one the hub has, and its session is the socket's own.    *)
BrowserOK ==
  /\ clients \subseteq Sockets
  /\ Up(sock) => registered /\ clients = {sock}
  /\ session # None => session = sock /\ stage = "idle"
  /\ page = "online" => session # None /\ stage = "idle"
  /\ stage = "finishing" => reply # None

Hello(m) == m.kind = "hs" /\ m.id = sock
Benign(m) == m.kind # "gone" /\ (m.kind = "hs" => m.id = sock)
AllBenign == \A i \in DOMAIN incoming : Benign(incoming[i])

(* Nothing that the desktop hears after the hello of a living socket ends the session it sets up. *)
ChainOK ==
  /\ \A i \in DOMAIN incoming : incoming[i].kind = "hs" => incoming[i].id # None
  /\ \A r \in running : r.kind = "hs" => r.id # None
  /\ \A q, r \in running : q.on = ws /\ r.on = ws => q = r
  /\ Up(sock) => \A i, j \in DOMAIN incoming : i < j /\ Hello(incoming[i]) => Benign(incoming[j])
  /\ Up(sock) /\ (\E r \in running : r.on = ws /\ Hello(r)) => AllBenign

(* The browser has the answer to its hello, and no socket of the desktop is about to be missed. *)
Talking ==
  /\ Up(sock) /\ hosts \cap dead = {}
  /\ session = sock \/ (stage = "finishing" /\ reply = sock)

(* ... which the desktop does not forget. *)
Attended ==
  /\ ws \in hosts
  /\ hsession # None /\ hsession.id = sock
  /\ AllBenign
  /\ \A r \in running : r.on = ws /\ r.kind = "hs" => r.id = sock

(* Frames are of the session there is, and no key is followed by an older one. *)
FramesOK ==
  /\ mirrorKey \in Nat
  /\ early \in Seq(Frame) /\ outgoing \in Seq(Frame)
  /\ hsession # None => hsession.id \in Sockets
  /\ \A i \in DOMAIN early : early[i].key <= mirrorKey
  /\ \A i \in DOMAIN outgoing :
       hsession # None /\ outgoing[i].id = hsession.id /\ outgoing[i].key <= mirrorKey
  /\ \A i, j \in DOMAIN outgoing :
       i < j /\ outgoing[i].kind # "result" /\ outgoing[j].kind # "result"
         => outgoing[i].key <= outgoing[j].key

Holds == IF session = sock THEN key = mirrorKey ELSE mirrorKey \in EarlyKeys(sock)

(* The newest key is under way, or the browser has it and no key is under way. *)
Informed ==
  \/ \E i \in DOMAIN outgoing : outgoing[i].kind # "result" /\ outgoing[i].key = mirrorKey
  \/ Holds /\ \A i \in DOMAIN outgoing : outgoing[i].kind = "result"

LinkInv ==
  /\ SessionInv
  /\ BrowserOK /\ ChainOK /\ FramesOK
  /\ Talking => Attended
  /\ Talking /\ rotating # "clearing" => Informed

-----------------------------------------------------------------------------
LEMMA TailFacts ==
  ASSUME NEW T, NEW s \in Seq(T), s # <<>>
  PROVE  /\ Tail(s) \in Seq(T) /\ 1 \in DOMAIN s /\ Head(s) = s[1] /\ s[1] \in T
         /\ \A i \in DOMAIN Tail(s) : i \in Nat /\ i + 1 \in DOMAIN s /\ Tail(s)[i] = s[i + 1]
         /\ \A i \in DOMAIN s : i \in Nat /\ (i = 1 \/ (i - 1 \in DOMAIN Tail(s) /\ i - 1 \in Nat))
OBVIOUS

LEMMA AppendFacts ==
  ASSUME NEW T, NEW s \in Seq(T), NEW e \in T
  PROVE  /\ Append(s, e) \in Seq(T) /\ Len(s) \in Nat
         /\ DOMAIN s = 1..Len(s) /\ DOMAIN Append(s, e) = 1..(Len(s) + 1)
         /\ Append(s, e)[Len(s) + 1] = e
         /\ \A i \in DOMAIN s : Append(s, e)[i] = s[i]
OBVIOUS

(* What comes in is no hello of nobody, and harmless while the browser's socket lives. *)
Hears ==
  \/ incoming' = incoming
  \/ \E m \in Message : /\ incoming' = Append(incoming, m)
                        /\ m.kind = "hs" => m.id # None
                        /\ Up(sock)' => Benign(m)'

SameSocket == Up(sock)' => sock' = sock /\ Up(sock)

LEMMA HearsKeepsBenign ==
  ASSUME SourcesOK, Hears, sock' = sock, Up(sock)', AllBenign
  PROVE  AllBenign'
<1>1. CASE incoming' = incoming
  BY <1>1 DEF AllBenign, Benign
<1>2. ASSUME NEW m \in Message, incoming' = Append(incoming, m), Up(sock)' => Benign(m)'
      PROVE  AllBenign'
  <2> SUFFICES ASSUME NEW i \in DOMAIN incoming' PROVE Benign(incoming[i])'
    BY DEF AllBenign
  <2>1. incoming \in Seq(Message)
    BY DEF SourcesOK
  <2>2. \/ i \in DOMAIN incoming /\ incoming'[i] = incoming[i]
        \/ incoming'[i] = m
    BY <1>2, <2>1, AppendFacts
  <2> QED BY <1>2, <2>2 DEF AllBenign, Benign
<1> QED BY <1>1, <1>2 DEF Hears

LEMMA HearsKeepsChain ==
  ASSUME SourcesOK, ChainOK, Hears, SameSocket, ws' = ws, running' \subseteq running
  PROVE  ChainOK'
<1>1. CASE incoming' = incoming
  BY <1>1 DEF ChainOK, SameSocket, AllBenign, Benign, Hello
<1>2. ASSUME NEW m \in Message, incoming' = Append(incoming, m), m.kind = "hs" => m.id # None,
             Up(sock)' => Benign(m)'
      PROVE  ChainOK'
  <2>1. incoming \in Seq(Message)
    BY DEF SourcesOK
  <2>2. \A i \in DOMAIN incoming' : \/ i \in DOMAIN incoming /\ incoming'[i] = incoming[i]
                                    \/ i = Len(incoming) + 1 /\ incoming'[i] = m
    BY <1>2, <2>1, AppendFacts
  <2>3. \A i \in DOMAIN incoming' : incoming'[i].kind = "hs" => incoming'[i].id # None
    BY <1>2, <2>2 DEF ChainOK
  <2>4. ASSUME Up(sock)', NEW i \in DOMAIN incoming', NEW j \in DOMAIN incoming',
               i < j, Hello(incoming[i])'
        PROVE  Benign(incoming[j])'
    <3>1. sock' = sock /\ Up(sock)
      BY <2>4 DEF SameSocket
    <3>2. CASE incoming'[j] = m
      BY <1>2, <2>4, <3>2
    <3>3. CASE j \in DOMAIN incoming /\ incoming'[j] = incoming[j]
      <4>1. DOMAIN incoming = 1..Len(incoming) /\ Len(incoming) \in Nat
        BY <2>1
      <4>2. i \in DOMAIN incoming /\ incoming'[i] = incoming[i]
        BY <2>2, <2>4, <3>3, <4>1
      <4>3. Hello(incoming[i])
        BY <2>4, <3>1, <4>2 DEF Hello
      <4>4. Benign(incoming[j])
        BY <2>4, <3>1, <3>3, <4>2, <4>3 DEF ChainOK
      <4> QED BY <3>1, <3>3, <4>4 DEF Benign
    <3> QED BY <2>2, <3>2, <3>3
  <2>5. Up(sock)' /\ (\E r \in running' : r.on = ws' /\ Hello(r)') => AllBenign'
    <3> SUFFICES ASSUME Up(sock)', NEW r \in running, r.on = ws, Hello(r)' PROVE AllBenign'
      OBVIOUS
    <3>1. sock' = sock /\ Up(sock)
      BY DEF SameSocket
    <3>2. AllBenign
      BY <3>1 DEF ChainOK, Hello
    <3> QED BY <3>1, <3>2, HearsKeepsBenign
  <2> QED BY <2>3, <2>4, <2>5 DEF ChainOK
<1> QED BY <1>1, <1>2 DEF Hears

(* A step of the browser, the network or the hub: it tells the desktop something at the most, and *)
(* makes nobody believe in a session that was not there.                                          *)
Quiet ==
  /\ Elsewhere
  /\ UNCHANGED <<outgoing, mirrorKey, rotating>>
  /\ Hears /\ SameSocket /\ BrowserOK'
  /\ early' \in {early, <<>>}
  /\ Talking' => Talking /\ UNCHANGED <<hosts, session, key, early>>

LEMMA QuietKeepsLink ==
  ASSUME LinkInv, Quiet
  PROVE  LinkInv'
<1>1. SessionInv'
  BY ElsewherePreserves DEF LinkInv, Quiet
<1>2. ChainOK'
  BY HearsKeepsChain DEF LinkInv, Quiet, SessionInv, Elsewhere
<1>3. FramesOK'
  <2>1. CASE early' = early
    BY <2>1 DEF LinkInv, FramesOK, Quiet, Elsewhere
  <2>2. CASE early' = <<>>
    <3>1. <<>> \in Seq(Frame) /\ DOMAIN <<>> = {}
      OBVIOUS
    <3>2. early' \in Seq(Frame) /\ \A i \in DOMAIN early' : early'[i].key <= mirrorKey'
      BY <2>2, <3>1
    <3> QED BY <3>2 DEF LinkInv, FramesOK, Quiet, Elsewhere
  <2> QED BY <2>1, <2>2 DEF Quiet
<1>4. Talking' => Attended'
  <2> SUFFICES ASSUME Talking' PROVE Attended'
    OBVIOUS
  <2>1. Up(sock)' /\ sock' = sock
    BY DEF Talking, Quiet, SameSocket
  <2>2. Talking /\ hosts' = hosts
    BY DEF Quiet
  <2>3. Attended
    BY <2>2 DEF LinkInv
  <2>4. AllBenign'
    BY <2>1, <2>3, HearsKeepsBenign DEF Attended, LinkInv, SessionInv, Quiet
  <2> QED BY <2>1, <2>2, <2>3, <2>4 DEF Attended, Quiet, Elsewhere
<1>5. Talking' /\ rotating' # "clearing" => Informed'
  <2> SUFFICES ASSUME Talking', rotating' # "clearing" PROVE Informed'
    OBVIOUS
  <2>1. sock' = sock
    BY DEF Talking, Quiet, SameSocket
  <2>2. Informed
    BY DEF LinkInv, Quiet
  <2>3. Holds => Holds'
    BY <2>1 DEF Holds, EarlyKeys, Quiet
  <2> QED BY <2>2, <2>3 DEF Informed, Quiet
<1> QED BY <1>1, <1>2, <1>3, <1>4, <1>5 DEF LinkInv, Quiet

-----------------------------------------------------------------------------
(* A message that arrives is one that the socket of the desktop brings. *)
LEMMA ArrivesHeard ==
  ASSUME SourcesOK, NEW kind \in Kinds, NEW s \in Sockets \cup {None}, Arrives(kind, s),
         kind = "hs" => s # None,
         Up(sock)' => kind # "gone" /\ (kind = "hs" => s = sock')
  PROVE  Hears
<1> DEFINE m == [kind |-> kind, id |-> s, on |-> ws]
<1>1. CASE ws \in hosts /\ Up(ws)
  <2>1. m \in Message
    BY <1>1 DEF SourcesOK, Message
  <2>2. incoming' = Append(incoming, m)
    BY <1>1 DEF Arrives
  <2>3. m.kind = kind /\ m.id = s
    OBVIOUS
  <2> HIDE DEF m
  <2> QED BY <2>1, <2>2, <2>3 DEF Hears, Benign
<1>2. CASE ~(ws \in hosts /\ Up(ws))
  BY <1>2 DEF Arrives, Hears
<1> QED BY <1>1, <1>2

LEMMA ConnectsQuiet ==
  ASSUME LinkInv, Connects
  PROVE  Quiet
<1>1. Elsewhere
  BY ConnectsElsewhere DEF LinkInv
<1>2. ~Up(sock)' /\ session' = None /\ page' = "connecting" /\ stage' = "ticket"
  BY DEF Connects, Up
<1>3. BrowserOK'
  BY <1>2 DEF LinkInv, BrowserOK, Connects
<1> QED BY <1>1, <1>2, <1>3 DEF Quiet, Connects, host, Hears, SameSocket, Talking

LEMMA BrowserQuiet ==
  ASSUME LinkInv,
         \/ RetryTimer \/ Wake \/ TicketFails \/ Drops
         \/ TicketDenied \/ HandshakeTimesOut \/ Mirrored
  PROVE  Quiet
<1>1. Elsewhere
  BY BrowserElsewhere DEF LinkInv, Connecting
<1>2. CASE RetryTimer
  BY <1>1, <1>2, ConnectsQuiet
     DEF RetryTimer, Quiet, host, Hears, SameSocket, Talking, Up, LinkInv, BrowserOK
<1>3. CASE Wake
  BY <1>3, ConnectsQuiet DEF Wake
<1>4. CASE TicketFails \/ TicketDenied \/ HandshakeTimesOut \/ Mirrored
  <2>1. /\ UNCHANGED <<sock, session, reply, early, key, dead, clients, hosts, registered, host>>
        /\ page' # "online" \/ page' = page
        /\ stage \in {"ticket", "waiting", "mirror"} /\ stage' \in {"idle", "mirror"}
    BY <1>4 DEF TicketFails, TicketDenied, HandshakeTimesOut, Mirrored
  <2>2. session = None /\ page # "online"
    BY <2>1 DEF LinkInv, BrowserOK
  <2>3. BrowserOK'
    BY <2>1, <2>2 DEF LinkInv, BrowserOK, Up
  <2>4. ~Talking'
    BY <2>1, <2>2 DEF Talking, Up
  <2> QED BY <1>1, <2>1, <2>3, <2>4 DEF Quiet, host, Hears, SameSocket, Up
<1>5. CASE Drops
  <2>1. ~Up(sock)'
    BY <1>5 DEF Drops, Up
  <2>2. BrowserOK'
    BY <1>5, <2>1 DEF LinkInv, BrowserOK, Drops
  <2> QED BY <1>1, <1>5, <2>1, <2>2 DEF Quiet, Drops, host, Hears, SameSocket, Talking
<1> QED BY <1>2, <1>3, <1>4, <1>5

LEMMA GreetsQuiet ==
  ASSUME LinkInv, Greets
  PROVE  Quiet
<1>1. Elsewhere
  BY BrowserElsewhere DEF LinkInv, Connecting
<1>2. /\ UNCHANGED <<page, retry, sock, session, reply, early, key, clients, hosts, registered, outgoing,
                     mirrorKey, rotating>>
      /\ stage = "hello" /\ stage' \in {"waiting", "mirror"} /\ dead \subseteq dead'
  BY DEF Greets
<1>3. session = None /\ page # "online"
  BY <1>2 DEF LinkInv, BrowserOK
<1>4. SameSocket
  BY <1>2 DEF SameSocket, Up
<1>5. BrowserOK'
  BY <1>2, <1>3, <1>4 DEF LinkInv, BrowserOK, SameSocket
<1>6. ~Talking'
  BY <1>2, <1>3 DEF Talking, Up
<1>7. Hears
  <2>1. CASE incoming' = incoming
    BY <2>1 DEF Hears
  <2>2. CASE Up(sock) /\ Arrives("hs", sock)
    <3>1. sock \in Sockets \cup {None} /\ sock # None /\ SourcesOK
      BY <2>2 DEF LinkInv, SessionInv, SourcesOK, Up
    <3> QED BY <1>2, <2>2, <3>1, ArrivesHeard DEF Kinds
  <2> QED BY <2>1, <2>2 DEF Greets
<1> QED BY <1>1, <1>2, <1>4, <1>5, <1>6, <1>7 DEF Quiet

LEMMA AsksQuiet ==
  ASSUME LinkInv, Asks
  PROVE  Quiet
<1>1. Elsewhere
  BY BrowserElsewhere DEF LinkInv
<1>2. /\ UNCHANGED <<page, retry, sock, session, reply, early, key, clients, hosts, registered, outgoing,
                     mirrorKey, rotating>>
      /\ session # None /\ dead \subseteq dead'
      /\ stage' = stage \/ stage = "waiting"
  BY DEF Asks, HostGone
<1>3. stage = "idle" /\ stage' = "idle" /\ session = sock
  BY <1>2 DEF LinkInv, BrowserOK
<1>4. SameSocket
  BY <1>2 DEF SameSocket, Up
<1>5. BrowserOK'
  BY <1>2, <1>3, <1>4 DEF LinkInv, BrowserOK, SameSocket
<1>6. Talking' => Talking
  BY <1>2, <1>3 DEF Talking, Up
<1>7. Hears
  <2>1. CASE incoming' = incoming
    BY <2>1 DEF Hears
  <2>2. CASE Arrives("watch", session)
    <3>1. session \in Sockets \cup {None} /\ SourcesOK
      BY DEF LinkInv, SessionInv, SourcesOK
    <3> QED BY <2>2, <3>1, ArrivesHeard DEF Kinds
  <2> QED BY <2>1, <2>2 DEF Asks
<1> QED BY <1>1, <1>2, <1>4, <1>5, <1>6, <1>7 DEF Quiet

(* A new socket is opened when nothing refers to its name and the hub has no other one. *)
LEMMA OpensKeepsLink ==
  ASSUME LinkInv, StaleCloses = FALSE, NEW s \in Sockets, Opens(s)
  PROVE  LinkInv'
<1>1. Elsewhere
  BY BrowserElsewhere DEF LinkInv, Connecting
<1>2. session = None /\ page # "online" /\ s # None
  BY ConnectionAssumption DEF Opens, LinkInv, BrowserOK
<1>3. SessionInv'
  BY <1>1, ElsewherePreserves DEF LinkInv
<1>4. BrowserOK'
  <2>1. clients' = {s}
    BY DEF Opens
  <2> QED BY <1>2, <2>1 DEF BrowserOK, Opens
<1>5. ChainOK'
  <2>1. \A i \in DOMAIN incoming : incoming[i].id # s
    BY DEF Opens, Named
  <2>2. \A r \in running : r.id # s
    BY DEF Opens, Named
  <2>3. incoming' = incoming /\ running' = running /\ ws' = ws /\ sock' = s
    BY DEF Opens, host
  <2> QED BY <2>1, <2>2, <2>3 DEF ChainOK, Hello, LinkInv
<1>6. FramesOK'
  BY DEF LinkInv, FramesOK, Opens, host
<1>7. ~Talking'
  BY <1>2 DEF Talking, Opens
<1> QED BY <1>3, <1>4, <1>5, <1>6, <1>7 DEF LinkInv

LEMMA FinishesKeepsLink ==
  ASSUME LinkInv, Finishes
  PROVE  LinkInv'
<1>1. Elsewhere
  BY BrowserElsewhere DEF LinkInv, Connecting
<1>2. /\ UNCHANGED <<retry, sock, dead, clients, hosts, registered, host, faults>>
      /\ stage = "finishing" /\ session = None /\ page # "online" /\ reply # None
  BY DEF Finishes, LinkInv, BrowserOK
<1>3. Hears /\ SameSocket
  BY <1>2 DEF Hears, SameSocket, Up, host
<1>4. CASE reply # sock /\ stage' = "mirror" /\ UNCHANGED <<page, session, early, key>>
  <2>1. BrowserOK'
    BY <1>2, <1>4 DEF LinkInv, BrowserOK, Up
  <2>2. ~Talking'
    BY <1>2, <1>4 DEF Talking, Up
  <2>3. Quiet
    BY <1>1, <1>2, <1>3, <1>4, <2>1, <2>2 DEF Quiet, host
  <2> QED BY <2>3, QuietKeepsLink
<1>5. CASE /\ reply = sock
           /\ session' = sock /\ early' = <<>>
           /\ stage' = "idle" /\ page' = "online"
           /\ key' = IF EarlyKeys(sock) = {} THEN key
                     ELSE CHOOSE k \in EarlyKeys(sock) : \A l \in EarlyKeys(sock) : l <= k
  <2>1. SessionInv'
    BY <1>1, ElsewherePreserves DEF LinkInv
  <2>2. BrowserOK'
    BY <1>2, <1>5 DEF LinkInv, BrowserOK, Up
  <2>3. ChainOK'
    BY <1>2, <1>3, HearsKeepsChain DEF LinkInv, SessionInv, host
  <2>4. FramesOK'
    <3>1. <<>> \in Seq(Frame) /\ DOMAIN <<>> = {}
      OBVIOUS
    <3>2. early' \in Seq(Frame) /\ \A i \in DOMAIN early' : early'[i].key <= mirrorKey'
      BY <1>5, <3>1
    <3> QED BY <1>2, <3>2 DEF LinkInv, FramesOK, host
  <2>5. Talking' => Talking
    BY <1>2, <1>5 DEF Talking, Up
  <2>6. Talking' => Attended'
    BY <1>2, <2>5 DEF LinkInv, Attended, AllBenign, Benign, host
  <2>7. mirrorKey \in EarlyKeys(sock) => key' = mirrorKey
    <3> SUFFICES ASSUME mirrorKey \in EarlyKeys(sock) PROVE key' = mirrorKey
      OBVIOUS
    <3> DEFINE E == EarlyKeys(sock)
               k == CHOOSE k \in E : \A l \in E : l <= k
    <3>0. \A i \in DOMAIN early : early[i] \in Frame /\ early[i].key <= mirrorKey
      BY DEF LinkInv, FramesOK
    <3>1. \A l \in E : l \in Nat /\ l <= mirrorKey
      BY <3>0 DEF EarlyKeys, Frame
    <3>2. mirrorKey \in Nat /\ mirrorKey \in E
      BY DEF LinkInv, FramesOK
    <3>3. k \in E /\ \A l \in E : l <= k
      <4> HIDE DEF E
      <4>1. \E m \in E : \A l \in E : l <= m
        BY <3>1, <3>2
      <4> QED BY <4>1
    <3>4. k = mirrorKey
      <4> HIDE DEF E, k
      <4> QED BY <3>1, <3>2, <3>3
    <3>5. key' = k
      BY <1>5
    <3> QED BY <3>4, <3>5
  <2>8. Talking' /\ rotating' # "clearing" => Informed'
    <3> SUFFICES ASSUME Talking', rotating' # "clearing" PROVE Informed'
      OBVIOUS
    <3>1. Informed /\ sock # None
      BY <1>2, <2>5 DEF LinkInv, host, Talking, Up
    <3>2. Holds => key' = mirrorKey
      BY <1>2, <2>7, <3>1 DEF Holds
    <3>3. Holds => Holds'
      BY <1>2, <1>5, <3>2 DEF Holds, host
    <3> QED BY <1>2, <3>1, <3>3 DEF Informed, host
  <2> QED BY <2>1, <2>2, <2>3, <2>4, <2>6, <2>8 DEF LinkInv
<1> QED BY <1>4, <1>5 DEF Finishes

LEMMA NetworkQuiet ==
  ASSUME LinkInv,
         \/ \E s \in Sockets \cup HostSockets : Breaks(s)
         \/ \E s \in Sockets : HubLosesClient(s)
         \/ \E l \in HostSockets : HubLosesHost(l)
         \/ Revoke
  PROVE  Quiet
<1>1. Elsewhere
  BY NetworkElsewhere DEF LinkInv
<1>2. CASE \E s \in Sockets \cup HostSockets : Breaks(s)
  <2>1. UNCHANGED <<browser, clients, hosts, registered, host>> /\ dead \subseteq dead'
    BY <1>2 DEF Breaks
  <2>2. SameSocket
    BY <2>1 DEF SameSocket, Up, browser
  <2>3. BrowserOK'
    BY <2>1, <2>2 DEF LinkInv, BrowserOK, SameSocket, browser
  <2>4. Talking' => Talking
    BY <2>1, <2>2 DEF Talking, SameSocket, browser
  <2> QED BY <1>1, <2>1, <2>2, <2>3, <2>4 DEF Quiet, browser, host, Hears
<1>3. CASE Revoke
  <2>1. UNCHANGED <<browser, clients, hosts, host>> /\ dead' = dead \cup clients
    BY <1>3 DEF Revoke
  <2>2. ~Up(sock)'
    BY <2>1 DEF LinkInv, BrowserOK, Up, browser
  <2>3. BrowserOK'
    BY <2>1, <2>2 DEF LinkInv, BrowserOK, browser
  <2> QED BY <1>1, <2>1, <2>2, <2>3 DEF Quiet, browser, host, Hears, SameSocket, Talking
<1>4. CASE \E s \in Sockets : HubLosesClient(s)
  <2> PICK s \in Sockets : HubLosesClient(s)
    BY <1>4
  <2>1. /\ UNCHANGED <<browser, dead, hosts, registered, outgoing, mirrorKey, rotating>>
        /\ s \in clients \cap dead /\ clients' = clients \ {s} /\ Arrives("gone", None)
    BY DEF HubLosesClient
  <2>2. ~Up(sock)'
    BY <2>1 DEF LinkInv, BrowserOK, Up, browser
  <2>3. BrowserOK'
    BY <2>1, <2>2 DEF LinkInv, BrowserOK, browser
  <2>4. Hears
    BY <2>1, <2>2, ArrivesHeard DEF Kinds, LinkInv, SessionInv
  <2> QED BY <1>1, <2>1, <2>2, <2>3, <2>4 DEF Quiet, browser, SameSocket, Talking
<1>5. CASE \E l \in HostSockets : HubLosesHost(l)
  <2> PICK l \in HostSockets : HubLosesHost(l)
    BY <1>5
  <2>1. /\ UNCHANGED <<page, retry, sock, session, reply, early, key, clients, registered, host>>
        /\ HostGone
    BY DEF HubLosesHost
  <2>2. ~Up(sock)'
    BY <2>1 DEF LinkInv, BrowserOK, Up, HostGone
  <2>3. \/ stage' = stage
        \/ stage = "waiting" /\ stage' = "mirror"
    BY <2>1 DEF HostGone
  <2>4. BrowserOK'
    BY <2>1, <2>2, <2>3 DEF LinkInv, BrowserOK
  <2> QED BY <1>1, <2>1, <2>2, <2>4 DEF Quiet, host, Hears, SameSocket, Talking
<1> QED BY <1>2, <1>3, <1>4, <1>5

-----------------------------------------------------------------------------
(* The socket of the desktop goes: no browser in a session is served over it any more. *)
LEMMA HostDropsKeepsLink ==
  ASSUME LinkInv, HostDrops
  PROVE  LinkInv'
<1>1. SessionInv'
  BY HostPreserves DEF LinkInv
<1>2. ~Talking
  BY DEF HostDrops, Talking, LinkInv, Attended
<1>3. ~Talking'
  BY <1>2 DEF HostDrops, browser, Talking, Up
<1>4. BrowserOK'
  BY DEF LinkInv, BrowserOK, HostDrops, browser, Up
<1>5. ChainOK'
  <2>1. ws' = None /\ incoming' = <<>> /\ running' = running /\ DOMAIN <<>> = {}
    BY DEF HostDrops
  <2>2. \A r \in running : r.on # None
    BY ConnectionAssumption DEF LinkInv, SessionInv, SourcesOK, Message
  <2> QED BY <2>1, <2>2 DEF ChainOK, LinkInv
<1>6. FramesOK'
  <2>1. <<>> \in Seq(Frame) /\ DOMAIN <<>> = {}
    OBVIOUS
  <2>2. outgoing' = <<>> /\ hsession' = None /\ early' = early /\ mirrorKey' = mirrorKey
    BY DEF HostDrops, Forgets, browser
  <2> QED BY <2>1, <2>2 DEF FramesOK, LinkInv
<1> QED BY <1>1, <1>3, <1>4, <1>5, <1>6 DEF LinkInv

LEMMA HostConnectsKeepsLink ==
  ASSUME LinkInv, NEW l \in HostSockets, HostConnects(l)
  PROVE  LinkInv'
<1>1. SessionInv'
  BY HostPreserves DEF LinkInv
<1>2. sock' = sock /\ (Up(sock)' <=> Up(sock))
  BY ConnectionAssumption DEF HostConnects, browser, Up, LinkInv, SessionInv, SourcesOK
<1>3. hosts' \cap dead' = hosts \cap dead
  BY DEF HostConnects
<1>4. ~Talking
  BY ConnectionAssumption DEF HostConnects, Talking, LinkInv, Attended, SessionInv, SourcesOK
<1>5. ~Talking'
  BY <1>2, <1>3, <1>4 DEF Talking, HostConnects, browser
<1>6. BrowserOK'
  BY <1>2 DEF LinkInv, BrowserOK, HostConnects, browser
<1>7. ChainOK'
  <2>1. ws' = l /\ incoming' = incoming /\ running' = running /\ \A r \in running : r.on # l
    BY DEF HostConnects
  <2> QED BY <1>2, <2>1 DEF ChainOK, Hello, Benign, LinkInv
<1>8. FramesOK'
  BY DEF LinkInv, FramesOK, HostConnects, browser
<1> QED BY <1>1, <1>5, <1>6, <1>7, <1>8 DEF LinkInv

-----------------------------------------------------------------------------
(* Taking the next message off the chain *)
LEMMA TailKeepsOrder ==
  ASSUME LinkInv, Ready, UNCHANGED <<sock, dead>>
  PROVE  /\ \A i \in DOMAIN incoming' : incoming'[i].kind = "hs" => incoming'[i].id # None
         /\ Up(sock) => \A i, j \in DOMAIN incoming' :
                          i < j /\ Hello(incoming[i])' => Benign(incoming[j])'
         /\ Up(sock) /\ Hello(Head(incoming)) => AllBenign'
         /\ AllBenign => AllBenign' /\ Benign(Head(incoming))
<1>1. incoming \in Seq(Message) /\ incoming # <<>> /\ incoming' = Tail(incoming)
  BY DEF Ready, LinkInv, SessionInv, SourcesOK
<1>2. /\ 1 \in DOMAIN incoming /\ Head(incoming) = incoming[1]
      /\ \A i \in DOMAIN incoming' : i \in Nat /\ i + 1 \in DOMAIN incoming
                                     /\ incoming'[i] = incoming[i + 1]
  BY <1>1, TailFacts
<1>3. ChainOK
  BY DEF LinkInv
<1>4. \A i \in DOMAIN incoming' : incoming'[i].kind = "hs" => incoming'[i].id # None
  BY <1>2, <1>3 DEF ChainOK
<1>5. Up(sock) => \A i, j \in DOMAIN incoming' : i < j /\ Hello(incoming[i])' => Benign(incoming[j])'
  <2> SUFFICES ASSUME Up(sock), NEW i \in DOMAIN incoming', NEW j \in DOMAIN incoming', i < j,
                      Hello(incoming[i])'
               PROVE  Benign(incoming[j])'
    OBVIOUS
  <2>1. i + 1 < j + 1 /\ Hello(incoming[i + 1])
    BY <1>2 DEF Hello
  <2>2. Benign(incoming[j + 1])
    BY <1>2, <1>3, <2>1 DEF ChainOK
  <2> QED BY <1>2, <2>2 DEF Benign
<1>6. Up(sock) /\ Hello(Head(incoming)) => AllBenign'
  <2> SUFFICES ASSUME Up(sock), Hello(incoming[1]), NEW j \in DOMAIN incoming'
               PROVE  Benign(incoming[j])'
    BY <1>2 DEF AllBenign
  <2>1. 1 < j + 1
    <3>1. DOMAIN incoming' = 1..Len(incoming') /\ incoming' \in Seq(Message)
      BY <1>1, TailFacts
    <3> QED BY <3>1
  <2>2. Benign(incoming[j + 1])
    BY <1>2, <1>3, <2>1 DEF ChainOK
  <2> QED BY <1>2, <2>2 DEF Benign
<1>7. AllBenign => AllBenign' /\ Benign(Head(incoming))
  BY <1>2 DEF AllBenign, Benign
<1> QED BY <1>4, <1>5, <1>6, <1>7

LEMMA BeginsTaskKeepsLink ==
  ASSUME LinkInv, BeginsTask
  PROVE  LinkInv'
<1>1. SessionInv'
  BY HandlingPreserves DEF Handling, LinkInv
<1>2. /\ UNCHANGED <<browser, dead, clients, hosts, registered, ws, mirrorKey, rotating, hsession,
                     outgoing>>
      /\ Ready /\ Head(incoming).kind # "gone" /\ \A r \in running : r.on # ws
      /\ running' = running \cup {Head(incoming)} \/ running' = running
  BY DEF BeginsTask, Started, HostRest, Ready
<1>3. UNCHANGED <<page, stage, sock, session, reply, early, key>>
  BY <1>2 DEF browser
<1>4. BrowserOK'
  BY <1>2, <1>3 DEF LinkInv, BrowserOK, Up
<1>5. ChainOK'
  <2>1. \A r \in running' : r.on = ws => r = Head(incoming)
    BY <1>2
  <2>2. Head(incoming).kind = "hs" => Head(incoming).id # None
    BY <1>2, TailFacts DEF Ready, LinkInv, ChainOK, SessionInv, SourcesOK
  <2>3. \A r \in running' : r.kind = "hs" => r.id # None
    BY <1>2, <2>2 DEF LinkInv, ChainOK
  <2>4. \A q, r \in running' : q.on = ws' /\ r.on = ws' => q = r
    BY <1>2, <2>1
  <2>5. Up(sock)' /\ (\E r \in running' : r.on = ws' /\ Hello(r)') => AllBenign'
    BY <1>2, <1>3, <2>1, TailKeepsOrder DEF Up, Hello
  <2>6. Up(sock)' => Up(sock)
    BY <1>2, <1>3 DEF Up
  <2> QED BY <1>2, <1>3, <2>3, <2>4, <2>5, <2>6, TailKeepsOrder DEF ChainOK
<1>6. FramesOK'
  BY <1>2, <1>3 DEF LinkInv, FramesOK
<1>7. Talking' => Talking
  BY <1>2, <1>3 DEF Talking, Up
<1>8. Talking' => Attended'
  <2> SUFFICES ASSUME Talking PROVE Attended'
    BY <1>7
  <2>1. Attended
    BY DEF LinkInv
  <2>2. AllBenign' /\ Benign(Head(incoming))
    BY <1>2, <1>3, <2>1, TailKeepsOrder DEF Attended
  <2>3. \A r \in running' : r.on = ws' /\ r.kind = "hs" => r.id = sock'
    BY <1>2, <1>3, <2>1, <2>2 DEF Attended, Benign
  <2> QED BY <1>2, <1>3, <2>1, <2>2, <2>3 DEF Attended
<1>9. Talking' /\ rotating' # "clearing" => Informed'
  BY <1>2, <1>3, <1>7 DEF LinkInv, Informed, Holds, EarlyKeys
<1> QED BY <1>1, <1>4, <1>5, <1>6, <1>8, <1>9 DEF LinkInv

LEMMA ClientGoneKeepsLink ==
  ASSUME LinkInv, ClientGone
  PROVE  LinkInv'
<1>1. SessionInv'
  BY HandlingPreserves DEF Handling, LinkInv
<1>2. /\ UNCHANGED <<browser, dead, clients, hosts, registered, ws, mirrorKey, rotating, running>>
      /\ Ready /\ Head(incoming).kind = "gone" /\ \A r \in running : r.on # ws
      /\ hsession' = None /\ outgoing' = <<>>
  BY DEF ClientGone, HostRest, Ready, Forgets
<1>3. UNCHANGED <<page, stage, sock, session, reply, early, key>>
  BY <1>2 DEF browser
<1>4. BrowserOK'
  BY <1>2, <1>3 DEF LinkInv, BrowserOK, Up
<1>5. ChainOK'
  <2>1. Up(sock)' => Up(sock)
    BY <1>2, <1>3 DEF Up
  <2>2. \A r \in running' : r.on # ws'
    BY <1>2
  <2>3. \A r \in running' : r.kind = "hs" => r.id # None
    BY <1>2 DEF LinkInv, ChainOK
  <2> QED BY <1>2, <1>3, <2>1, <2>2, <2>3, TailKeepsOrder DEF ChainOK
<1>6. FramesOK'
  <2>1. <<>> \in Seq(Frame) /\ DOMAIN <<>> = {}
    OBVIOUS
  <2> QED BY <1>2, <1>3, <2>1 DEF LinkInv, FramesOK
<1>7. ~Talking
  BY <1>2, <1>3, TailKeepsOrder DEF LinkInv, Attended, Benign
<1>8. ~Talking'
  BY <1>2, <1>3, <1>7 DEF Talking, Up
<1> QED BY <1>1, <1>4, <1>5, <1>6, <1>8 DEF LinkInv

-----------------------------------------------------------------------------
(* The session that a handshake sets up is that of the hello, and its first frame is the key. *)
LEMMA AcceptsKeepsLink ==
  ASSUME LinkInv, NEW r \in running, Accepts(r)
  PROVE  LinkInv'
<1>1. SessionInv'
  BY HandlingPreserves DEF Handling, LinkInv
<1>2. /\ UNCHANGED <<dead, clients, hosts, registered, ws, paired, mirrorKey, rotating, faults>>
      /\ running' = running \ {r} /\ r.kind = "hs" /\ r \in Message
  BY DEF Accepts, LinkInv, SessionInv, SourcesOK
<1>3. CASE UNCHANGED <<browser, incoming, hsession, streamed, outgoing>>
  <2>1. UNCHANGED <<page, stage, sock, session, reply, early, key>>
    BY <1>3 DEF browser
  <2>2. BrowserOK'
    BY <1>2, <2>1 DEF LinkInv, BrowserOK, Up
  <2>3. ChainOK'
    BY <1>2, <1>3, <2>1, HearsKeepsChain DEF LinkInv, SessionInv, Hears, SameSocket, Up
  <2>4. FramesOK'
    BY <1>2, <1>3, <2>1 DEF LinkInv, FramesOK
  <2>5. Talking' => Talking
    BY <1>2, <2>1 DEF Talking, Up
  <2>6. Talking' => Attended'
    BY <1>2, <1>3, <2>1, <2>5 DEF LinkInv, Attended, AllBenign, Benign
  <2>7. Talking' /\ rotating' # "clearing" => Informed'
    BY <1>2, <1>3, <2>1, <2>5 DEF LinkInv, Informed, Holds, EarlyKeys
  <2> QED BY <1>1, <2>2, <2>3, <2>4, <2>6, <2>7 DEF LinkInv
<1>4. CASE /\ ws = r.on /\ paired
           /\ streamed' = None /\ hsession' = [id |-> r.id, on |-> r.on]
           /\ outgoing' = <<[kind |-> "key", id |-> r.id, key |-> mirrorKey]>>
           /\ ToBrowser(TakesReply(r.id))
  <2>1. /\ UNCHANGED <<page, sock, session, early, key>>
        /\ \/ stage' = stage /\ reply' = reply
           \/ /\ stage = "waiting" /\ stage' = "finishing" /\ reply' = r.id
              /\ ws \in hosts /\ incoming' = incoming
    BY <1>4 DEF ToBrowser, TakesReply, browser
  <2>2. r.id # None /\ r.id \in Sockets
    BY <1>2 DEF LinkInv, ChainOK, Message
  <2>3. SameSocket
    BY <1>2, <2>1 DEF SameSocket, Up
  <2>4. BrowserOK'
    BY <1>2, <2>1, <2>2 DEF LinkInv, BrowserOK, Up
  <2>5. Hears
    <3>1. CASE incoming' = incoming
      BY <3>1 DEF Hears
    <3>2. CASE clients = {} /\ Arrives("gone", None)
      <4>1. ~Up(sock)'
        BY <1>2, <2>3, <3>2 DEF SameSocket, LinkInv, BrowserOK
      <4> QED BY <3>2, <4>1, ArrivesHeard DEF Kinds, LinkInv, SessionInv
    <3> QED BY <1>4, <3>1, <3>2 DEF ToBrowser
  <2>6. ChainOK'
    BY <1>2, <2>3, <2>5, HearsKeepsChain DEF LinkInv, SessionInv
  <2> DEFINE f == [kind |-> "key", id |-> r.id, key |-> mirrorKey]
  <2>7. /\ f \in Frame /\ f.kind = "key" /\ f.id = r.id /\ f.key = mirrorKey /\ mirrorKey \in Nat
        /\ outgoing' = <<f>>
    BY <1>4, <2>2 DEF Frame, LinkInv, FramesOK
  <2>8. hsession' # None /\ hsession'.id = r.id
    <3>1. r.on \in HostSockets
      BY <1>2 DEF Message
    <3> QED BY <1>4, <2>2, <3>1, ConnectionAssumption
  <2>9. FramesOK'
    <3> HIDE DEF f
    <3>1. outgoing' \in Seq(Frame) /\ DOMAIN outgoing' = {1} /\ outgoing'[1] = f
      BY <2>7
    <3> QED BY <1>2, <2>1, <2>2, <2>7, <2>8, <3>1 DEF LinkInv, FramesOK
  <2>10. Informed'
    <3> HIDE DEF f
    <3>1. 1 \in DOMAIN outgoing' /\ outgoing'[1] = f
      BY <2>7
    <3> QED BY <1>2, <2>7, <3>1 DEF Informed
  <2>11. Talking' => Attended'
    <3> SUFFICES ASSUME Talking' PROVE Attended'
      OBVIOUS
    <3>1. CASE Talking
      <4>1. Attended
        BY <3>1 DEF LinkInv
      <4>2. AllBenign'
        BY <2>1, <2>5, <4>1, HearsKeepsBenign DEF Attended, LinkInv, SessionInv, Talking
      <4>3. r.id = sock
        BY <1>2, <1>4, <4>1 DEF Attended
      <4> QED BY <1>2, <2>1, <2>8, <4>1, <4>2, <4>3 DEF Attended
    <3>2. CASE ~Talking
      <4>1. /\ stage = "waiting" /\ stage' = "finishing" /\ reply' = r.id
            /\ ws \in hosts /\ incoming' = incoming
        BY <1>2, <2>1, <3>2 DEF Talking, Up
      <4>2. session = None
        BY <4>1 DEF LinkInv, BrowserOK
      <4>3. Up(sock) /\ r.id = sock
        BY <1>2, <2>1, <4>1, <4>2 DEF Talking, Up
      <4>4. AllBenign'
        BY <1>2, <1>4, <2>1, <4>1, <4>3 DEF LinkInv, ChainOK, Hello, AllBenign, Benign
      <4>5. \A q \in running' : q.on # ws'
        BY <1>2, <1>4 DEF LinkInv, ChainOK
      <4> QED BY <1>2, <2>1, <2>8, <4>1, <4>3, <4>4, <4>5 DEF Attended
    <3> QED BY <3>1, <3>2
  <2> QED BY <1>1, <2>4, <2>6, <2>9, <2>10, <2>11 DEF LinkInv
<1> QED BY <1>3, <1>4 DEF Accepts

LEMMA WatchesKeepsLink ==
  ASSUME LinkInv, NEW r \in running, Watches(r)
  PROVE  LinkInv'
<1>1. SessionInv'
  BY HandlingPreserves DEF Handling, LinkInv
<1>2. /\ UNCHANGED <<browser, dead, clients, hosts, registered, ws, mirrorKey, rotating, hsession,
                     incoming, outgoing>>
  BY DEF Watches, HostRest
<1>3. UNCHANGED <<page, stage, sock, session, reply, early, key>>
  BY <1>2 DEF browser
<1>4. PICK a : /\ a.kind = "answer" /\ a.on = r.on
               /\ running' \subseteq (running \ {r}) \cup {a}
  <2> DEFINE a == [r EXCEPT !.kind = "answer"]
  <2>1. r \in Message
    BY DEF LinkInv, SessionInv, SourcesOK
  <2>2. a.kind = "answer" /\ a.on = r.on
    BY <2>1 DEF Message
  <2>3. running' \subseteq (running \ {r}) \cup {a}
    BY DEF Watches
  <2> HIDE DEF a
  <2> QED BY <2>2, <2>3
<1>5. BrowserOK'
  BY <1>2, <1>3 DEF LinkInv, BrowserOK, Up
<1>6. ChainOK'
  <2>1. \A q \in running' : q.kind = "hs" => q \in running
    BY <1>4
  <2>2. \A q, p \in running' : q.on = ws' /\ p.on = ws' => q = p
    BY <1>2, <1>4 DEF LinkInv, ChainOK
  <2>3. \A q \in running' : q.kind = "hs" => q.id # None
    BY <2>1 DEF LinkInv, ChainOK
  <2>4. Up(sock)' /\ (\E q \in running' : q.on = ws' /\ Hello(q)') => AllBenign'
    BY <1>2, <1>3, <2>1 DEF LinkInv, ChainOK, Hello, Up, AllBenign, Benign
  <2>5. Up(sock)' => \A i, j \in DOMAIN incoming' :
                       i < j /\ Hello(incoming[i])' => Benign(incoming[j])'
    BY <1>2, <1>3 DEF LinkInv, ChainOK, Hello, Up, Benign
  <2>6. \A i \in DOMAIN incoming' : incoming'[i].kind = "hs" => incoming'[i].id # None
    BY <1>2 DEF LinkInv, ChainOK
  <2> QED BY <2>2, <2>3, <2>4, <2>5, <2>6 DEF ChainOK
<1>7. FramesOK'
  BY <1>2, <1>3 DEF LinkInv, FramesOK
<1>8. Talking' => Talking
  BY <1>2, <1>3 DEF Talking, Up
<1>9. Talking' => Attended'
  <2>1. \A q \in running' : q.kind = "hs" => q \in running
    BY <1>4
  <2> QED BY <1>2, <1>3, <1>8, <2>1 DEF LinkInv, Attended, AllBenign, Benign
<1>10. Talking' /\ rotating' # "clearing" => Informed'
  BY <1>2, <1>3, <1>8 DEF LinkInv, Informed, Holds, EarlyKeys
<1> QED BY <1>1, <1>5, <1>6, <1>7, <1>9, <1>10 DEF LinkInv

-----------------------------------------------------------------------------
(* A frame is added behind the others: of the session, and with no older key. *)
LEMMA AppendKeepsFrames ==
  ASSUME FramesOK, hsession # None, UNCHANGED <<mirrorKey, early, hsession>>,
         NEW kind \in {"rekey", "result"}, NEW k \in Nat, k <= mirrorKey,
         kind = "rekey" => k = mirrorKey,
         outgoing' = Append(outgoing, [kind |-> kind, id |-> hsession.id, key |-> k])
  PROVE  /\ FramesOK'
         /\ kind = "rekey" => Informed'
         /\ kind = "result" /\ Informed /\ (Holds => Holds') => Informed'
<1> DEFINE f == [kind |-> kind, id |-> hsession.id, key |-> k]
<1>1. f \in Frame /\ f.kind = kind /\ f.id = hsession.id /\ f.key = k /\ outgoing' = Append(outgoing, f)
  BY DEF FramesOK, Frame
<1> HIDE DEF f
<1>2. outgoing \in Seq(Frame) /\ mirrorKey \in Nat
  BY DEF FramesOK
<1>3. /\ outgoing' \in Seq(Frame) /\ Len(outgoing) \in Nat
      /\ DOMAIN outgoing = 1..Len(outgoing) /\ DOMAIN outgoing' = 1..(Len(outgoing) + 1)
      /\ outgoing'[Len(outgoing) + 1] = f
      /\ \A i \in DOMAIN outgoing : outgoing'[i] = outgoing[i]
  BY <1>1, <1>2, AppendFacts
<1>4. \A i \in DOMAIN outgoing' : \/ i \in DOMAIN outgoing /\ outgoing'[i] = outgoing[i]
                                  \/ i = Len(outgoing) + 1 /\ outgoing'[i] = f
  BY <1>3
<1>5. \A i \in DOMAIN outgoing' : outgoing'[i].id = hsession.id /\ outgoing'[i].key <= mirrorKey
  BY <1>1, <1>4 DEF FramesOK
<1>6. ASSUME NEW i \in DOMAIN outgoing', NEW j \in DOMAIN outgoing',
             i < j, outgoing'[i].kind # "result", outgoing'[j].kind # "result"
      PROVE  outgoing'[i].key <= outgoing'[j].key
  <2>1. CASE j \in DOMAIN outgoing
    <3>1. i \in DOMAIN outgoing
      BY <1>3, <1>6, <2>1
    <3> QED BY <1>3, <1>6, <2>1, <3>1 DEF FramesOK
  <2>2. CASE j = Len(outgoing) + 1
    <3>1. outgoing'[j].key = mirrorKey
      BY <1>1, <1>3, <1>6, <2>2
    <3> QED BY <1>5, <3>1
  <2> QED BY <1>3, <2>1, <2>2
<1>7. FramesOK'
  BY <1>3, <1>5, <1>6 DEF FramesOK
<1>8. kind = "rekey" => Informed'
  BY <1>1, <1>3 DEF Informed
<1>9. kind = "result" /\ Informed /\ (Holds => Holds') => Informed'
  BY <1>1, <1>3, <1>4 DEF Informed
<1> QED BY <1>7, <1>8, <1>9

(* A step of the desktop that is about its frames and its running messages only *)
Private ==
  /\ UNCHANGED <<browser, dead, clients, hosts, registered, ws, incoming, hsession>>
  /\ running' \subseteq running

LEMMA PrivateKeepsLink ==
  ASSUME LinkInv, Private
  PROVE  /\ BrowserOK' /\ ChainOK' /\ UNCHANGED <<sock, early>>
         /\ mirrorKey' = mirrorKey => (Holds => Holds')
         /\ Talking' => Talking /\ Attended'
<1>1. UNCHANGED <<page, stage, sock, session, reply, early, key>>
  BY DEF Private, browser
<1>2. BrowserOK'
  BY <1>1 DEF LinkInv, BrowserOK, Up, Private
<1>3. ChainOK'
  BY <1>1, HearsKeepsChain DEF LinkInv, SessionInv, Hears, SameSocket, Up, Private
<1>4. Talking' => Talking
  BY <1>1 DEF Talking, Up, Private
<1>5. Talking' => Attended'
  BY <1>1, <1>4 DEF LinkInv, Attended, AllBenign, Benign, Private
<1> QED BY <1>1, <1>2, <1>3, <1>4, <1>5 DEF Holds, EarlyKeys

LEMMA AnswersKeepsLink ==
  ASSUME LinkInv, NEW r \in running, Answers(r)
  PROVE  LinkInv'
<1>1. SessionInv'
  BY HandlingPreserves DEF Handling, LinkInv
<1>2. Private /\ UNCHANGED <<mirrorKey, rotating, hsession>>
  BY DEF Answers, HostRest, Private
<1>3. FramesOK' /\ (Talking' /\ rotating' # "clearing" => Informed')
  <2>1. CASE hsession = None
    <3>1. outgoing' = outgoing
      BY <2>1 DEF Answers
    <3> QED BY <1>2, <3>1, PrivateKeepsLink DEF LinkInv, FramesOK, Informed
  <2>2. CASE hsession # None
    <3>1. outgoing' = Append(outgoing, [kind |-> "result", id |-> hsession.id, key |-> 0])
      BY <2>2 DEF Answers
    <3>2. FramesOK /\ 0 <= mirrorKey
      BY DEF LinkInv, FramesOK
    <3>3. FramesOK' /\ (Informed /\ (Holds => Holds') => Informed')
      BY <1>2, <2>2, <3>1, <3>2, PrivateKeepsLink, AppendKeepsFrames
    <3> QED BY <1>2, <3>3, PrivateKeepsLink DEF LinkInv
  <2> QED BY <2>1, <2>2
<1> QED BY <1>1, <1>2, <1>3, PrivateKeepsLink DEF LinkInv

LEMMA RotatingKeepsLink ==
  ASSUME LinkInv, OtherForgotten \/ Rotating
  PROVE  LinkInv'
<1>1. SessionInv'
  BY HostPreserves DEF LinkInv
<1>2. Private
  BY DEF OtherForgotten, Rotating, NewKey, HandsOut, Private
<1>3. CASE OtherForgotten
  <2>1. UNCHANGED <<mirrorKey, hsession, outgoing>> /\ rotating = "idle"
    BY <1>3 DEF OtherForgotten
  <2> QED BY <1>1, <1>2, <2>1, PrivateKeepsLink DEF LinkInv, FramesOK, Informed
<1>4. CASE NewKey
  <2>1. UNCHANGED <<hsession, outgoing>> /\ rotating' = "clearing" /\ mirrorKey' = mirrorKey + 1
    BY <1>4 DEF NewKey
  <2>2. FramesOK'
    <3>1. \A k \in Nat : k <= mirrorKey => k <= mirrorKey + 1
      BY DEF LinkInv, FramesOK
    <3>2. \A f \in Frame : f.key \in Nat
      BY DEF Frame
    <3>3. /\ \A i \in DOMAIN early : early[i] \in Frame
          /\ \A i \in DOMAIN outgoing : outgoing[i] \in Frame
      BY DEF LinkInv, FramesOK
    <3> QED BY <1>2, <2>1, <3>1, <3>2, <3>3, PrivateKeepsLink DEF LinkInv, FramesOK
  <2> QED BY <1>1, <1>2, <2>1, <2>2, PrivateKeepsLink DEF LinkInv
<1>5. CASE HandsOut
  <2>1. UNCHANGED <<hsession, mirrorKey>>
    BY <1>5 DEF HandsOut
  <2>2. CASE hsession = None
    <3>1. outgoing' = outgoing
      BY <1>5, <2>2 DEF HandsOut
    <3>2. ~Talking'
      BY <1>2, <2>2, PrivateKeepsLink DEF LinkInv, Attended
    <3> QED BY <1>1, <1>2, <2>1, <3>1, <3>2, PrivateKeepsLink DEF LinkInv, FramesOK
  <2>3. CASE hsession # None
    <3>1. outgoing' = Append(outgoing, [kind |-> "rekey", id |-> hsession.id, key |-> mirrorKey])
      BY <1>5, <2>3 DEF HandsOut
    <3>2. FramesOK /\ mirrorKey \in Nat /\ mirrorKey <= mirrorKey
      BY DEF LinkInv, FramesOK
    <3>3. FramesOK' /\ Informed'
      BY <1>2, <2>1, <2>3, <3>1, <3>2, PrivateKeepsLink, AppendKeepsFrames
    <3> QED BY <1>1, <1>2, <3>3, PrivateKeepsLink DEF LinkInv
  <2> QED BY <2>2, <2>3
<1> QED BY <1>3, <1>4, <1>5 DEF Rotating

(* A frame that is sent reaches the browser while it talks to the desktop. *)
LEMMA SendsKeepsLink ==
  ASSUME LinkInv, Sends
  PROVE  LinkInv'
<1> DEFINE f == Head(outgoing)
<1>1. SessionInv'
  BY HostPreserves DEF LinkInv
<1>2. /\ UNCHANGED <<dead, clients, hosts, registered, ws, running, hsession, streamed, paired, mirrorKey,
                     rotating, faults>>
      /\ outgoing # <<>> /\ outgoing' = Tail(outgoing) /\ ToBrowser(TakesFrame(f))
  BY DEF Sends
<1>3. /\ outgoing \in Seq(Frame) /\ early \in Seq(Frame) /\ mirrorKey \in Nat
  BY DEF LinkInv, FramesOK
<1>4. /\ outgoing' \in Seq(Frame) /\ 1 \in DOMAIN outgoing /\ f = outgoing[1] /\ f \in Frame
      /\ \A i \in DOMAIN outgoing' : i \in Nat /\ i + 1 \in DOMAIN outgoing /\ outgoing'[i] = outgoing[i + 1]
      /\ \A i \in DOMAIN outgoing : i \in Nat /\ (i = 1 \/ (i - 1 \in DOMAIN outgoing' /\ i - 1 \in Nat))
  BY <1>2, <1>3, TailFacts
<1>5. hsession # None /\ f.id = hsession.id /\ f.key <= mirrorKey
  BY <1>4 DEF LinkInv, FramesOK
<1> HIDE DEF f
<1>6. /\ UNCHANGED <<page, stage, sock, session, reply>>
      /\ UNCHANGED <<key, early>> \/ TakesFrame(f)
  BY <1>2 DEF ToBrowser, TakesFrame, browser
<1>7. BrowserOK'
  BY <1>2, <1>6 DEF LinkInv, BrowserOK, Up
<1>8. SameSocket /\ (Talking' => Talking)
  BY <1>2, <1>6 DEF SameSocket, Talking, Up
<1>9. Hears
  <2>1. CASE incoming' = incoming
    BY <2>1 DEF Hears
  <2>2. CASE clients = {} /\ Arrives("gone", None)
    <3>1. ~Up(sock)'
      BY <1>8, <2>2 DEF SameSocket, LinkInv, BrowserOK
    <3> QED BY <2>2, <3>1, ArrivesHeard DEF Kinds, LinkInv, SessionInv
  <2> QED BY <1>2, <2>1, <2>2 DEF ToBrowser
<1>10. ChainOK'
  BY <1>2, <1>8, <1>9, HearsKeepsChain DEF LinkInv, SessionInv
<1>11. FramesOK'
  <2>1. early' \in Seq(Frame) /\ \A i \in DOMAIN early' : early'[i].key <= mirrorKey
    <3>1. CASE early' = early
      BY <1>3, <3>1 DEF LinkInv, FramesOK
    <3>2. CASE early' = Append(early, f)
      <4>1. \A i \in DOMAIN early' : \/ i \in DOMAIN early /\ early'[i] = early[i]
                                     \/ early'[i] = f
        BY <1>3, <1>4, <3>2, AppendFacts
      <4>2. early' \in Seq(Frame)
        BY <1>3, <1>4, <3>2, AppendFacts
      <4> QED BY <1>5, <4>1, <4>2 DEF LinkInv, FramesOK
    <3> QED BY <1>6, <3>1, <3>2 DEF TakesFrame
  <2>2. \A i \in DOMAIN outgoing' : /\ hsession' # None /\ outgoing'[i].id = hsession'.id
                                    /\ outgoing'[i].key <= mirrorKey'
    BY <1>2, <1>4 DEF LinkInv, FramesOK
  <2>3. \A i, j \in DOMAIN outgoing' :
          i < j /\ outgoing'[i].kind # "result" /\ outgoing'[j].kind # "result"
            => outgoing'[i].key <= outgoing'[j].key
    <3> SUFFICES ASSUME NEW i \in DOMAIN outgoing', NEW j \in DOMAIN outgoing', i < j,
                        outgoing'[i].kind # "result", outgoing'[j].kind # "result"
                 PROVE  outgoing'[i].key <= outgoing'[j].key
      OBVIOUS
    <3>1. i + 1 < j + 1
      BY <1>4
    <3> QED BY <1>4, <3>1 DEF LinkInv, FramesOK
  <2> QED BY <1>2, <1>3, <1>4, <2>1, <2>2, <2>3 DEF LinkInv, FramesOK
<1>12. Talking' => Attended'
  <2> SUFFICES ASSUME Talking' PROVE Attended'
    OBVIOUS
  <2>1. Attended
    BY <1>8 DEF LinkInv
  <2>2. AllBenign'
    BY <1>6, <1>9, <2>1, HearsKeepsBenign DEF Attended, LinkInv, SessionInv, Talking
  <2> QED BY <1>2, <1>6, <2>1, <2>2 DEF Attended
<1>13. Talking' /\ rotating' # "clearing" => Informed'
  <2> SUFFICES ASSUME Talking, rotating # "clearing" PROVE Informed'
    BY <1>2, <1>8
  <2>1. Attended /\ Informed /\ Up(sock) /\ sock # None
    BY DEF LinkInv, Talking, Up
  <2>2. TakesFrame(f)
    <3>1. ws \in hosts /\ Up(ws)
      BY <2>1, ConnectionAssumption DEF Talking, Attended, Up, LinkInv, SessionInv, SourcesOK
    <3>2. clients # {} /\ sock \in clients
      BY <2>1 DEF LinkInv, BrowserOK
    <3> QED BY <1>2, <2>1, <3>1, <3>2 DEF ToBrowser
  <2>3. f.id = sock
    BY <1>5, <2>1 DEF Attended
  <2>4. CASE \E i \in DOMAIN outgoing : i # 1 /\ outgoing[i].kind # "result"
                                              /\ outgoing[i].key = mirrorKey
    <3> PICK i \in DOMAIN outgoing : i # 1 /\ outgoing[i].kind # "result" /\ outgoing[i].key = mirrorKey
      BY <2>4
    <3>1. i - 1 \in DOMAIN outgoing' /\ outgoing'[i - 1] = outgoing[i]
      BY <1>4
    <3> QED BY <1>2, <3>1 DEF Informed
  <2>5. CASE f.kind # "result" /\ f.key = mirrorKey
             /\ ~\E i \in DOMAIN outgoing : i # 1 /\ outgoing[i].kind # "result"
                                                  /\ outgoing[i].key = mirrorKey
    <3>1. \A i \in DOMAIN outgoing' : outgoing'[i].kind = "result"
      <4> SUFFICES ASSUME NEW i \in DOMAIN outgoing', outgoing'[i].kind # "result" PROVE FALSE
        OBVIOUS
      <4>1. 1 < i + 1 /\ i + 1 \in DOMAIN outgoing /\ outgoing[i + 1].kind # "result"
        <5>1. DOMAIN outgoing' = 1..Len(outgoing') /\ Len(outgoing') \in Nat
          BY <1>4
        <5> QED BY <1>4, <5>1
      <4>2. outgoing[1].key <= outgoing[i + 1].key /\ outgoing[i + 1].key <= mirrorKey
        BY <1>4, <2>5, <4>1 DEF LinkInv, FramesOK
      <4>3. outgoing[i + 1] \in Frame
        BY <1>3, <4>1
      <4>4. outgoing[i + 1].key = mirrorKey
        BY <1>3, <1>4, <2>5, <4>2, <4>3 DEF Frame
      <4> QED BY <2>5, <4>1, <4>4
    <3>2. Holds'
      <4>1. CASE session = None
        <5>1. early' = Append(early, f)
          BY <2>2, <4>1 DEF TakesFrame
        <5>2. Len(early) + 1 \in DOMAIN early' /\ early'[Len(early) + 1] = f
          BY <1>3, <1>4, <5>1, AppendFacts
        <5>3. mirrorKey' \in EarlyKeys(sock)'
          BY <1>2, <1>6, <2>3, <2>5, <5>2 DEF EarlyKeys
        <5> QED BY <1>6, <2>1, <4>1, <5>3 DEF Holds
      <4>2. CASE session # None
        <5>1. session = sock
          BY <4>2 DEF LinkInv, BrowserOK
        <5> QED BY <1>2, <1>6, <2>2, <2>3, <2>5, <4>2, <5>1 DEF Holds, TakesFrame
      <4> QED BY <4>1, <4>2
    <3> QED BY <3>1, <3>2 DEF Informed
  <2>6. CASE Holds /\ \A i \in DOMAIN outgoing : outgoing[i].kind = "result"
    <3>1. \A i \in DOMAIN outgoing' : outgoing'[i].kind = "result"
      BY <1>4, <2>6
    <3>2. f.kind = "result"
      BY <1>4, <2>6
    <3>3. Holds'
      <4>1. CASE session = None
        <5>1. early' = Append(early, f) /\ session # sock
          BY <2>1, <2>2, <4>1 DEF TakesFrame
        <5>2. mirrorKey \in EarlyKeys(sock)
          BY <2>6, <5>1 DEF Holds
        <5>3. PICK i \in DOMAIN early : early[i].id = sock /\ early[i].kind # "result"
                                        /\ early[i].key = mirrorKey
          BY <5>2 DEF EarlyKeys
        <5>4. i \in DOMAIN early' /\ early'[i] = early[i]
          <6>1. /\ DOMAIN early = 1..Len(early) /\ DOMAIN early' = 1..(Len(early) + 1)
                /\ Len(early) \in Nat /\ \A j \in DOMAIN early : early'[j] = early[j]
            BY <1>3, <1>4, <5>1, AppendFacts
          <6> QED BY <6>1
        <5>5. mirrorKey' \in EarlyKeys(sock)'
          BY <1>2, <1>6, <5>3, <5>4 DEF EarlyKeys
        <5> QED BY <1>6, <5>1, <5>5 DEF Holds
      <4>2. CASE session # None
        <5>1. session = sock
          BY <4>2 DEF LinkInv, BrowserOK
        <5> QED BY <1>2, <1>6, <2>2, <2>6, <3>2, <4>2, <5>1 DEF Holds, TakesFrame
      <4> QED BY <4>1, <4>2
    <3> QED BY <3>1, <3>3 DEF Informed
  <2> QED BY <1>4, <2>1, <2>4, <2>5, <2>6 DEF Informed
<1> QED BY <1>1, <1>7, <1>10, <1>11, <1>12, <1>13 DEF LinkInv

(* The desktop forgets a browser only when the relay has closed the browser's sockets. *)
LEMMA ReconcilesKeepsLink ==
  ASSUME LinkInv, Reconciles
  PROVE  LinkInv'
<1>1. SessionInv'
  BY HostPreserves DEF LinkInv
<1>2. /\ UNCHANGED <<browser, dead, clients, hosts, registered, ws, incoming, running, mirrorKey>>
      /\ ~registered /\ hsession' = None /\ outgoing' = <<>>
  BY DEF Reconciles, Forgets
<1>3. UNCHANGED <<page, stage, sock, session, reply, early, key>>
  BY <1>2 DEF browser
<1>4. ~Up(sock)'
  BY <1>2, <1>3 DEF LinkInv, BrowserOK, Up
<1>5. BrowserOK'
  BY <1>2, <1>3, <1>4 DEF LinkInv, BrowserOK
<1>6. ChainOK'
  BY <1>2, <1>4 DEF LinkInv, ChainOK
<1>7. FramesOK'
  <2>1. <<>> \in Seq(Frame) /\ DOMAIN <<>> = {}
    OBVIOUS
  <2> QED BY <1>2, <1>3, <2>1 DEF LinkInv, FramesOK
<1> QED BY <1>1, <1>4, <1>5, <1>6, <1>7 DEF LinkInv, Talking

-----------------------------------------------------------------------------
LEMMA StepKeepsLink ==
  ASSUME LinkInv, StaleCloses = FALSE, [Next]_vars
  PROVE  LinkInv'
<1>1. CASE RetryTimer \/ Wake \/ TicketFails \/ Drops \/ Asks
  BY <1>1, BrowserQuiet, AsksQuiet, QuietKeepsLink
<1>2. CASE Connecting
  BY <1>2, BrowserQuiet, GreetsQuiet, QuietKeepsLink, OpensKeepsLink, FinishesKeepsLink DEF Connecting
<1>3. CASE \/ \E s \in Sockets \cup HostSockets : Breaks(s)
           \/ \E s \in Sockets : HubLosesClient(s)
           \/ \E l \in HostSockets : HubLosesHost(l)
           \/ Revoke
  BY <1>3, NetworkQuiet, QuietKeepsLink
<1>4. CASE HostDrops \/ \E l \in HostSockets : HostConnects(l)
  BY <1>4, HostDropsKeepsLink, HostConnectsKeepsLink
<1>5. CASE Handling
  BY <1>5, BeginsTaskKeepsLink, ClientGoneKeepsLink, AcceptsKeepsLink, WatchesKeepsLink, AnswersKeepsLink
     DEF Handling
<1>6. CASE Sends \/ Reconciles \/ OtherForgotten \/ Rotating
  BY <1>6, SendsKeepsLink, ReconcilesKeepsLink, RotatingKeepsLink
<1>7. CASE UNCHANGED vars
  <2>1. SessionInv'
    BY <1>7 DEF vars, browser, host, LinkInv, SessionInv, SessionsEnd, SourcesOK
  <2>2. BrowserOK' /\ FramesOK'
    BY <1>7 DEF vars, browser, host, LinkInv, BrowserOK, FramesOK, Up
  <2>3. ChainOK'
    BY <1>7 DEF vars, browser, host, LinkInv, ChainOK, AllBenign, Benign, Hello, Up
  <2>4. Talking' => Talking
    BY <1>7 DEF vars, browser, host, Talking, Up
  <2>5. Talking => Attended'
    BY <1>7 DEF vars, browser, host, LinkInv, Attended, AllBenign, Benign
  <2>6. Talking /\ rotating' # "clearing" => Informed'
    BY <1>7 DEF vars, browser, host, LinkInv, Informed, Holds, EarlyKeys
  <2> QED BY <2>1, <2>2, <2>3, <2>4, <2>5, <2>6 DEF LinkInv
<1>8. CASE Next
  BY <1>1, <1>2, <1>3, <1>4, <1>5, <1>6, <1>8 DEF Next
<1> QED BY <1>7, <1>8

LEMMA LinkStarts == Init => LinkInv
<1> SUFFICES ASSUME Init PROVE LinkInv
  OBVIOUS
<1>1. SessionInv
  BY DEF Init, SessionInv, SessionsEnd, SourcesOK
<1>2. BrowserOK /\ ~Talking
  BY DEF Init, BrowserOK, Talking, Up
<1>3. ChainOK
  BY DEF Init, ChainOK, Up
<1>4. FramesOK
  <2>1. <<>> \in Seq(Frame) /\ DOMAIN <<>> = {}
    OBVIOUS
  <2> QED BY <2>1 DEF Init, FramesOK
<1> QED BY <1>1, <1>2, <1>3, <1>4 DEF LinkInv

LEMMA OnlineTalks ==
  ASSUME LinkInv, page = "online", Quiescent
  PROVE  Talking /\ session = sock /\ sock # None
<1>1. session # None /\ session = sock
  BY DEF LinkInv, BrowserOK
<1>2. sock \notin dead /\ hosts \cap dead = {}
  BY DEF Quiescent
<1> QED BY <1>1, <1>2 DEF Talking, Up

(* Once everything under way is over, a browser that shows the desktop online shares a session with *)
(* it: OnlineIsServed holds of every behaviour in which the hub learns of a closed socket before    *)
(* its browser opens the next.                                                                      *)
THEOREM OnlineIsProved ==
  ASSUME StaleCloses = FALSE
  PROVE  Spec => []OnlineIsServed
<1>1. Init => LinkInv
  BY LinkStarts
<1>2. LinkInv /\ [Next]_vars => LinkInv'
  BY StepKeepsLink
<1>3. LinkInv => OnlineIsServed
  BY OnlineTalks DEF LinkInv, Attended, OnlineIsServed, Served
<1> QED BY <1>1, <1>2, <1>3, PTL DEF Spec

(* ... and it holds the newest mirror key, whatever rotations raced its handshake: HoldsCurrentKey. *)
THEOREM CurrentKeyIsProved ==
  ASSUME StaleCloses = FALSE
  PROVE  Spec => []HoldsCurrentKey
<1>1. Init => LinkInv
  BY LinkStarts
<1>2. LinkInv /\ [Next]_vars => LinkInv'
  BY StepKeepsLink
<1>3. LinkInv => HoldsCurrentKey
  <2> SUFFICES ASSUME LinkInv, page = "online", Quiescent PROVE key = mirrorKey
    BY DEF HoldsCurrentKey
  <2>1. Talking /\ session = sock /\ rotating # "clearing" /\ outgoing = <<>>
    BY OnlineTalks DEF Quiescent
  <2>2. Informed /\ DOMAIN <<>> = {}
    BY <2>1 DEF LinkInv
  <2> QED BY <2>1, <2>2 DEF Informed, Holds
<1> QED BY <1>1, <1>2, <1>3, PTL DEF Spec

-----------------------------------------------------------------------------
(* Sums over a sequence: Total is the sum whose partial sums Totals has. *)

(* Sums. *)
SumsTo(t, weights, n) ==
  \A i \in 0..n : t[i] = IF i = 0 THEN 0 ELSE t[i - 1] + weights[i]

Before == OpToRel(<, Nat)

LEMMA SmallestOf ==
  ASSUME NEW S, S \subseteq Nat, S # {}
  PROVE  \E n \in S : \A m \in S : n <= m
<1>1. IsWellFoundedOn(Before, Nat)
  BY NatLessThanWellFounded DEF Before
<1>2. PICK n \in S : \A m \in S : <<m, n>> \notin Before
  BY <1>1, WFMin, Zenon
<1>3. \A m \in S : n <= m
  <2>1. ASSUME NEW m \in S PROVE n <= m
    <3>1. ~(m < n)
      BY <1>2, <2>1 DEF Before, OpToRel
    <3> QED BY <3>1
  <2> QED BY <2>1
<1> QED BY <1>2, <1>3

LEMMA SumsExist ==
  ASSUME NEW w \in Seq(Nat), NEW n \in 0..Len(w)
  PROVE  \E t \in [0..n -> Nat] : SumsTo(t, w, n)
<1> DEFINE Good(k) == \E t \in [0..k -> Nat] : SumsTo(t, w, k)
           Bad == {k \in 0..Len(w) : ~Good(k)}
<1>1. SUFFICES ASSUME Bad # {} PROVE FALSE
  OBVIOUS
<1>2. PICK k \in Bad : \A m \in Bad : k <= m
  <2>1. Bad \subseteq Nat
    OBVIOUS
  <2> HIDE DEF Bad
  <2> QED BY <1>1, <2>1, SmallestOf
<1>3. k # 0
  <2>1. Good(0)
    <3>1. [i \in 0..0 |-> 0] \in [0..0 -> Nat]
      OBVIOUS
    <3>2. SumsTo([i \in 0..0 |-> 0], w, 0)
      BY DEF SumsTo
    <3> QED BY <3>1, <3>2
  <2> QED BY <1>2, <2>1
<1>4. Good(k - 1)
  <2>1. k \in 0..Len(w) /\ k - 1 \in 0..Len(w)
    BY <1>2, <1>3
  <2>2. k - 1 \notin Bad
    <3> HIDE DEF Bad, Good
    <3> QED BY <1>2, <2>1
  <2> QED BY <2>1, <2>2
<1>5. PICK t \in [0..(k - 1) -> Nat] : SumsTo(t, w, k - 1)
  BY <1>4
<1> DEFINE u == [i \in 0..k |-> IF i = k THEN t[k - 1] + w[k] ELSE t[i]]
<1>6. k \in 1..Len(w) /\ w[k] \in Nat /\ t[k - 1] \in Nat
  BY <1>2, <1>3
<1>7. u \in [0..k -> Nat]
  BY <1>6
<1>8. SumsTo(u, w, k)
  BY <1>5, <1>6, SMTT(30) DEF SumsTo
<1> HIDE DEF u
<1>9. Good(k)
  BY <1>7, <1>8
<1> QED BY <1>2, <1>9

LEMMA TotalsAre ==
  ASSUME NEW w \in Seq(Nat)
  PROVE  /\ Totals(w) \in [0..Len(w) -> Nat]
         /\ SumsTo(Totals(w), w, Len(w))
<1> DEFINE Is(s) == s = [i \in 0..Len(w) |-> IF i = 0 THEN 0 ELSE s[i - 1] + w[i]]
<1>1. Totals(w) = CHOOSE s : Is(s)
  BY DEF Totals
<1>2. PICK t \in [0..Len(w) -> Nat] : SumsTo(t, w, Len(w))
  BY SumsExist
<1>3. Is(t)
  BY <1>2 DEF SumsTo
<1>4. Is(Totals(w))
  BY <1>1, <1>3
<1> DEFINE s == Totals(w)
<1>5. SumsTo(s, w, Len(w))
  BY <1>4 DEF SumsTo
<1>6. DOMAIN s = 0..Len(w) /\ \A i \in 0..Len(w) : s[i] = IF i = 0 THEN 0 ELSE s[i - 1] + w[i]
  BY <1>4
<1> HIDE DEF s
<1> DEFINE Bad == {k \in 0..Len(w) : s[k] \notin Nat}
<1>7. Bad = {}
  <2>1. SUFFICES ASSUME Bad # {} PROVE FALSE
    OBVIOUS
  <2>2. PICK k \in Bad : \A m \in Bad : k <= m
    <3>1. Bad \subseteq Nat
      OBVIOUS
    <3> HIDE DEF Bad
    <3> QED BY <2>1, <3>1, SmallestOf
  <2>3. k \in 1..Len(w)
    BY <2>2, <1>6
  <2>4. k - 1 \in 0..Len(w) /\ k - 1 \notin Bad
    <3>1. k - 1 \in 0..Len(w)
      BY <2>3
    <3> HIDE DEF Bad
    <3> QED BY <2>2, <2>3, <3>1
  <2>5. s[k] \in Nat
    BY <2>3, <2>4, <1>6, SMTT(30)
  <2> QED BY <2>2, <2>5
<1>8. \A k \in 0..Len(w) : s[k] \in Nat
  BY <1>7
<1>9. s = [i \in 0..Len(w) |-> s[i]]
  BY <1>4 DEF s
<1>10. s \in [0..Len(w) -> Nat]
  BY <1>8, <1>9
<1> QED BY <1>5, <1>10 DEF s

(* What adds up like the sums is the sums. *)
LEMMA TotalIs ==
  ASSUME NEW w \in Seq(Nat), NEW t, SumsTo(t, w, Len(w))
  PROVE  t[Len(w)] = Total(w)
<1> DEFINE s == Totals(w)
           Bad == {k \in 0..Len(w) : s[k] # t[k]}
<1>1. s \in [0..Len(w) -> Nat] /\ SumsTo(s, w, Len(w))
  BY TotalsAre
<1> HIDE DEF s
<1>2. ASSUME Bad # {} PROVE FALSE
  <2>2. PICK k \in Bad : \A m \in Bad : k <= m
    <3>1. Bad \subseteq Nat
      OBVIOUS
    <3> HIDE DEF Bad
    <3> QED BY <1>2, <3>1, SmallestOf
  <2>3. k \in 1..Len(w)
    BY <2>2, <1>1 DEF SumsTo
  <2>4. k - 1 \in 0..Len(w) /\ k - 1 \notin Bad
    <3>1. k - 1 \in 0..Len(w)
      BY <2>3
    <3> HIDE DEF Bad
    <3> QED BY <2>2, <2>3, <3>1
  <2>5. s[k - 1] = t[k - 1]
    BY <2>4
  <2>6. s[k] = t[k]
    BY <2>3, <2>5, <1>1 DEF SumsTo
  <2> QED BY <2>2, <2>6
<1>3. s[Len(w)] = t[Len(w)]
  BY <1>2
<1> QED BY <1>3 DEF s, Total

LEMMA TotalIsNat ==
  ASSUME NEW w \in Seq(Nat)
  PROVE  Total(w) \in Nat
BY TotalsAre DEF Total

LEMMA TotalOfConcat ==
  ASSUME NEW u \in Seq(Nat), NEW v \in Seq(Nat)
  PROVE  Total(u \o v) = Total(u) + Total(v)
<1> DEFINE t == [i \in 0..Len(u \o v) |-> IF i <= Len(u) THEN Totals(u)[i] ELSE Total(u) + Totals(v)[i - Len(u)]]
<1>1. /\ Totals(u) \in [0..Len(u) -> Nat] /\ SumsTo(Totals(u), u, Len(u))
      /\ Totals(v) \in [0..Len(v) -> Nat] /\ SumsTo(Totals(v), v, Len(v))
  BY TotalsAre
<1>2. u \o v \in Seq(Nat) /\ Len(u \o v) = Len(u) + Len(v)
  OBVIOUS
<1>3. SumsTo(t, u \o v, Len(u \o v))
  <2>1. SUFFICES ASSUME NEW i \in 0..(Len(u) + Len(v))
                 PROVE  t[i] = IF i = 0 THEN 0 ELSE t[i - 1] + (u \o v)[i]
    BY <1>2 DEF SumsTo
  <2>2. CASE i = 0
    BY <2>2, <1>1 DEF SumsTo
  <2>3. CASE i \in 1..Len(u)
    BY <2>3, <1>1, <1>2 DEF SumsTo
  <2>4. CASE i \in (Len(u) + 1)..(Len(u) + Len(v))
    <3>1. i - Len(u) \in 1..Len(v) /\ (u \o v)[i] = v[i - Len(u)] /\ v[i - Len(u)] \in Nat
      BY <2>4
    <3> DEFINE j == i - Len(u)
    <3>2. Totals(v)[j] = Totals(v)[j - 1] + v[j] /\ Totals(v)[0] = 0 /\ Totals(v)[j - 1] \in Nat
      <4>1. j \in 0..Len(v) /\ j # 0 /\ j - 1 \in 0..Len(v) /\ 0 \in 0..Len(v)
        BY <3>1
      <4> HIDE DEF j
      <4> QED BY <4>1, <1>1 DEF SumsTo
    <3>3. Total(u) = Totals(u)[Len(u)] /\ Total(u) \in Nat
      BY TotalIsNat DEF Total
    <3>4. t[i] = Total(u) + Totals(v)[j]
      BY <2>4, <1>2
    <3>5. t[i - 1] = Total(u) + Totals(v)[j - 1]
      <4>1. CASE i - 1 = Len(u)
        <5>1. t[i - 1] = Totals(u)[i - 1]
          BY <4>1, <1>2
        <5> QED BY <4>1, <5>1, <3>2, <3>3
      <4>2. CASE i - 1 > Len(u)
        BY <4>2, <2>4, <1>2
      <4> QED BY <4>1, <4>2, <2>4
    <3> QED BY <3>1, <3>2, <3>3, <3>4, <3>5, <2>4, SMTT(30)
  <2> QED BY <2>2, <2>3, <2>4
<1> HIDE DEF t
<1>4. t[Len(u \o v)] = Total(u \o v)
  BY <1>2, <1>3, TotalIs
<1>5. t[Len(u \o v)] = Total(u) + Total(v)
  <2>1. CASE v = <<>>
    <3>1. Total(v) = 0
      BY <2>1, <1>1 DEF Total, SumsTo
    <3>2. t[Len(u \o v)] = Totals(u)[Len(u)]
      BY <2>1, <1>2 DEF t
    <3>3. Total(u) = Totals(u)[Len(u)] /\ Total(u) \in Nat
      BY TotalIsNat DEF Total
    <3> QED BY <3>1, <3>2, <3>3
  <2>2. CASE v # <<>>
    BY <2>2, <1>2 DEF t, Total
  <2> QED BY <2>1, <2>2
<1> QED BY <1>4, <1>5

LEMMA TotalOfNothing ==
  ASSUME NEW w \in Seq(Nat), \A i \in DOMAIN w : w[i] = 0
  PROVE  Total(w) = 0
<1> DEFINE t == [i \in 0..Len(w) |-> 0]
<1>1. SumsTo(t, w, Len(w))
  BY DEF SumsTo
<1>2. t[Len(w)] = 0
  OBVIOUS
<1> QED BY <1>1, <1>2, TotalIs

LEMMA TotalOfOne ==
  ASSUME NEW n \in Nat
  PROVE  Total(<<n>>) = n
<1> DEFINE t == [i \in 0..1 |-> IF i = 0 THEN 0 ELSE n]
<1>1. <<n>> \in Seq(Nat) /\ Len(<<n>>) = 1 /\ <<n>>[1] = n
  OBVIOUS
<1>2. SumsTo(t, <<n>>, 1)
  BY <1>1 DEF SumsTo
<1>3. t[1] = n
  OBVIOUS
<1> HIDE DEF t
<1> QED BY <1>1, <1>2, <1>3, TotalIs

-----------------------------------------------------------------------------
(* The elements of a sequence, and sums over them. *)

In(p) == {p[i] : i \in DOMAIN p}

(* What the elements of p add up to. *)
Sum(g, p) == Total([i \in DOMAIN p |-> g[p[i]]])

LEMMA InOfConcat ==
  ASSUME NEW S, NEW p \in Seq(S), NEW q \in Seq(S)
  PROVE  In(p \o q) = In(p) \cup In(q)
<1>1. ASSUME NEW i \in DOMAIN p PROVE i \in DOMAIN (p \o q) /\ (p \o q)[i] = p[i]
  OBVIOUS
<1>2. ASSUME NEW i \in DOMAIN q PROVE Len(p) + i \in DOMAIN (p \o q) /\ (p \o q)[Len(p) + i] = q[i]
  OBVIOUS
<1>3. ASSUME NEW i \in DOMAIN (p \o q) PROVE (p \o q)[i] \in In(p) \cup In(q)
  <2>1. CASE i \in DOMAIN p
    BY <2>1, <1>1 DEF In
  <2>2. CASE i \notin DOMAIN p
    <3>1. i - Len(p) \in DOMAIN q /\ i = Len(p) + (i - Len(p)) /\ (p \o q)[i] = q[i - Len(p)]
      BY <2>2
    <3> QED BY <3>1 DEF In
  <2> QED BY <2>1, <2>2
<1>4. In(p \o q) \subseteq In(p) \cup In(q)
  BY <1>3 DEF In
<1>5. ASSUME NEW e \in In(p) \cup In(q) PROVE e \in In(p \o q)
  <2>1. CASE e \in In(p)
    <3>1. PICK i \in DOMAIN p : p[i] = e
      BY <2>1 DEF In
    <3> QED BY <3>1, <1>1 DEF In
  <2>2. CASE e \in In(q)
    <3>1. PICK i \in DOMAIN q : q[i] = e
      BY <2>2 DEF In
    <3> QED BY <3>1, <1>2 DEF In
  <2> QED BY <1>5, <2>1, <2>2
<1> QED BY <1>4, <1>5

LEMMA SameSequence ==
  ASSUME NEW S, NEW p \in Seq(S), NEW T, NEW q \in Seq(T), Len(p) = Len(q),
         \A i \in 1..Len(p) : p[i] = q[i]
  PROVE  p = q
<1>1. p = [i \in 1..Len(p) |-> p[i]] /\ q = [i \in 1..Len(q) |-> q[i]]
  OBVIOUS
<1>2. [i \in 1..Len(p) |-> p[i]] = [i \in 1..Len(q) |-> q[i]]
  OBVIOUS
<1> QED BY <1>1, <1>2, Zenon

LEMMA ElementOfConcat ==
  ASSUME NEW S, NEW p \in Seq(S), NEW q \in Seq(S), NEW i \in 1..(Len(p) + Len(q))
  PROVE  (p \o q)[i] = IF i <= Len(p) THEN p[i] ELSE q[i - Len(p)]
OBVIOUS

LEMMA InOfOne ==
  ASSUME NEW e
  PROVE  In(<<e>>) = {e}
<1>1. DOMAIN <<e>> = {1} /\ <<e>>[1] = e
  OBVIOUS
<1> QED BY <1>1 DEF In

LEMMA InOfNothing == In(<< >>) = {}
BY DEF In

LEMMA InIsTyped ==
  ASSUME NEW S, NEW p \in Seq(S)
  PROVE  In(p) \subseteq S
BY DEF In

LEMMA SumIsNat ==
  ASSUME NEW S, NEW g \in [S -> Nat], NEW p \in Seq(S)
  PROVE  Sum(g, p) \in Nat /\ [i \in DOMAIN p |-> g[p[i]]] \in Seq(Nat)
<1>1. [i \in DOMAIN p |-> g[p[i]]] \in Seq(Nat)
  OBVIOUS
<1> QED BY <1>1, TotalIsNat DEF Sum

LEMMA SumOfConcat ==
  ASSUME NEW S, NEW g \in [S -> Nat], NEW p \in Seq(S), NEW q \in Seq(S)
  PROVE  Sum(g, p \o q) = Sum(g, p) + Sum(g, q)
<1> DEFINE u == [i \in DOMAIN p |-> g[p[i]]]
           v == [i \in DOMAIN q |-> g[q[i]]]
           x == [i \in DOMAIN (p \o q) |-> g[(p \o q)[i]]]
<1>1. u \in Seq(Nat) /\ v \in Seq(Nat) /\ Len(u) = Len(p) /\ Len(v) = Len(q)
  OBVIOUS
<1>2. p \o q \in Seq(S) /\ x \in Seq(Nat) /\ Len(x) = Len(p) + Len(q)
  OBVIOUS
<1>3. ASSUME NEW i \in 1..(Len(p) + Len(q)) PROVE x[i] = (u \o v)[i]
  <2>1. CASE i <= Len(p)
    BY <2>1
  <2>2. CASE i > Len(p)
    <3>1. i - Len(p) \in DOMAIN q /\ (p \o q)[i] = q[i - Len(p)]
      BY <2>2
    <3>2. x[i] = g[q[i - Len(p)]]
      BY <3>1
    <3>3. (u \o v)[i] = v[i - Len(p)]
      <4> HIDE DEF u, v
      <4> QED BY <2>2, <1>1
    <3> QED BY <3>1, <3>2, <3>3
  <2> QED BY <2>1, <2>2
<1>4. x = u \o v
  <2> HIDE DEF x, u, v
  <2>1. u \o v \in Seq(Nat) /\ Len(u \o v) = Len(x)
    BY <1>1, <1>2
  <2> QED BY <2>1, <1>2, <1>3, SameSequence
<1>5. Total(u \o v) = Total(u) + Total(v)
  BY <1>1, TotalOfConcat
<1> QED BY <1>4, <1>5 DEF Sum

LEMMA SumOfOne ==
  ASSUME NEW S, NEW g \in [S -> Nat], NEW e \in S
  PROVE  Sum(g, <<e>>) = g[e]
<1>1. [i \in DOMAIN <<e>> |-> g[<<e>>[i]]] = <<g[e]>>
  OBVIOUS
<1>2. Total(<<g[e]>>) = g[e]
  BY TotalOfOne
<1> QED BY <1>1, <1>2 DEF Sum

LEMMA SumOfNothing ==
  ASSUME NEW S, NEW g \in [S -> Nat], NEW p \in Seq(S), \A e \in In(p) : g[e] = 0
  PROVE  Sum(g, p) = 0
<1> DEFINE w == [i \in DOMAIN p |-> g[p[i]]]
<1>1. w \in Seq(Nat) /\ \A i \in DOMAIN w : w[i] = 0
  BY DEF In
<1> QED BY <1>1, TotalOfNothing DEF Sum

LEMMA SumOfMiddle ==
  ASSUME NEW S, NEW g \in [S -> Nat], NEW p \in Seq(S), NEW e \in S, NEW q \in Seq(S)
  PROVE  Sum(g, p \o <<e>> \o q) = Sum(g, p \o q) + g[e]
<1>1. <<e>> \in Seq(S) /\ p \o <<e>> \in Seq(S)
  OBVIOUS
<1>2. Sum(g, p \o <<e>> \o q) = (Sum(g, p) + g[e]) + Sum(g, q)
  <2>1. Sum(g, p \o <<e>>) = Sum(g, p) + g[e]
    BY <1>1, SumOfConcat, SumOfOne, Zenon
  <2>2. Sum(g, p \o <<e>> \o q) = Sum(g, p \o <<e>>) + Sum(g, q)
    BY <1>1, SumOfConcat, Zenon
  <2> QED BY <2>1, <2>2, Zenon
<1>3. Sum(g, p \o q) = Sum(g, p) + Sum(g, q)
  BY SumOfConcat
<1>4. Sum(g, p) \in Nat /\ Sum(g, q) \in Nat /\ g[e] \in Nat
  BY SumIsNat
<1> QED BY <1>2, <1>3, <1>4

LEMMA MiddleOf ==
  ASSUME NEW S, NEW p \in Seq(S), NEW i \in DOMAIN p
  PROVE  /\ SubSeq(p, 1, i - 1) \in Seq(S)
         /\ SubSeq(p, i + 1, Len(p)) \in Seq(S)
         /\ p = SubSeq(p, 1, i - 1) \o <<p[i]>> \o SubSeq(p, i + 1, Len(p))
<1> DEFINE a == SubSeq(p, 1, i - 1)
           b == SubSeq(p, i + 1, Len(p))
<1>1. a \in Seq(S) /\ Len(a) = i - 1 /\ \A j \in 1..(i - 1) : a[j] = p[j]
  OBVIOUS
<1>2. b \in Seq(S) /\ Len(b) = Len(p) - i /\ \A j \in 1..(Len(p) - i) : b[j] = p[i + j]
  OBVIOUS
<1> HIDE DEF a, b
<1>3. a \o <<p[i]>> \in Seq(S) /\ Len(a \o <<p[i]>>) = i /\ \A j \in 1..i : (a \o <<p[i]>>)[j] = p[j]
  BY <1>1
<1> DEFINE c == a \o <<p[i]>>
<1> HIDE DEF c
<1>4. c \o b \in Seq(S) /\ Len(c \o b) = Len(p) /\ \A j \in 1..Len(p) : (c \o b)[j] = p[j]
  <2>1. c \in Seq(S) /\ Len(c) = i /\ \A j \in 1..i : c[j] = p[j]
    BY <1>3 DEF c
  <2>2. c \o b \in Seq(S) /\ Len(c \o b) = Len(p)
    BY <2>1, <1>2
  <2>3. ASSUME NEW j \in 1..Len(p) PROVE (c \o b)[j] = p[j]
    <3>0. i \in Nat /\ j \in Nat /\ Len(p) \in Nat
      OBVIOUS
    <3>1. CASE j <= i
      BY <3>1, <2>1, <1>2
    <3>2. CASE j > i
      <4>1. j - i \in 1..(Len(p) - i) /\ i + (j - i) = j
        BY <3>2, <3>0
      <4>2. (c \o b)[j] = b[j - i]
        <5>1. j \in 1..(Len(c) + Len(b)) /\ ~(j <= Len(c)) /\ j - Len(c) = j - i
          BY <3>0, <3>2, <2>1, <1>2
        <5> QED BY <5>1, <2>1, <1>2, ElementOfConcat
      <4>3. b[j - i] = p[i + (j - i)]
        BY <4>1, <1>2, Zenon
      <4> QED BY <4>1, <4>2, <4>3
    <3>3. j <= i \/ j > i
      BY <3>0
    <3> QED BY <3>1, <3>2, <3>3, Zenon
  <2> QED BY <2>2, <2>3
<1>5. p = c \o b
  BY <1>4, SameSequence
<1> QED BY <1>1, <1>2, <1>5 DEF a, b, c

LEMMA SumHolds ==
  ASSUME NEW S, NEW g \in [S -> Nat], NEW p \in Seq(S), NEW e \in In(p)
  PROVE  g[e] <= Sum(g, p)
<1>1. PICK i \in DOMAIN p : p[i] = e
  BY DEF In
<1> DEFINE a == SubSeq(p, 1, i - 1)
           b == SubSeq(p, i + 1, Len(p))
<1>2. a \in Seq(S) /\ b \in Seq(S) /\ p = a \o <<p[i]>> \o b
  BY MiddleOf, Zenon
<1> HIDE DEF a, b
<1>3. e \in S /\ a \o b \in Seq(S)
  BY <1>1, <1>2
<1>4. Sum(g, p) = Sum(g, a \o b) + g[e]
  BY <1>1, <1>2, <1>3, SumOfMiddle
<1>5. Sum(g, a \o b) \in Nat /\ g[e] \in Nat
  BY <1>3, SumIsNat
<1> QED BY <1>4, <1>5

LEMMA InOfMiddle ==
  ASSUME NEW S, NEW p \in Seq(S), NEW e \in S, NEW q \in Seq(S)
  PROVE  In(p \o <<e>> \o q) = In(p \o q) \cup {e}
<1>1. <<e>> \in Seq(S) /\ p \o <<e>> \in Seq(S)
  OBVIOUS
<1>2. In(p \o <<e>>) = In(p) \cup {e}
  <2>1. In(p \o <<e>>) = In(p) \cup In(<<e>>)
    BY <1>1, InOfConcat, ZenonT(60)
  <2>2. In(<<e>>) = {e}
    BY InOfOne
  <2> QED BY <2>1, <2>2
<1>3. In(p \o <<e>> \o q) = In(p \o <<e>>) \cup In(q)
  BY <1>1, InOfConcat, ZenonT(60)
<1>4. In(p \o q) = In(p) \cup In(q)
  BY InOfConcat, ZenonT(60)
<1> QED BY <1>2, <1>3, <1>4

-----------------------------------------------------------------------------
(* The invariant of a terminal and its viewer. *)

DataFrames == [kind : {"data"}, watch : Nat, floor : Nat, seq : Nat, data : Seq(Nat)]
SnapshotFrames == [kind : {"answer", "reset"}, watch : Nat, seq : Nat, era : Nat, geometry : Nat]
OtherFrames == [kind : {"resize"}, geometry : Nat] \cup [kind : {"closed"}]
                 \cup [kind : {"refused"}, watch : Nat]
FrameSet == DataFrames \cup SnapshotFrames \cup OtherFrames
WatchRequests == [kind : {"watch"}, watch : Nat]
AckRequests == [kind : {"ack"}, chars : Nat, snapshot : Nat \cup {Nil}]
Requests == WatchRequests \cup AckRequests \cup [kind : {"unwatch"}]
Takings == [kind : {"watch", "resync"}, seq : Nat, attempt : Nat, step : Nat]
Streams == [watch : Nat, floor : Nat, taking : Takings \cup {Nil}, pending : Seq(Nat), overflowed : BOOLEAN,
            held : BOOLEAN, releasing : BOOLEAN, buffer : Seq(Nat), timer : BOOLEAN, unacked : Nat,
            snapshotUnacked : BOOLEAN, stale : BOOLEAN, resyncing : BOOLEAN]

TerminalTypes ==
  /\ term \in [seq : Nat, era : Nat, geometry : Nat, open : BOOLEAN]
  /\ stream \in Streams \cup {Nil}
  /\ serving \in Nat \cup {Nil}
  /\ out \in Seq(FrameSet) /\ wire \in Seq(FrameSet)
  /\ up \in Seq(Requests)
  /\ view \in [state : {"asking", "watching", "refused", "closed", "lost"}, watch : Nat, floor : Nat,
               early : Seq(FrameSet), unacked : Nat]
  /\ screen \in [watch : Nat, data : Seq(Nat), era : Nat, geometry : Nat]
  /\ happened \subseteq Events

(* What is on its way to the browser, in the order it will be applied. *)
Path == view.early \o wire \o out

(* Frames that carry the screen or its output, and those of the watch w. *)
Snaps(f) == f.kind \in {"answer", "reset"}
Carries(f) == f.kind \in {"answer", "reset", "data"}
Of(w, f) == Carries(f) /\ f.watch = w

(* b is the output up to n. *)
Runs(b, n) == Len(b) <= n /\ \A i \in DOMAIN b : b[i] = n - Len(b) + i

(* A stream, when the output is at n: its buffer ends there; while a snapshot is taken nothing is    *)
(* unacknowledged, and what it may miss is pending.                                                *)
StreamOK(s, n) ==
  /\ s.floor <= n
  /\ Runs(s.buffer, n)
  /\ s.stale => s.buffer = <<>>
  /\ s.held => s.taking # Nil \/ s.releasing
  /\ s.releasing => s.snapshotUnacked
  /\ s.taking # Nil =>
       /\ s.taking.seq <= n /\ s.buffer = <<>> /\ s.unacked = 0 /\ ~s.snapshotUnacked
       /\ IF s.overflowed THEN s.pending = <<>>
          ELSE Runs(s.pending, n) /\ n - Len(s.pending) <= s.taking.seq

(* A frame holds output without a gap, and none that was not produced. *)
FrameOK(f, n) ==
  /\ Snaps(f) => f.seq <= n
  /\ f.kind = "data" => /\ f.data # <<>> /\ f.data[Len(f.data)] <= f.seq /\ f.seq <= n
                        /\ \A i \in DOMAIN f.data : f.data[i] = f.data[1] + i - 1
                        /\ f.data[1] >= 1

StreamInv == stream # Nil => StreamOK(stream, term.seq)
FramesInv == \A f \in In(Path) : FrameOK(f, term.seq)

(* A closed terminal has no stream, and only a closed one is refused or said to be closed. *)
ClosedInv ==
  /\ ~term.open => stream = Nil
  /\ term.open => /\ view.state \notin {"refused", "closed"}
                  /\ \A f \in In(Path) : f.kind \notin {"refused", "closed"}

(* Where the browser stands, and what there is then. *)
StateInv ==
  /\ view.state = "lost" => /\ stream = Nil /\ serving = Nil /\ out = <<>> /\ wire = <<>> /\ up = <<>>
  /\ view.state \in {"watching", "lost"} => view.early = <<>>
  /\ \A f \in In(view.early) : f.kind \notin {"answer", "refused"}

(* Watches are numbered as they are asked for: frames are of the watch being served or of an        *)
(* earlier one, and requests not yet served are for later ones.                                    *)
OrderInv ==
  /\ \A f \in In(Path) : Carries(f) => /\ f.watch <= view.watch
                                       /\ stream # Nil => f.watch <= stream.watch
  /\ stream # Nil => stream.watch <= view.watch
  /\ \A r \in In(up) : r.kind = "watch" =>
       /\ r.watch <= view.watch
       /\ stream # Nil => stream.watch < r.watch
       /\ \A f \in In(Path) : Carries(f) => f.watch < r.watch
  /\ \A i, j \in DOMAIN up : i < j /\ up[i].kind = "watch" /\ up[j].kind = "watch" => up[i].watch < up[j].watch

Answering(s) == s.taking # Nil /\ s.taking.kind = "watch"
IsAnswer(w, f) == f.kind = "answer" /\ f.watch = w

(* A watch is answered once, before any other frame of it; a view that watches has been answered,   *)
(* and nothing it asked for is left to serve.                                                      *)
AnswerInv ==
  /\ stream # Nil /\ Answering(stream) => \A f \in In(Path) : ~Of(stream.watch, f)
  /\ view.state = "asking" =>
       /\ \A i \in DOMAIN Path : Of(view.watch, Path[i]) => \E j \in 1..i : IsAnswer(view.watch, Path[j])
       /\ \A i, j \in DOMAIN Path : IsAnswer(view.watch, Path[i]) /\ IsAnswer(view.watch, Path[j]) => i = j
       /\ stream # Nil /\ stream.watch = view.watch /\ ~Answering(stream) => \E f \in In(Path) : IsAnswer(view.watch, f)
  /\ view.state = "watching" =>
       /\ \A f \in In(Path) : ~IsAnswer(view.watch, f)
       /\ \A r \in In(up) : r.kind # "watch"
       /\ stream # Nil => stream.watch = view.watch /\ ~Answering(stream)

(* Output of an earlier watch is in every later snapshot, so the floor of the view drops it: the     *)
(* view compares no watch, only the numbers of the output.                                         *)
OldInv ==
  /\ \A f, g \in In(Path) : f.kind = "data" /\ Snaps(g) /\ f.watch < g.watch => f.seq <= g.seq
  /\ stream # Nil /\ stream.taking # Nil =>
       \A f \in In(Path) : f.kind = "data" /\ f.watch < stream.watch => f.seq <= stream.taking.seq
  /\ view.state = "watching" /\ screen.watch = view.watch =>
       \A f \in In(Path) : f.kind = "data" /\ f.watch < view.watch => f.seq <= view.floor

(* ScreenIsWhole speaks of a view that shows its watch, when no frame was refused. *)
Unrefused == "refusal" \notin happened
Showing == view.state = "watching" /\ screen.watch = view.watch
(* Nothing of the output is left to a snapshot. *)
Live(s) == s.taking = Nil /\ ~s.stale

(* The output that a screen ends with behind f, and how f continues one that ends with x. *)
Last(f) == IF f.kind = "data" THEN f.data[Len(f.data)] ELSE f.seq
Links(w, f, x, y) ==
  IF Of(w, f) THEN (f.kind = "data" => f.data[1] = x + 1) /\ y = Last(f) ELSE y = x

(* p continues what ends with a by what ends with b, as far as the frames of w are concerned. *)
Leads(w, p, a, b) ==
  \E h \in [0..Len(p) -> Nat] :
    /\ h[0] = a /\ h[Len(p)] = b
    /\ \A i \in 1..Len(p) : Links(w, p[i], h[i - 1], h[i])

(* From the screen over the path to the buffer of the stream: every frame of output continues what    *)
(* the one before it, or the last snapshot, ends with.                                             *)
FlowInv ==
  Unrefused /\ view.state \in {"asking", "watching"} =>
    \E a, b \in Nat :
      /\ Leads(view.watch, Path, a, b)
      /\ Showing => a = Len(screen.data)
      /\ stream # Nil /\ stream.watch = view.watch /\ Live(stream) => b = term.seq - Len(stream.buffer)

(* ScreenIsWhole; and the floor is never past what is shown, so no output is dropped by mistake. *)
ScreenInv == Showing /\ Unrefused => Whole /\ view.floor <= Len(screen.data)

(* AcksMeetTheFloor, over the path as one sequence.  What is on its way or being acknowledged is of  *)
(* the stream's floor, and a snapshot comes before any output counted behind it: until it arrives,  *)
(* nothing else is held or being acknowledged.                                                     *)
CountInv ==
  /\ stream # Nil /\ stream.watch = 0 /\ view.watch = 0 =>
       /\ stream.unacked = Chars(Path) + view.unacked + AckedChars
       /\ Snapshots(Path) + AckedSnapshots = IF stream.snapshotUnacked THEN 1 ELSE 0
       /\ \A f \in In(Path) : /\ f.kind = "data" => f.floor = stream.floor
                              /\ Snaps(f) => f.seq = stream.floor
       /\ \A r \in In(up) : r.kind = "ack" /\ r.snapshot # Nil => r.snapshot = stream.floor
       /\ \A i \in DOMAIN Path : Snaps(Path[i]) =>
            /\ view.unacked = 0 /\ AckedChars = 0
            /\ \A j \in 1..i : Path[j].kind # "data"
  /\ view.watch = 0 /\ (\E r \in In(up) : r.kind = "watch") =>
       view.unacked = 0 /\ \A r \in In(up) : r.kind # "ack"


(* The inductive invariant *)
TerminalInv ==
  /\ TerminalTypes /\ StreamInv /\ FramesInv /\ ClosedInv /\ StateInv /\ OrderInv /\ AnswerInv /\ OldInv
  /\ FlowInv /\ ScreenInv /\ CountInv

-----------------------------------------------------------------------------
(* Leads over a sequence put together, taken apart, without frames of w, and of one frame. *)
LEMMA LeadsConcat ==
  ASSUME NEW S, NEW p \in Seq(S), NEW q \in Seq(S), NEW w, NEW a, NEW b, NEW c,
         Leads(w, p, a, b), Leads(w, q, b, c)
  PROVE  Leads(w, p \o q, a, c)
<1>1. PICK h \in [0..Len(p) -> Nat] :
        h[0] = a /\ h[Len(p)] = b /\ \A i \in 1..Len(p) : Links(w, p[i], h[i - 1], h[i])
  BY DEF Leads
<1>2. PICK k \in [0..Len(q) -> Nat] :
        k[0] = b /\ k[Len(q)] = c /\ \A i \in 1..Len(q) : Links(w, q[i], k[i - 1], k[i])
  BY DEF Leads
<1> DEFINE t == [i \in 0..(Len(p) + Len(q)) |-> IF i <= Len(p) THEN h[i] ELSE k[i - Len(p)]]
<1>3. Len(p \o q) = Len(p) + Len(q) /\ Len(p) \in Nat /\ Len(q) \in Nat
  OBVIOUS
<1>4. t \in [0..Len(p \o q) -> Nat]
  <2>1. ASSUME NEW i \in 0..(Len(p) + Len(q)) PROVE t[i] \in Nat
    <3>1. CASE i <= Len(p)
      BY <3>1, <1>3
    <3>2. CASE i > Len(p)
      <4>1. i - Len(p) \in 0..Len(q)
        BY <3>2, <1>3
      <4>2. t[i] = k[i - Len(p)]
        BY <3>2, <1>3
      <4>3. k[i - Len(p)] \in Nat
        BY <4>1
      <4> QED BY <4>2, <4>3
    <3> QED BY <3>1, <3>2, <1>3
  <2> QED BY <2>1, <1>3
<1>5. t[0] = a
  BY <1>1, <1>3
<1>6. t[Len(p \o q)] = c
  <2>1. CASE Len(q) = 0
    BY <2>1, <1>1, <1>2, <1>3
  <2>2. CASE Len(q) # 0
    BY <2>2, <1>2, <1>3
  <2> QED BY <2>1, <2>2
<1>7. ASSUME NEW i \in 1..(Len(p) + Len(q)) PROVE Links(w, (p \o q)[i], t[i - 1], t[i])
  <2>1. CASE i <= Len(p)
    <3>1. (p \o q)[i] = p[i] /\ t[i] = h[i] /\ t[i - 1] = h[i - 1] /\ i \in 1..Len(p)
      BY <2>1, <1>3, ElementOfConcat
    <3> QED BY <3>1, <1>1
  <2>2. CASE i > Len(p)
    <3> DEFINE j == i - Len(p)
    <3>1. j \in 1..Len(q) /\ (p \o q)[i] = q[j] /\ t[i] = k[j]
      BY <2>2, <1>3, ElementOfConcat
    <3>2. t[i - 1] = k[j - 1]
      <4>1. CASE i - 1 = Len(p)
        <5>1. t[i - 1] = h[Len(p)] /\ j - 1 = 0
          BY <4>1, <1>3
        <5> QED BY <5>1, <1>1, <1>2
      <4>2. CASE i - 1 # Len(p)
        BY <4>2, <2>2, <1>3
      <4> QED BY <4>1, <4>2
    <3> HIDE DEF j, t
    <3> QED BY <3>1, <3>2, <1>2
  <2> QED BY <2>1, <2>2, <1>3
<1> HIDE DEF t
<1> QED BY <1>3, <1>4, <1>5, <1>6, <1>7 DEF Leads

LEMMA LeadsSplit ==
  ASSUME NEW S, NEW p \in Seq(S), NEW q \in Seq(S), NEW w, NEW a, NEW c, Leads(w, p \o q, a, c)
  PROVE  \E b \in Nat : Leads(w, p, a, b) /\ Leads(w, q, b, c)
<1>1. Len(p \o q) = Len(p) + Len(q) /\ Len(p) \in Nat /\ Len(q) \in Nat
  OBVIOUS
<1>2. PICK t \in [0..(Len(p) + Len(q)) -> Nat] :
        /\ t[0] = a /\ t[Len(p) + Len(q)] = c
        /\ \A i \in 1..(Len(p) + Len(q)) : Links(w, (p \o q)[i], t[i - 1], t[i])
  BY <1>1 DEF Leads
<1> DEFINE h == [i \in 0..Len(p) |-> t[i]]
           k == [i \in 0..Len(q) |-> t[Len(p) + i]]
<1>3. h \in [0..Len(p) -> Nat] /\ k \in [0..Len(q) -> Nat]
  BY <1>1
<1>4. h[0] = a /\ k[Len(q)] = c /\ h[Len(p)] = k[0] /\ k[0] \in Nat
  BY <1>1, <1>2
<1>5. ASSUME NEW i \in 1..Len(p) PROVE Links(w, p[i], h[i - 1], h[i])
  <2>1. (p \o q)[i] = p[i] /\ h[i] = t[i] /\ h[i - 1] = t[i - 1] /\ i \in 1..(Len(p) + Len(q))
    BY <1>1, ElementOfConcat
  <2> QED BY <2>1, <1>2
<1>6. ASSUME NEW i \in 1..Len(q) PROVE Links(w, q[i], k[i - 1], k[i])
  <2> DEFINE j == Len(p) + i
  <2>1. j \in 1..(Len(p) + Len(q)) /\ (p \o q)[j] = q[i] /\ k[i] = t[j] /\ k[i - 1] = t[j - 1]
    BY <1>1, ElementOfConcat
  <2> HIDE DEF j, k
  <2> QED BY <2>1, <1>2
<1> HIDE DEF h, k
<1>7. Leads(w, p, a, k[0])
  BY <1>3, <1>4, <1>5 DEF Leads
<1>8. Leads(w, q, k[0], c)
  BY <1>3, <1>4, <1>6 DEF Leads
<1> QED BY <1>4, <1>7, <1>8

LEMMA LeadsNowhere ==
  ASSUME NEW S, NEW p \in Seq(S), NEW w, NEW a \in Nat, \A f \in In(p) : ~Of(w, f)
  PROVE  Leads(w, p, a, a)
<1> DEFINE h == [i \in 0..Len(p) |-> a]
<1>1. h \in [0..Len(p) -> Nat] /\ h[0] = a /\ h[Len(p)] = a
  OBVIOUS
<1>2. ASSUME NEW i \in 1..Len(p) PROVE Links(w, p[i], h[i - 1], h[i])
  <2>1. ~Of(w, p[i]) /\ h[i - 1] = a /\ h[i] = a
    BY DEF In
  <2> HIDE DEF h
  <2> QED BY <2>1 DEF Links
<1> HIDE DEF h
<1> QED BY <1>1, <1>2 DEF Leads

LEMMA LeadsOne ==
  ASSUME NEW f, NEW w, NEW a \in Nat, NEW b \in Nat
  PROVE  Leads(w, <<f>>, a, b) <=> Links(w, f, a, b)
<1>1. Len(<<f>>) = 1 /\ <<f>>[1] = f
  OBVIOUS
<1>2. ASSUME Leads(w, <<f>>, a, b) PROVE Links(w, f, a, b)
  <2>1. PICK h \in [0..1 -> Nat] : h[0] = a /\ h[1] = b /\ \A i \in 1..1 : Links(w, <<f>>[i], h[i - 1], h[i])
    BY <1>1, <1>2 DEF Leads
  <2>2. Links(w, <<f>>[1], h[1 - 1], h[1])
    BY <2>1
  <2> QED BY <2>1, <2>2, <1>1
<1>3. ASSUME Links(w, f, a, b) PROVE Leads(w, <<f>>, a, b)
  <2> DEFINE h == [i \in 0..1 |-> IF i = 0 THEN a ELSE b]
  <2>1. h \in [0..1 -> Nat] /\ h[0] = a /\ h[1] = b
    OBVIOUS
  <2>2. \A i \in 1..1 : Links(w, <<f>>[i], h[i - 1], h[i])
    <3>1. Links(w, <<f>>[1], h[1 - 1], h[1])
      BY <1>1, <1>3, <2>1
    <3> HIDE DEF h
    <3> QED BY <3>1
  <2> HIDE DEF h
  <2> QED BY <1>1, <2>1, <2>2 DEF Leads
<1> QED BY <1>2, <1>3

-----------------------------------------------------------------------------
(* flush: what the frames of a buffer hold. *)

(* What a flush has sent with its first j frames. *)
Flushed(s, j) == IF j * Chunk < Len(s.buffer) THEN j * Chunk ELSE Len(s.buffer)

LEMMA ChunksAre ==
  /\ Chunk \in Nat /\ Chunk >= 1 /\ Window \in Nat /\ Window >= 1
  /\ \A j \in Nat : j * Chunk \in Nat /\ j * Chunk >= j /\ (j + 1) * Chunk = j * Chunk + Chunk
  /\ 0 * Chunk = 0
<1>1. Chunk \in Nat /\ Chunk >= 1 /\ Window \in Nat /\ Window >= 1
  BY TerminalAssumption
<1>2. ASSUME NEW j \in Nat PROVE j * Chunk \in Nat /\ j * Chunk >= j /\ (j + 1) * Chunk = j * Chunk + Chunk
  <2>1. j * Chunk \in Nat /\ (j + 1) * Chunk = j * Chunk + Chunk
    BY <1>1
  <2>2. j * Chunk >= j
    BY <1>1
  <2> QED BY <2>1, <2>2
<1> QED BY <1>1, <1>2

(* The frames of a flush: the first n of those the buffer fills. *)
LEMMA FramesAre ==
  ASSUME NEW s \in Streams, s.buffer # <<>>
  PROVE  \E n \in 1..Len(s.buffer) :
           /\ Flushed(s, n) = Len(s.buffer) \/ s.unacked + Flushed(s, n) > Window
           /\ \A j \in 1..n : (j - 1) * Chunk < Len(s.buffer)
           /\ Frames(s) = [j \in 1..n |->
                [kind |-> "data", watch |-> s.watch, floor |-> s.floor, seq |-> s.buffer[Len(s.buffer)],
                 data |-> SubSeq(s.buffer, (j - 1) * Chunk + 1, Flushed(s, j))]]
<1> DEFINE Past(j) == s.unacked + Flushed(s, j) > Window
           sent == {j \in 1..Len(s.buffer) : /\ (j - 1) * Chunk < Len(s.buffer)
                                             /\ \A i \in 1..(j - 1) : ~Past(i)}
           F(j) == [kind |-> "data", watch |-> s.watch, floor |-> s.floor, seq |-> s.buffer[Len(s.buffer)],
                    data |-> SubSeq(s.buffer, (j - 1) * Chunk + 1, Flushed(s, j))]
           L == Len(s.buffer)
<1>1. Frames(s) = [j \in sent |-> F(j)]
  BY DEF Frames, Flushed
<1>2. L \in Nat /\ L >= 1
  BY DEF Streams
<1> DEFINE Missing == {j \in Nat \ {0} : j \notin sent}
<1>3. PICK m \in Missing : \A j \in Missing : m <= j
  <2>1. Missing \subseteq Nat
    OBVIOUS
  <2>2. L + 1 \in Missing
    BY <1>2
  <2> HIDE DEF Missing
  <2> QED BY <2>1, <2>2, SmallestOf
<1>4. 1 \in sent
  <2>1. (1 - 1) * Chunk < L
    BY <1>2, ChunksAre
  <2>2. 1..(1 - 1) = {} /\ 1 \in 1..L
    BY <1>2
  <2> HIDE DEF Past, L
  <2> QED BY <2>1, <2>2 DEF L
<1>5. m \in Nat /\ m >= 2
  BY <1>3, <1>4
<1>6. ASSUME NEW j \in 1..(m - 1) PROVE j \in sent
  <2>1. j \in Nat \ {0} /\ ~(m <= j)
    BY <1>5
  <2> HIDE DEF sent
  <2> QED BY <2>1, <1>3
<1>7. m - 1 \in sent
  <2>1. m - 1 \in 1..(m - 1)
    BY <1>5
  <2> QED BY <2>1, <1>6, Zenon
<1>8. Flushed(s, m - 1) = L \/ Past(m - 1)
  <2>1. CASE m <= L /\ (m - 1) * Chunk < L
    <3>1. PICK i \in 1..(m - 1) : Past(i)
      BY <2>1, <1>3, <1>5
    <3>2. i # m - 1 => FALSE
      <4>1. ASSUME i # m - 1 PROVE i \in 1..((m - 1) - 1)
        BY <4>1, <1>5
      <4>2. \A x \in 1..((m - 1) - 1) : ~Past(x)
        BY <1>7
      <4> HIDE DEF Past
      <4> QED BY <4>1, <4>2, <3>1
    <3> QED BY <3>1, <3>2
  <2>2. CASE m > L
    <3>1. m - 1 = L
      BY <2>2, <1>7, <1>2, <1>5
    <3>2. L * Chunk >= L
      BY <1>2, ChunksAre
    <3> QED BY <3>1, <3>2, <1>2, ChunksAre DEF Flushed
  <2>3. CASE ~((m - 1) * Chunk < L)
    BY <2>3 DEF Flushed
  <2> QED BY <2>1, <2>2, <2>3, <1>2, <1>5
<1>9. sent = 1..(m - 1)
  <2>1. ASSUME NEW j \in sent PROVE j \in 1..(m - 1)
    <3>1. j \in 1..L
      OBVIOUS
    <3>2. ASSUME j >= m PROVE FALSE
      <4>0. j \in Nat /\ m \in Nat
        BY <3>1, <1>5
      <4>1. m \in 1..L
        BY <3>1, <3>2, <1>5, <1>2
      <4>2. (m - 1) * Chunk < L
        <5>1. CASE j = m
          BY <5>1
        <5>2. CASE j # m
          <6>1. m * Chunk <= (j - 1) * Chunk
            <7>1. m <= j - 1 /\ j - 1 \in Nat
              BY <5>2, <3>2, <4>0, <1>5
            <7> QED BY <7>1, <4>0, ChunksAre
          <6>2. (m - 1) * Chunk <= m * Chunk
            BY <4>0, ChunksAre
          <6>3. (j - 1) * Chunk < L
            OBVIOUS
          <6>4. (m - 1) * Chunk \in Int /\ m * Chunk \in Int /\ (j - 1) * Chunk \in Int
            BY <4>0, ChunksAre
          <6> QED BY <6>1, <6>2, <6>3, <6>4, <1>2
        <5> QED BY <5>1, <5>2
      <4>3. \A i \in 1..(m - 1) : i \in 1..(j - 1)
        BY <4>0, <3>2
      <4>4. \A i \in 1..(j - 1) : ~Past(i)
        OBVIOUS
      <4> HIDE DEF Past
      <4>5. m \in sent
        BY <4>1, <4>2, <4>3, <4>4
      <4> QED BY <4>5, <1>3
    <3> QED BY <3>1, <3>2, <1>5
  <2> HIDE DEF sent
  <2> QED BY <2>1, <1>6
<1>10. m - 1 \in 1..L
  BY <1>7
<1>11. \A j \in 1..(m - 1) : (j - 1) * Chunk < L
  BY <1>6
<1>12. Frames(s) = [j \in 1..(m - 1) |-> F(j)]
  <2> HIDE DEF sent, F
  <2> QED BY <1>1, <1>9
<1> HIDE DEF sent
<1> QED BY <1>8, <1>10, <1>11, <1>12

LEMMA RunsAre ==
  ASSUME NEW b \in Seq(Nat), NEW m \in Nat, Runs(b, m), b # <<>>
  PROVE  /\ Len(b) \in Nat /\ Len(b) >= 1 /\ Len(b) <= m
         /\ \A i \in 1..Len(b) : b[i] = m - Len(b) + i
         /\ b[Len(b)] = m
<1>1. Len(b) \in Nat /\ Len(b) >= 1 /\ DOMAIN b = 1..Len(b)
  OBVIOUS
<1>2. Len(b) <= m /\ \A i \in 1..Len(b) : b[i] = m - Len(b) + i
  BY <1>1 DEF Runs
<1> QED BY <1>1, <1>2

LEMMA PieceIs ==
  ASSUME NEW b \in Seq(Nat), NEW lo \in Nat, NEW hi \in 1..Len(b), lo < hi
  PROVE  /\ SubSeq(b, lo + 1, hi) \in Seq(Nat) /\ Len(SubSeq(b, lo + 1, hi)) = hi - lo
         /\ \A i \in 1..(hi - lo) : SubSeq(b, lo + 1, hi)[i] = b[lo + i]
OBVIOUS

(* They are the output of the buffer, one frame behind the other, to its end or past the window. *)
LEMMA FlushIs ==
  ASSUME NEW s \in Streams, NEW m \in Nat, Runs(s.buffer, m), s.buffer # <<>>
  PROVE  /\ Frames(s) \in Seq(FrameSet)
         /\ \A f \in In(Frames(s)) : /\ f \in DataFrames /\ FrameOK(f, m)
                                     /\ f.watch = s.watch /\ f.floor = s.floor
         /\ Chars(Frames(s)) \in Nat
         /\ \E c \in Nat : /\ Leads(s.watch, Frames(s), m - Len(s.buffer), c)
                           /\ c = m \/ s.unacked + Chars(Frames(s)) > Window
<1> DEFINE L == Len(s.buffer)
           D(j) == SubSeq(s.buffer, (j - 1) * Chunk + 1, Flushed(s, j))
           F(j) == [kind |-> "data", watch |-> s.watch, floor |-> s.floor, seq |-> s.buffer[L], data |-> D(j)]
<1>1. PICK n \in 1..L :
        /\ Flushed(s, n) = L \/ s.unacked + Flushed(s, n) > Window
        /\ \A j \in 1..n : (j - 1) * Chunk < L
        /\ Frames(s) = [j \in 1..n |-> F(j)]
  BY FramesAre
<1>2. s.buffer \in Seq(Nat) /\ s.watch \in Nat /\ s.floor \in Nat /\ s.unacked \in Nat
  BY DEF Streams
<1>3. L \in Nat /\ L >= 1 /\ L <= m /\ \A i \in 1..L : s.buffer[i] = m - L + i
  BY <1>2, RunsAre
<1>4. ASSUME NEW j \in 1..n
      PROVE  /\ Flushed(s, j) \in 1..L /\ (j - 1) * Chunk \in Nat /\ (j - 1) * Chunk < Flushed(s, j)
             /\ Flushed(s, j - 1) = (j - 1) * Chunk
  <2>1. j \in Nat /\ j - 1 \in Nat /\ (j - 1) * Chunk < L
    BY <1>1, <1>3
  <2>2. (j - 1) * Chunk \in Nat /\ ((j - 1) + 1) * Chunk = (j - 1) * Chunk + Chunk
    BY <2>1, ChunksAre
  <2>3. j * Chunk = (j - 1) * Chunk + Chunk
    BY <2>1, <2>2
  <2> QED BY <2>1, <2>2, <2>3, <1>3, ChunksAre DEF Flushed
<1>5. Flushed(s, 0) = 0
  BY <1>3, ChunksAre DEF Flushed
<1>6. ASSUME NEW j \in 1..n
      PROVE  /\ D(j) \in Seq(Nat) /\ Len(D(j)) = Flushed(s, j) - Flushed(s, j - 1)
             /\ Len(D(j)) >= 1
             /\ \A i \in 1..Len(D(j)) : D(j)[i] = m - L + Flushed(s, j - 1) + i
  <2> DEFINE lo == Flushed(s, j - 1)
             hi == Flushed(s, j)
  <2>1. lo \in Nat /\ hi \in 1..L /\ lo < hi /\ D(j) = SubSeq(s.buffer, lo + 1, hi)
    BY <1>4
  <2> HIDE DEF lo, hi, D
  <2>2. D(j) \in Seq(Nat) /\ Len(D(j)) = hi - lo /\ \A i \in 1..(hi - lo) : D(j)[i] = s.buffer[lo + i]
    <3>1. /\ SubSeq(s.buffer, lo + 1, hi) \in Seq(Nat) /\ Len(SubSeq(s.buffer, lo + 1, hi)) = hi - lo
          /\ \A i \in 1..(hi - lo) : SubSeq(s.buffer, lo + 1, hi)[i] = s.buffer[lo + i]
      BY <2>1, <1>2, PieceIs
    <3> QED BY <3>1, <2>1, Zenon
  <2>3. ASSUME NEW i \in 1..(hi - lo) PROVE D(j)[i] = m - L + lo + i
    <3>1. D(j)[i] = s.buffer[lo + i]
      BY <2>2
    <3>2. lo + i \in 1..L
      BY <2>1, <1>3
    <3>3. s.buffer[lo + i] = m - L + (lo + i)
      BY <3>2, <1>3, Zenon
    <3> HIDE DEF L
    <3> QED BY <3>1, <3>3, <1>3, <2>1
  <2> QED BY <2>1, <2>2, <2>3 DEF lo, hi
<1> HIDE DEF D
<1>7. ASSUME NEW j \in 1..n
      PROVE  F(j) \in DataFrames /\ FrameOK(F(j), m) /\ Last(F(j)) = m - L + Flushed(s, j)
  <2>1. s.buffer[L] = m
    BY <1>2, RunsAre
  <2>2. F(j) \in DataFrames
    BY <1>2, <1>6, <2>1 DEF DataFrames
  <2>3. Flushed(s, j) \in 1..L /\ Flushed(s, j - 1) \in Nat
    BY <1>4
  <2>4. Len(D(j)) \in 1..Len(D(j)) /\ 1 \in 1..Len(D(j))
    BY <1>6
  <2>5. D(j)[Len(D(j))] = m - L + Flushed(s, j)
    <3>1. D(j)[Len(D(j))] = m - L + Flushed(s, j - 1) + Len(D(j))
      BY <1>6, <2>4
    <3>2. Len(D(j)) = Flushed(s, j) - Flushed(s, j - 1)
      BY <1>6
    <3> HIDE DEF L
    <3> QED BY <3>1, <3>2, <2>3, <1>3
  <2>6. D(j)[1] = m - L + Flushed(s, j - 1) + 1
    BY <1>6, <2>4
  <2>7. FrameOK(F(j), m)
    <3>1. D(j) # <<>>
      BY <1>6
    <3>2. \A i \in 1..Len(D(j)) : D(j)[i] = D(j)[1] + i - 1
      <4> HIDE DEF L
      <4>1. ASSUME NEW i \in 1..Len(D(j)) PROVE D(j)[i] = D(j)[1] + i - 1
        <5>1. D(j)[i] = m - L + Flushed(s, j - 1) + i
          BY <1>6
        <5> QED BY <5>1, <1>3, <2>3, <2>6
      <4> QED BY <4>1
    <3>3. DOMAIN D(j) = 1..Len(D(j))
      BY <1>6
    <3>4. D(j)[1] >= 1 /\ D(j)[Len(D(j))] <= m
      <4> HIDE DEF L
      <4> QED BY <1>3, <2>3, <2>5, <2>6
    <3>5. F(j).seq = m
      BY <2>1
    <3> QED BY <3>1, <3>2, <3>3, <3>4, <3>5 DEF FrameOK, Snaps
  <2> QED BY <2>2, <2>5, <2>7 DEF Last
<1>8. Len(Frames(s)) = n /\ DOMAIN Frames(s) = 1..n /\ \A j \in 1..n : Frames(s)[j] = F(j)
  <2>1. n \in Nat
    BY <1>3
  <2> HIDE DEF F
  <2> QED BY <1>1, <2>1
<1>9. Frames(s) \in Seq(DataFrames)
  <2>1. n \in Nat
    BY <1>3
  <2> HIDE DEF F
  <2> QED BY <1>1, <1>7, <2>1
<1>10. Frames(s) \in Seq(FrameSet)
  BY <1>9 DEF FrameSet
<1>11. \A f \in In(Frames(s)) : /\ f \in DataFrames /\ FrameOK(f, m) /\ f.watch = s.watch /\ f.floor = s.floor
  BY <1>7, <1>8 DEF In
<1>12. Chars(Frames(s)) = Flushed(s, n)
  <2> DEFINE u == [i \in DOMAIN Frames(s) |-> Size(Frames(s)[i])]
             t == [i \in 0..n |-> Flushed(s, i)]
  <2>1. ASSUME NEW i \in 1..n PROVE Size(Frames(s)[i]) = Flushed(s, i) - Flushed(s, i - 1) /\ Size(Frames(s)[i]) \in Nat
    <3>1. Size(Frames(s)[i]) = Len(D(i))
      BY <1>8 DEF Size
    <3> QED BY <3>1, <1>6
  <2>2. u \in Seq(Nat) /\ Len(u) = n /\ \A i \in 1..n : u[i] = Flushed(s, i) - Flushed(s, i - 1)
    <3>1. n \in Nat
      BY <1>3
    <3> QED BY <2>1, <3>1, <1>8
  <2>3. SumsTo(t, u, n)
    <3> HIDE DEF u
    <3>1. ASSUME NEW i \in 0..n PROVE t[i] = IF i = 0 THEN 0 ELSE t[i - 1] + u[i]
      <4>1. CASE i = 0
        BY <4>1, <1>5
      <4>2. CASE i # 0
        <5>1. i \in 1..n /\ i - 1 \in 0..n
          BY <4>2
        <5>2. Flushed(s, i) \in Nat /\ Flushed(s, i - 1) \in Nat
          BY <5>1, <1>4
        <5>3. t[i] = Flushed(s, i) /\ t[i - 1] = Flushed(s, i - 1)
          BY <5>1
        <5> QED BY <4>2, <5>1, <5>2, <5>3, <2>2
      <4> QED BY <4>1, <4>2
    <3> HIDE DEF t
    <3> QED BY <3>1 DEF SumsTo
  <2>4. t[n] = Flushed(s, n)
    BY <1>3
  <2> HIDE DEF t, u
  <2>5. t[n] = Total(u)
    BY <2>2, <2>3, TotalIs
  <2> QED BY <2>4, <2>5 DEF Chars, u
<1>13. Leads(s.watch, Frames(s), m - L, m - L + Flushed(s, n))
  <2> DEFINE h == [i \in 0..n |-> m - L + Flushed(s, i)]
  <2>1. h \in [0..n -> Nat]
    <3>1. ASSUME NEW i \in 0..n PROVE m - L + Flushed(s, i) \in Nat
      <4>1. CASE i = 0
        BY <4>1, <1>5, <1>3
      <4>2. CASE i # 0
        BY <4>2, <1>4, <1>3, SMTT(30)
      <4> QED BY <4>1, <4>2
    <3> QED BY <3>1
  <2>2. h[0] = m - L /\ h[n] = m - L + Flushed(s, n)
    BY <1>3, <1>5
  <2>3. ASSUME NEW i \in 1..n PROVE Links(s.watch, Frames(s)[i], h[i - 1], h[i])
    <3>1. h[i] = m - L + Flushed(s, i) /\ h[i - 1] = m - L + Flushed(s, i - 1)
      OBVIOUS
    <3>2. F(i).data[1] = m - L + Flushed(s, i - 1) + 1
      BY <1>6
    <3>3. Of(s.watch, F(i))
      BY DEF Of, Carries
    <3>4. Last(F(i)) = h[i]
      BY <3>1, <1>7
    <3> HIDE DEF F, h
    <3>5. Frames(s)[i] = F(i)
      BY <1>8
    <3> QED BY <3>1, <3>2, <3>3, <3>4, <3>5 DEF Links
  <2> HIDE DEF h
  <2> QED BY <1>8, <2>1, <2>2, <2>3 DEF Leads
<1>14. Flushed(s, n) \in Nat /\ m - L + Flushed(s, n) \in Nat
  BY <1>3, <1>4
<1>15. Flushed(s, n) = L => m - L + Flushed(s, n) = m
  BY <1>3
<1> HIDE DEF F
<1> QED BY <1>1, <1>10, <1>11, <1>12, <1>13, <1>14, <1>15

-----------------------------------------------------------------------------
(* takeSnapshot and fallBehind: what becomes of a stream. *)

(* Nothing to acknowledge stands between a stream and its resync. *)
Settled(s) == ~s.snapshotUnacked /\ ~(s.unacked > 0)

(* r differs from s by a resync at most. *)
Resynced(s, r) ==
  /\ r.watch = s.watch /\ r.floor = s.floor /\ r.buffer = s.buffer
  /\ r.unacked = s.unacked /\ r.snapshotUnacked = s.snapshotUnacked
  /\ r = s \/ /\ s.stale /\ s.taking = Nil
              /\ r.taking # Nil /\ r.taking.seq = term.seq /\ r.taking.kind = "resync"

LEMMA TakingIs ==
  ASSUME NEW k \in {"watch", "resync"}, term.seq \in Nat
  PROVE  LET t == [kind |-> k, seq |-> term.seq, attempt |-> 1, step |-> 1]
         IN t \in Takings /\ t # Nil
BY TerminalAssumption DEF Takings

LEMMA MaybeResyncIs ==
  ASSUME NEW s \in Streams, term.seq \in Nat, StreamOK(s, term.seq)
  PROVE  /\ MaybeResync(s) \in Streams /\ StreamOK(MaybeResync(s), term.seq)
         /\ Resynced(s, MaybeResync(s))
<1> DEFINE t == [kind |-> "resync", seq |-> term.seq, attempt |-> 1, step |-> 1]
           r == [s EXCEPT !.resyncing = TRUE, !.stale = FALSE, !.taking = t, !.held = TRUE, !.releasing = FALSE,
                          !.buffer = <<>>, !.timer = FALSE, !.pending = <<>>, !.overflowed = FALSE]
<1>1. MaybeResync(s) = s \/ /\ s.stale /\ s.taking = Nil /\ ~s.snapshotUnacked /\ ~(s.unacked > 0)
                            /\ MaybeResync(s) = r
  BY DEF MaybeResync, TakeSnapshot, Snapshotting, Streams
<1>2. CASE MaybeResync(s) = s
  BY <1>2 DEF Resynced
<1>3. CASE s.stale /\ s.taking = Nil /\ ~s.snapshotUnacked /\ ~(s.unacked > 0) /\ MaybeResync(s) = r
  <2>1. t \in Takings /\ t # Nil /\ t.seq = term.seq /\ t.kind = "resync"
    BY TakingIs
  <2> HIDE DEF t
  <2>2. r \in Streams
    <3>1. ASSUME NEW e \in Seq(Nat)
          PROVE  [s EXCEPT !.resyncing = TRUE, !.stale = FALSE, !.taking = t, !.held = TRUE, !.releasing = FALSE,
                           !.buffer = e, !.timer = FALSE, !.pending = e, !.overflowed = FALSE] \in Streams
      BY <2>1 DEF Streams
    <3>2. <<>> \in Seq(Nat)
      OBVIOUS
    <3> QED BY <3>1, <3>2, Zenon
  <2>3. /\ r.watch = s.watch /\ r.floor = s.floor /\ r.buffer = <<>> /\ r.unacked = s.unacked
        /\ r.snapshotUnacked = s.snapshotUnacked /\ r.taking = t /\ r.stale = FALSE /\ r.releasing = FALSE
        /\ r.pending = <<>> /\ r.overflowed = FALSE
    BY DEF Streams
  <2>4. s.buffer = <<>> /\ s.unacked = 0 /\ s.floor <= term.seq
    BY <1>3 DEF StreamOK, Streams
  <2>5. Runs(<<>>, term.seq)
    BY DEF Runs
  <2> HIDE DEF r
  <2>6. StreamOK(r, term.seq)
    BY <2>1, <2>3, <2>4, <2>5, <1>3 DEF StreamOK
  <2> QED BY <1>3, <2>1, <2>2, <2>3, <2>4, <2>6 DEF Resynced
<1> QED BY <1>1, <1>2, <1>3

LEMMA NoResync ==
  ASSUME NEW s \in Streams, ~Settled(s)
  PROVE  MaybeResync(s) = s
BY DEF MaybeResync, Settled

(* s without its buffer, fallen behind *)
Behind(s) == [s EXCEPT !.stale = TRUE, !.buffer = <<>>, !.timer = FALSE]

LEMMA BehindIs ==
  ASSUME NEW s \in Streams, NEW m \in Nat, StreamOK(s, m)
  PROVE  /\ Behind(s) \in Streams /\ StreamOK(Behind(s), m)
         /\ Behind(s).watch = s.watch /\ Behind(s).floor = s.floor /\ Behind(s).unacked = s.unacked
         /\ Behind(s).snapshotUnacked = s.snapshotUnacked /\ Behind(s).taking = s.taking
         /\ Behind(s).buffer = <<>> /\ Behind(s).stale
<1>1. Behind(s) \in Streams
  <2>1. ASSUME NEW e \in Seq(Nat) PROVE [s EXCEPT !.stale = TRUE, !.buffer = e, !.timer = FALSE] \in Streams
    BY DEF Streams
  <2>2. <<>> \in Seq(Nat)
    OBVIOUS
  <2> QED BY <2>1, <2>2, Zenon DEF Behind
<1>2. /\ Behind(s).watch = s.watch /\ Behind(s).floor = s.floor /\ Behind(s).unacked = s.unacked
      /\ Behind(s).snapshotUnacked = s.snapshotUnacked /\ Behind(s).taking = s.taking
      /\ Behind(s).buffer = <<>> /\ Behind(s).stale
      /\ Behind(s).held = s.held /\ Behind(s).releasing = s.releasing
      /\ Behind(s).pending = s.pending /\ Behind(s).overflowed = s.overflowed
  BY DEF Behind, Streams
<1>3. Runs(<<>>, m)
  BY DEF Runs
<1>4. StreamOK(Behind(s), m)
  BY <1>2, <1>3 DEF StreamOK
<1> QED BY <1>1, <1>2, <1>4

LEMMA SentIs ==
  ASSUME NEW s \in Streams, NEW m \in Nat, StreamOK(s, m), s.buffer # <<>>
  PROVE  /\ Sent(s) \in Streams /\ StreamOK(Sent(s), m)
         /\ Sent(s).watch = s.watch /\ Sent(s).floor = s.floor /\ Sent(s).snapshotUnacked = s.snapshotUnacked
         /\ Sent(s).taking = Nil /\ Sent(s).buffer = <<>>
         /\ Sent(s).unacked = s.unacked + Chars(Frames(s))
         /\ Sent(s).stale \/ ~(s.unacked + Chars(Frames(s)) > Window)
<1> DEFINE k == s.unacked + Chars(Frames(s))
           after == [s EXCEPT !.unacked = k, !.buffer = <<>>, !.timer = FALSE]
<1>1. s.unacked \in Nat /\ s.buffer \in Seq(Nat) /\ s.taking = Nil /\ ~s.stale /\ Runs(s.buffer, m)
  BY DEF StreamOK, Streams
<1>2. k \in Nat
  <2>1. Chars(Frames(s)) \in Nat
    BY <1>1, FlushIs
  <2> QED BY <1>1, <2>1
<1>3. Sent(s) = IF k > Window THEN FallBehind(after) ELSE after
  BY DEF Sent, Streams
<1> HIDE DEF k
<1>4. after \in Streams
  <2>1. ASSUME NEW e \in Seq(Nat) PROVE [s EXCEPT !.unacked = k, !.buffer = e, !.timer = FALSE] \in Streams
    BY <1>2 DEF Streams
  <2>2. <<>> \in Seq(Nat)
    OBVIOUS
  <2> QED BY <2>1, <2>2, Zenon
<1>5. /\ after.watch = s.watch /\ after.floor = s.floor /\ after.unacked = k /\ after.buffer = <<>>
      /\ after.snapshotUnacked = s.snapshotUnacked /\ after.taking = s.taking
      /\ after.held = s.held /\ after.releasing = s.releasing /\ after.stale = s.stale
  BY DEF Streams
<1> HIDE DEF after
<1>6. StreamOK(after, m)
  <2>1. Runs(<<>>, m)
    BY DEF Runs
  <2> QED BY <1>1, <1>5, <2>1 DEF StreamOK
<1>7. CASE k > Window
  <2>1. FallBehind(after) = MaybeResync(Behind(after))
    BY DEF FallBehind, Behind
  <2>2. Behind(after).unacked = k /\ Behind(after) \in Streams
    BY <1>4, <1>5, <1>6, BehindIs
  <2>3. ~Settled(Behind(after))
    BY <2>2, <1>2, <1>7, ChunksAre DEF Settled
  <2>4. Sent(s) = Behind(after)
    BY <1>3, <1>7, <2>1, <2>2, <2>3, NoResync
  <2> QED BY <2>4, <1>1, <1>4, <1>5, <1>6, BehindIs DEF k
<1>8. CASE ~(k > Window)
  BY <1>1, <1>3, <1>4, <1>5, <1>6, <1>8 DEF k
<1> QED BY <1>7, <1>8

-----------------------------------------------------------------------------
(* What is on the path, counted; and the steps of a stream. *)

(* What the frames and the requests weigh in the counts. *)
FrameChars == [f \in FrameSet |-> Size(f)]
FrameSnapshots == [f \in FrameSet |-> IF f.kind \in {"answer", "reset"} THEN 1 ELSE 0]
RequestChars == [r \in Requests |-> IF r.kind = "ack" THEN r.chars ELSE 0]
RequestSnapshots == [r \in Requests |-> IF r.kind = "ack" /\ r.snapshot # Nil THEN 1 ELSE 0]

LEMMA KindIs ==
  ASSUME NEW f \in FrameSet
  PROVE  /\ f.kind = "data" => f \in DataFrames /\ f.watch \in Nat /\ f.floor \in Nat /\ f.seq \in Nat /\ f.data \in Seq(Nat)
         /\ Snaps(f) => f \in SnapshotFrames /\ f.watch \in Nat /\ f.seq \in Nat /\ f.era \in Nat /\ f.geometry \in Nat
         /\ f.kind \in {"answer", "reset", "data", "resize", "closed", "refused"}
         /\ Carries(f) => f.watch \in Nat
         /\ f.kind = "refused" => f.watch \in Nat
         /\ f.kind = "resize" => f.geometry \in Nat
BY DEF FrameSet, DataFrames, SnapshotFrames, OtherFrames, Snaps, Carries

LEMMA RequestIs ==
  ASSUME NEW r \in Requests
  PROVE  /\ r.kind = "ack" => r.chars \in Nat /\ r.snapshot \in Nat \cup {Nil}
         /\ r.kind = "watch" => r.watch \in Nat
         /\ r.kind \in {"ack", "watch", "unwatch"}
BY DEF Requests, WatchRequests, AckRequests

LEMMA WeightsAre ==
  /\ FrameChars \in [FrameSet -> Nat] /\ FrameSnapshots \in [FrameSet -> Nat]
  /\ RequestChars \in [Requests -> Nat] /\ RequestSnapshots \in [Requests -> Nat]
<1>1. ASSUME NEW f \in FrameSet PROVE Size(f) \in Nat
  BY KindIs DEF Size
<1>2. ASSUME NEW r \in Requests PROVE (IF r.kind = "ack" THEN r.chars ELSE 0) \in Nat
  BY RequestIs
<1> QED BY <1>1, <1>2 DEF FrameChars, FrameSnapshots, RequestChars, RequestSnapshots

LEMMA CountsAre ==
  ASSUME NEW p \in Seq(FrameSet)
  PROVE  Chars(p) = Sum(FrameChars, p) /\ Snapshots(p) = Sum(FrameSnapshots, p)
<1>1. \A i \in DOMAIN p : p[i] \in FrameSet
  OBVIOUS
<1>2. [i \in DOMAIN p |-> Size(p[i])] = [i \in DOMAIN p |-> FrameChars[p[i]]]
  BY <1>1 DEF FrameChars
<1>3. [i \in DOMAIN p |-> IF p[i].kind \in {"answer", "reset"} THEN 1 ELSE 0]
        = [i \in DOMAIN p |-> FrameSnapshots[p[i]]]
  BY <1>1 DEF FrameSnapshots
<1> QED BY <1>2, <1>3 DEF Chars, Snapshots, Sum

LEMMA CountsOfConcat ==
  ASSUME NEW p \in Seq(FrameSet), NEW q \in Seq(FrameSet)
  PROVE  /\ Chars(p \o q) = Chars(p) + Chars(q) /\ Snapshots(p \o q) = Snapshots(p) + Snapshots(q)
         /\ Chars(p) \in Nat /\ Snapshots(p) \in Nat
<1>1. p \o q \in Seq(FrameSet)
  OBVIOUS
<1>2. Sum(FrameChars, p \o q) = Sum(FrameChars, p) + Sum(FrameChars, q)
  BY WeightsAre, SumOfConcat
<1>3. Sum(FrameSnapshots, p \o q) = Sum(FrameSnapshots, p) + Sum(FrameSnapshots, q)
  BY WeightsAre, SumOfConcat
<1>4. Sum(FrameChars, p) \in Nat /\ Sum(FrameSnapshots, p) \in Nat
  BY WeightsAre, SumIsNat
<1> QED BY <1>1, <1>2, <1>3, <1>4, CountsAre

LEMMA CountsOfMiddle ==
  ASSUME NEW p \in Seq(FrameSet), NEW f \in FrameSet, NEW q \in Seq(FrameSet)
  PROVE  /\ Chars(p \o <<f>> \o q) = Chars(p \o q) + Size(f)
         /\ Snapshots(p \o <<f>> \o q) = Snapshots(p \o q) + IF Snaps(f) THEN 1 ELSE 0
         /\ Chars(p \o q) \in Nat /\ Snapshots(p \o q) \in Nat
<1>1. p \o q \in Seq(FrameSet) /\ p \o <<f>> \o q \in Seq(FrameSet)
  OBVIOUS
<1>2. Sum(FrameChars, p \o <<f>> \o q) = Sum(FrameChars, p \o q) + FrameChars[f]
  BY WeightsAre, SumOfMiddle
<1>3. Sum(FrameSnapshots, p \o <<f>> \o q) = Sum(FrameSnapshots, p \o q) + FrameSnapshots[f]
  BY WeightsAre, SumOfMiddle
<1>4. FrameChars[f] = Size(f) /\ FrameSnapshots[f] = IF Snaps(f) THEN 1 ELSE 0
  BY DEF FrameChars, FrameSnapshots, Snaps
<1>5. Chars(p \o q) \in Nat /\ Snapshots(p \o q) \in Nat
  BY <1>1, WeightsAre, SumIsNat, CountsAre
<1> QED BY <1>1, <1>2, <1>3, <1>4, <1>5, CountsAre

LEMMA CountsOfNothing ==
  ASSUME NEW p \in Seq(FrameSet)
  PROVE  /\ (\A f \in In(p) : f.kind # "data") => Chars(p) = 0
         /\ (\A f \in In(p) : ~Snaps(f)) => Snapshots(p) = 0
<1>1. ASSUME \A f \in In(p) : f.kind # "data" PROVE Chars(p) = 0
  <2>1. \A f \in In(p) : FrameChars[f] = 0
    BY <1>1, InIsTyped DEF FrameChars, Size
  <2> QED BY <2>1, WeightsAre, SumOfNothing, CountsAre
<1>2. ASSUME \A f \in In(p) : ~Snaps(f) PROVE Snapshots(p) = 0
  <2>1. \A f \in In(p) : FrameSnapshots[f] = 0
    BY <1>2, InIsTyped DEF FrameSnapshots, Snaps
  <2> QED BY <2>1, WeightsAre, SumOfNothing, CountsAre
<1> QED BY <1>1, <1>2

LEMMA CountsHold ==
  ASSUME NEW p \in Seq(FrameSet), NEW f \in In(p)
  PROVE  Size(f) <= Chars(p) /\ (Snaps(f) => 1 <= Snapshots(p)) /\ Chars(p) \in Nat /\ Snapshots(p) \in Nat
<1>1. f \in FrameSet
  BY InIsTyped
<1>2. FrameChars[f] <= Sum(FrameChars, p) /\ FrameSnapshots[f] <= Sum(FrameSnapshots, p)
  BY WeightsAre, SumHolds
<1>3. Sum(FrameChars, p) \in Nat /\ Sum(FrameSnapshots, p) \in Nat
  BY WeightsAre, SumIsNat
<1> QED BY <1>1, <1>2, <1>3, CountsAre DEF FrameChars, FrameSnapshots, Snaps

-----------------------------------------------------------------------------
(* What was produced reaches the frames, or waits in the buffer behind them. *)
Feeds(s, r, fs, n, m) ==
  \A b \in Nat : (Live(s) => b = n - Len(s.buffer)) =>
    \E c \in Nat : Leads(s.watch, fs, b, c) /\ (Live(r) => c = m - Len(r.buffer))

(* The stream s becomes r and sends the frames fs, while the output grows from n to m. *)
Extends(s, r, fs, n, m) ==
  /\ r \in Streams /\ StreamOK(r, m) /\ r.watch = s.watch
  /\ fs \in Seq(FrameSet)
  /\ \A f \in In(fs) : /\ FrameOK(f, m) /\ f.kind \notin {"refused", "closed"}
                       /\ Carries(f) => f.watch = s.watch
                       /\ Snaps(f) => s.taking # Nil /\ f.seq = s.taking.seq
  /\ Answering(r) => Answering(s) /\ \A f \in In(fs) : ~Carries(f)
  /\ Answering(s) /\ ~Answering(r) => Len(fs) = 1 /\ fs[1].kind = "answer"
  /\ ~Answering(s) => \A f \in In(fs) : f.kind # "answer"
  /\ r.taking # Nil => n <= r.taking.seq \/ (s.taking # Nil /\ s.taking.seq <= r.taking.seq)
  /\ Feeds(s, r, fs, n, m)

(* ... and counts what it sends: with what is unacknowledged, or from a snapshot on. *)
Adds(s, r, fs) ==
  /\ \A f \in In(fs) : /\ f.kind = "data" => f.floor = r.floor
                       /\ Snaps(f) => f.seq = r.floor
  /\ \/ /\ \A f \in In(fs) : ~Snaps(f)
        /\ r.unacked = s.unacked + Chars(fs)
        /\ r.snapshotUnacked = s.snapshotUnacked /\ r.floor = s.floor
     \/ /\ s.taking # Nil
        /\ r.unacked = Chars(fs) /\ r.snapshotUnacked /\ Snapshots(fs) = 1
        /\ \A i \in DOMAIN fs : Snaps(fs[i]) => i = 1

LEMMA NothingSent ==
  /\ <<>> \in Seq(FrameSet) /\ In(<< >>) = {} /\ Chars(<< >>) = 0 /\ Snapshots(<< >>) = 0
<1>1. <<>> \in Seq(FrameSet) /\ In(<< >>) = {}
  BY InOfNothing
<1> QED BY <1>1, CountsOfNothing

LEMMA QuietStep ==
  ASSUME NEW s \in Streams, NEW r \in Streams, NEW n \in Nat, NEW m \in Nat, StreamOK(r, m), r.watch = s.watch,
         Answering(r) <=> Answering(s),
         r.taking # Nil => n <= r.taking.seq \/ (s.taking # Nil /\ s.taking.seq <= r.taking.seq),
         Live(r) => Live(s) /\ m - Len(r.buffer) = n - Len(s.buffer)
  PROVE  /\ Extends(s, r, <<>>, n, m)
         /\ r.unacked = s.unacked /\ r.snapshotUnacked = s.snapshotUnacked /\ r.floor = s.floor => Adds(s, r, <<>>)
<1>1. ASSUME NEW b \in Nat PROVE Leads(s.watch, <<>>, b, b)
  BY NothingSent, LeadsNowhere
<1>2. Feeds(s, r, <<>>, n, m)
  BY <1>1 DEF Feeds
<1>3. Extends(s, r, <<>>, n, m)
  BY <1>2, NothingSent DEF Extends
<1>4. s.unacked \in Nat
  BY DEF Streams
<1> QED BY <1>3, <1>4, NothingSent DEF Adds

LEMMA FlushStep ==
  ASSUME NEW s \in Streams, NEW m \in Nat, StreamOK(s, m), s.buffer # <<>>
  PROVE  /\ Extends(s, Sent(s), Frames(s), m, m) /\ Adds(s, Sent(s), Frames(s))
         /\ \A f \in In(Frames(s)) : f.kind = "data"
<1>1. s.taking = Nil /\ ~s.stale /\ Runs(s.buffer, m) /\ s.unacked \in Nat
  BY DEF StreamOK, Streams
<1> DEFINE fs == Frames(s)
           r == Sent(s)
<1>2. /\ fs \in Seq(FrameSet)
      /\ \A f \in In(fs) : f \in DataFrames /\ FrameOK(f, m) /\ f.watch = s.watch /\ f.floor = s.floor
      /\ Chars(fs) \in Nat
  BY <1>1, FlushIs, Zenon
<1>3. PICK c \in Nat : /\ Leads(s.watch, fs, m - Len(s.buffer), c)
                       /\ c = m \/ s.unacked + Chars(fs) > Window
  BY <1>1, FlushIs, Zenon
<1>4. /\ r \in Streams /\ StreamOK(r, m) /\ r.watch = s.watch /\ r.floor = s.floor
      /\ r.snapshotUnacked = s.snapshotUnacked /\ r.taking = Nil /\ r.buffer = <<>>
      /\ r.unacked = s.unacked + Chars(fs) /\ (r.stale \/ ~(s.unacked + Chars(fs) > Window))
  BY SentIs
<1>5. \A f \in In(fs) : f.kind = "data"
  BY <1>2 DEF DataFrames
<1> HIDE DEF fs, r
<1>6. Feeds(s, r, fs, m, m)
  <2>1. Live(s)
    BY <1>1 DEF Live
  <2>2. Live(r) => c = m /\ m - Len(r.buffer) = m
    BY <1>3, <1>4 DEF Live
  <2> QED BY <1>3, <2>1, <2>2 DEF Feeds
<1>7. ~Answering(s) /\ ~Answering(r)
  BY <1>1, <1>4 DEF Answering
<1>8. \A f \in In(fs) : ~Snaps(f) /\ f.kind \notin {"refused", "closed", "answer"}
  BY <1>5 DEF Snaps
<1>9. Extends(s, r, fs, m, m)
  BY <1>2, <1>4, <1>6, <1>7, <1>8 DEF Extends
<1>10. Adds(s, r, fs)
  BY <1>2, <1>4, <1>8 DEF Adds
<1> QED BY <1>5, <1>9, <1>10 DEF fs, r

(* Frames of output or of the geometry behind what a stream that answers no watch sent. *)
LEMMA StepsExtend ==
  ASSUME NEW s \in Streams, NEW q, NEW r, NEW f1, NEW f2, NEW n \in Nat, NEW k \in Nat, NEW m \in Nat,
         n <= k, k <= m, ~Answering(s),
         Extends(s, q, f1, n, k), Extends(q, r, f2, k, m),
         \A f \in In(f2) : ~Snaps(f)
  PROVE  Extends(s, r, f1 \o f2, n, m)
<1>1. f1 \in Seq(FrameSet) /\ f2 \in Seq(FrameSet) /\ f1 \o f2 \in Seq(FrameSet)
  BY DEF Extends
<1>2. In(f1 \o f2) = In(f1) \cup In(f2)
  BY <1>1, InOfConcat, ZenonT(60)
<1>3. ~Answering(q) /\ ~Answering(r) /\ q.watch = s.watch /\ r.watch = s.watch /\ q \in Streams /\ r \in Streams
  BY DEF Extends
<1>4. ASSUME NEW f \in In(f1)
      PROVE  /\ FrameOK(f, m) /\ f.kind \notin {"refused", "closed"} /\ f.kind # "answer"
             /\ Carries(f) => f.watch = s.watch
             /\ Snaps(f) => s.taking # Nil /\ f.seq = s.taking.seq
  <2>1. FrameOK(f, k) /\ f \in FrameSet
    BY <1>1, InIsTyped DEF Extends
  <2>2. FrameOK(f, m)
    BY <2>1, KindIs DEF FrameOK
  <2> QED BY <2>2 DEF Extends
<1>5. ASSUME NEW f \in In(f2)
      PROVE  /\ FrameOK(f, m) /\ f.kind \notin {"refused", "closed"} /\ f.kind # "answer"
             /\ Carries(f) => f.watch = s.watch
             /\ ~Snaps(f)
  BY <1>3 DEF Extends
<1>6. Feeds(s, r, f1 \o f2, n, m)
  <2>1. SUFFICES ASSUME NEW b \in Nat, Live(s) => b = n - Len(s.buffer)
                 PROVE  \E d \in Nat : Leads(s.watch, f1 \o f2, b, d) /\ (Live(r) => d = m - Len(r.buffer))
    BY DEF Feeds
  <2>2. PICK c \in Nat : Leads(s.watch, f1, b, c) /\ (Live(q) => c = k - Len(q.buffer))
    BY <2>1 DEF Extends, Feeds
  <2>3. PICK d \in Nat : Leads(s.watch, f2, c, d) /\ (Live(r) => d = m - Len(r.buffer))
    BY <1>3, <2>2 DEF Extends, Feeds
  <2>4. Leads(s.watch, f1 \o f2, b, d)
    BY <1>1, <2>2, <2>3, LeadsConcat
  <2> QED BY <2>3, <2>4
<1>7. r.taking # Nil => n <= r.taking.seq \/ (s.taking # Nil /\ s.taking.seq <= r.taking.seq)
  <2>1. /\ r.taking # Nil => k <= r.taking.seq \/ (q.taking # Nil /\ q.taking.seq <= r.taking.seq)
        /\ q.taking # Nil => n <= q.taking.seq \/ (s.taking # Nil /\ s.taking.seq <= q.taking.seq)
    BY DEF Extends
  <2>2. /\ r.taking # Nil => r.taking.seq \in Nat
        /\ q.taking # Nil => q.taking.seq \in Nat
        /\ s.taking # Nil => s.taking.seq \in Nat
    BY <1>3 DEF Streams, Takings
  <2> DEFINE x == s.taking.seq
             y == q.taking.seq
             z == r.taking.seq
  <2> HIDE DEF x, y, z
  <2>3. CASE r.taking # Nil /\ k <= z
    <3>1. z \in Nat
      BY <2>2, <2>3 DEF z
    <3> QED BY <2>3, <3>1 DEF z
  <2>4. CASE r.taking # Nil /\ q.taking # Nil /\ y <= z
    <3>1. z \in Nat /\ y \in Nat /\ (s.taking # Nil => x \in Nat)
      BY <2>2, <2>4 DEF x, y, z
    <3>2. n <= y \/ (s.taking # Nil /\ x <= y)
      BY <2>1, <2>4 DEF x, y
    <3>3. n <= z \/ (s.taking # Nil /\ x <= z)
      BY <2>4, <3>1, <3>2
    <3> QED BY <3>3 DEF x, z
  <2> QED BY <2>1, <2>3, <2>4 DEF y, z
<1>8. StreamOK(r, m)
  BY DEF Extends
<1> QED BY <1>1, <1>2, <1>3, <1>4, <1>5, <1>6, <1>7, <1>8 DEF Extends

LEMMA StepsAdd ==
  ASSUME NEW s \in Streams, NEW q \in Streams, NEW r \in Streams,
         NEW f1 \in Seq(FrameSet), NEW f2 \in Seq(FrameSet),
         Adds(s, q, f1), Adds(q, r, f2), \A f \in In(f2) : ~Snaps(f)
  PROVE  Adds(s, r, f1 \o f2)
<1>1. In(f1 \o f2) = In(f1) \cup In(f2)
  BY InOfConcat, ZenonT(60)
<1>2. /\ Chars(f1 \o f2) = Chars(f1) + Chars(f2) /\ Snapshots(f1 \o f2) = Snapshots(f1) + Snapshots(f2)
      /\ Chars(f1) \in Nat /\ Chars(f2) \in Nat /\ Snapshots(f1) \in Nat
  BY CountsOfConcat
<1>3. Snapshots(f2) = 0
  BY CountsOfNothing
<1>4. /\ r.unacked = q.unacked + Chars(f2) /\ r.snapshotUnacked = q.snapshotUnacked /\ r.floor = q.floor
  <2>1. ~(Snapshots(f2) = 1)
    BY <1>3
  <2> QED BY <2>1 DEF Adds
<1>5. \A f \in In(f1 \o f2) : (f.kind = "data" => f.floor = r.floor) /\ (Snaps(f) => f.seq = r.floor)
  BY <1>1, <1>4 DEF Adds
<1>6. s.unacked \in Nat /\ q.unacked \in Nat
  BY DEF Streams
<1>7. CASE (\A f \in In(f1) : ~Snaps(f)) /\ q.unacked = s.unacked + Chars(f1)
             /\ q.snapshotUnacked = s.snapshotUnacked /\ q.floor = s.floor
  BY <1>1, <1>2, <1>4, <1>5, <1>6, <1>7 DEF Adds
<1>8. CASE /\ s.taking # Nil
           /\ q.unacked = Chars(f1) /\ q.snapshotUnacked /\ Snapshots(f1) = 1
           /\ \A i \in DOMAIN f1 : Snaps(f1[i]) => i = 1
  <2>1. ASSUME NEW i \in DOMAIN (f1 \o f2), Snaps((f1 \o f2)[i]) PROVE i = 1
    <3>1. CASE i <= Len(f1)
      BY <3>1, <2>1, <1>8
    <3>2. CASE i > Len(f1)
      <4>1. i - Len(f1) \in DOMAIN f2 /\ (f1 \o f2)[i] = f2[i - Len(f1)]
        BY <3>2
      <4> QED BY <4>1, <2>1 DEF In
    <3> QED BY <3>1, <3>2
  <2>2. Snapshots(f1 \o f2) = 1
    BY <1>2, <1>3, <1>8
  <2>3. r.unacked = Chars(f1 \o f2) /\ r.snapshotUnacked
    BY <1>2, <1>4, <1>8
  <2> QED BY <2>1, <2>2, <2>3, <1>5, <1>8 DEF Adds
<1> QED BY <1>7, <1>8 DEF Adds

-----------------------------------------------------------------------------
(* The handlers of the host that extend its stream: feed. *)

LEMMA StreamTyped ==
  ASSUME TerminalTypes, StreamInv, stream # Nil
  PROVE  /\ stream \in Streams /\ StreamOK(stream, term.seq) /\ term.seq \in Nat
         /\ stream.floor \in Nat /\ stream.unacked \in Nat /\ stream.buffer \in Seq(Nat) /\ stream.pending \in Seq(Nat)
         /\ stream.watch \in Nat
         /\ (stream.taking # Nil => stream.taking \in Takings)
         /\ Len(stream.buffer) \in Nat
<1>1. stream \in Streams /\ StreamOK(stream, term.seq) /\ term.seq \in Nat
  BY DEF TerminalTypes, StreamInv
<1>2. /\ stream.floor \in Nat /\ stream.unacked \in Nat /\ stream.buffer \in Seq(Nat) /\ stream.pending \in Seq(Nat)
      /\ stream.watch \in Nat /\ stream.taking \in Takings \cup {Nil}
  BY <1>1 DEF Streams
<1>3. Len(stream.buffer) \in Nat
  BY <1>2
<1> QED BY <1>1, <1>2, <1>3

LEMMA RunsOn ==
  ASSUME NEW b \in Seq(Nat), NEW n \in Nat, Runs(b, n)
  PROVE  /\ Append(b, n + 1) \in Seq(Nat) /\ Runs(Append(b, n + 1), n + 1)
         /\ Len(Append(b, n + 1)) = Len(b) + 1 /\ Append(b, n + 1) # <<>>
<1>1. Append(b, n + 1) \in Seq(Nat) /\ Len(Append(b, n + 1)) = Len(b) + 1
  OBVIOUS
<1>2. ASSUME NEW i \in 1..(Len(b) + 1) PROVE Append(b, n + 1)[i] = (n + 1) - (Len(b) + 1) + i
  <2>1. CASE i <= Len(b)
    BY <2>1 DEF Runs
  <2>2. CASE i = Len(b) + 1
    BY <2>2
  <2> QED BY <2>1, <2>2
<1>3. Len(b) <= n
  BY DEF Runs
<1> DEFINE c == Append(b, n + 1)
<1>4. DOMAIN c = 1..(Len(b) + 1) /\ c # <<>>
  BY <1>1
<1> HIDE DEF c
<1> QED BY <1>1, <1>2, <1>3, <1>4 DEF Runs, c

LEMMA RunsFromNothing == \A m \in Nat : Runs(<<>>, m)
BY DEF Runs

(* feed, to a stream whose snapshot is taken *)
LEMMA KeepIs ==
  ASSUME NEW s \in Streams, NEW n \in Nat, StreamOK(s, n), s.taking # Nil
  PROVE  Extends(s, Keep(s, n + 1), <<>>, n, n + 1) /\ Adds(s, Keep(s, n + 1), <<>>)
<1> DEFINE r == Keep(s, n + 1)
<1>1. s.pending \in Seq(Nat) /\ s.buffer = <<>> /\ s.taking.seq \in Nat /\ s.floor \in Nat /\ s.taking \in Takings
  BY DEF StreamOK, Streams, Takings
<1>2. /\ r.watch = s.watch /\ r.floor = s.floor /\ r.taking = s.taking /\ r.buffer = s.buffer /\ r.stale = s.stale
      /\ r.held = s.held /\ r.releasing = s.releasing /\ r.unacked = s.unacked
      /\ r.snapshotUnacked = s.snapshotUnacked
      /\ \/ r.pending = <<>> /\ r.overflowed
         \/ r.pending = Append(s.pending, n + 1) /\ ~r.overflowed /\ ~s.overflowed /\ r.overflowed = s.overflowed
  BY DEF Keep, Streams
<1>3. r \in Streams
  <2>1. ASSUME NEW e \in Seq(Nat) PROVE [s EXCEPT !.pending = e, !.overflowed = TRUE] \in Streams
    BY DEF Streams
  <2>2. ASSUME NEW e \in Seq(Nat) PROVE [s EXCEPT !.pending = e] \in Streams
    BY DEF Streams
  <2>3. <<>> \in Seq(Nat) /\ Append(s.pending, n + 1) \in Seq(Nat)
    BY <1>1
  <2>4. [s EXCEPT !.pending = <<>>, !.overflowed = TRUE] \in Streams /\ [s EXCEPT !.pending = Append(@, n + 1)] \in Streams
    BY <2>1, <2>2, <2>3
  <2> QED BY <2>4 DEF Keep
<1> HIDE DEF r
<1>4. StreamOK(r, n + 1)
  <2>1. s.floor <= n /\ s.taking.seq <= n /\ s.unacked = 0 /\ ~s.snapshotUnacked
    BY DEF StreamOK
  <2>2. ASSUME ~r.overflowed PROVE Runs(r.pending, n + 1) /\ (n + 1) - Len(r.pending) <= r.taking.seq
    <3>1. Runs(s.pending, n) /\ n - Len(s.pending) <= s.taking.seq /\ r.pending = Append(s.pending, n + 1)
      BY <1>2, <2>2 DEF StreamOK
    <3>2. Len(s.pending) \in Nat
      BY <1>1
    <3>3. Runs(r.pending, n + 1) /\ Len(r.pending) = Len(s.pending) + 1
      BY <1>1, <3>1, RunsOn
    <3>4. (n + 1) - Len(r.pending) = n - Len(s.pending) /\ r.taking.seq = s.taking.seq
      BY <1>2, <3>2, <3>3
    <3> QED BY <3>1, <3>3, <3>4
  <2>3. r.overflowed => r.pending = <<>>
    BY <1>2
  <2>4. Runs(r.buffer, n + 1)
    BY <1>1, <1>2, RunsFromNothing
  <2>5. r.floor <= n + 1 /\ r.taking.seq <= n + 1
    BY <1>1, <1>2, <2>1
  <2>6. (r.held => r.taking # Nil \/ r.releasing) /\ (r.releasing => r.snapshotUnacked)
    BY <1>2 DEF StreamOK
  <2>7. r.stale => r.buffer = <<>>
    BY <1>1, <1>2
  <2>8. r.unacked = 0 /\ ~r.snapshotUnacked /\ r.buffer = <<>>
    BY <1>1, <1>2, <2>1
  <2>9. IF r.overflowed THEN r.pending = <<>>
        ELSE Runs(r.pending, n + 1) /\ (n + 1) - Len(r.pending) <= r.taking.seq
    BY <2>2, <2>3
  <2>10. r.taking # Nil =>
           /\ r.taking.seq <= n + 1 /\ r.buffer = <<>> /\ r.unacked = 0 /\ ~r.snapshotUnacked
           /\ IF r.overflowed THEN r.pending = <<>>
              ELSE Runs(r.pending, n + 1) /\ (n + 1) - Len(r.pending) <= r.taking.seq
    BY <2>5, <2>8, <2>9, Zenon
  <2>11. r.floor <= n + 1
    BY <2>5
  <2>12. (r.held => r.taking # Nil \/ r.releasing)
    BY <2>6
  <2>13. (r.releasing => r.snapshotUnacked)
    BY <2>6
  <2> QED BY <2>4, <2>7, <2>10, <2>11, <2>12, <2>13 DEF StreamOK
<1>5. Answering(r) <=> Answering(s)
  BY <1>2 DEF Answering
<1>6. r.taking # Nil => n <= r.taking.seq \/ (s.taking # Nil /\ s.taking.seq <= r.taking.seq)
  BY <1>1, <1>2
<1>7. ~Live(r)
  BY <1>2 DEF Live
<1> QED BY <1>2, <1>3, <1>4, <1>5, <1>6, <1>7, QuietStep DEF r

(* enqueue *)
LEMMA MoreIs ==
  ASSUME NEW s \in Streams, NEW n \in Nat, StreamOK(s, n), s.taking = Nil, ~s.stale
  PROVE  LET more == [s EXCEPT !.buffer = Append(@, n + 1)]
         IN /\ more \in Streams /\ StreamOK(more, n + 1) /\ more.buffer # <<>>
            /\ Len(more.buffer) = Len(s.buffer) + 1
            /\ more.watch = s.watch /\ more.floor = s.floor /\ more.unacked = s.unacked
            /\ more.snapshotUnacked = s.snapshotUnacked /\ more.taking = Nil /\ ~more.stale
            /\ more.held = s.held /\ more.releasing = s.releasing
            /\ Extends(s, more, <<>>, n, n + 1) /\ Adds(s, more, <<>>)
<1> DEFINE more == [s EXCEPT !.buffer = Append(@, n + 1)]
<1>1. s.buffer \in Seq(Nat) /\ s.floor \in Nat /\ Runs(s.buffer, n) /\ s.floor <= n
  BY DEF Streams, StreamOK
<1>2. more \in Streams
  <2>1. ASSUME NEW e \in Seq(Nat) PROVE [s EXCEPT !.buffer = e] \in Streams
    BY DEF Streams
  <2>2. Append(s.buffer, n + 1) \in Seq(Nat)
    BY <1>1
  <2>3. [s EXCEPT !.buffer = Append(s.buffer, n + 1)] \in Streams
    BY <2>1, <2>2, Zenon
  <2> QED BY <2>3
<1>3. /\ more.watch = s.watch /\ more.floor = s.floor /\ more.unacked = s.unacked
      /\ more.snapshotUnacked = s.snapshotUnacked /\ more.taking = s.taking /\ more.stale = s.stale
      /\ more.held = s.held /\ more.releasing = s.releasing /\ more.buffer = Append(s.buffer, n + 1)
  BY DEF Streams
<1> HIDE DEF more
<1>4. StreamOK(more, n + 1)
  <2>1. more.floor <= n + 1
    BY <1>1, <1>3
  <2> QED BY <1>1, <1>3, <2>1, RunsOn DEF StreamOK
<1>5. ~Answering(s) /\ ~Answering(more)
  BY <1>3 DEF Answering
<1>6. Live(s) /\ (n + 1) - Len(more.buffer) = n - Len(s.buffer) /\ Len(more.buffer) = Len(s.buffer) + 1 /\ more.buffer # <<>>
  <2>1. Len(more.buffer) = Len(s.buffer) + 1 /\ more.buffer # <<>> /\ Len(s.buffer) \in Nat
    BY <1>1, <1>3, RunsOn, SMTT(30)
  <2> QED BY <2>1 DEF Live
<1>7. Extends(s, more, <<>>, n, n + 1) /\ Adds(s, more, <<>>)
  <2>1. more.taking = Nil /\ n + 1 \in Nat
    BY <1>3
  <2>2. Extends(s, more, <<>>, n, n + 1)
        /\ (more.unacked = s.unacked /\ more.snapshotUnacked = s.snapshotUnacked /\ more.floor = s.floor
             => Adds(s, more, <<>>))
    BY <1>2, <1>3, <1>4, <1>5, <1>6, <2>1, QuietStep
  <2> QED BY <1>3, <2>2
<1> QED BY <1>2, <1>3, <1>4, <1>6, <1>7 DEF more

(* A stream, and frames that extend it: what a handler of the host does. *)
Moves ==
  \E fs : /\ out' = out \o fs
          /\ Extends(stream, stream', fs, term.seq, term'.seq)
          /\ Adds(stream, stream', fs)

LEMMA OutIs ==
  ASSUME TerminalTypes
  PROVE  out = out \o <<>> /\ out \in Seq(FrameSet)
BY DEF TerminalTypes

LEMMA OutputMoves ==
  ASSUME TerminalTypes, StreamInv, stream # Nil, Output
  PROVE  Moves
<1> DEFINE n == term.seq
           s == stream
           more == [s EXCEPT !.buffer = Append(@, n + 1)]
<1>1. /\ s \in Streams /\ StreamOK(s, n) /\ n \in Nat /\ s.floor \in Nat /\ s.buffer \in Seq(Nat)
      /\ term'.seq = n + 1
  BY StreamTyped DEF Output, TerminalTypes
<1>2. CASE Snapshotting(stream)
  <2>1. stream' = Keep(stream, n + 1) /\ out' = out \o <<>>
    BY <1>2 DEF Output, Becomes
  <2> QED BY <1>1, <1>2, <2>1, KeepIs DEF Moves, Snapshotting
<1>3. CASE ~Snapshotting(stream) /\ stream.stale
  <2>1. stream' = stream /\ out' = out \o <<>>
    BY <1>3 DEF Output, Enqueue, Becomes
  <2>2. s.taking = Nil /\ s.buffer = <<>> /\ ~Live(s)
    BY <1>1, <1>3 DEF Snapshotting, StreamOK, Live
  <2>3. StreamOK(s, n + 1)
    <3>1. Runs(s.buffer, n + 1) /\ s.floor <= n + 1
      BY <1>1, <2>2, RunsFromNothing DEF StreamOK
    <3> QED BY <1>1, <2>2, <3>1 DEF StreamOK
  <2>4. n + 1 \in Nat
    BY <1>1
  <2>5. Extends(s, s, <<>>, n, n + 1) /\ Adds(s, s, <<>>)
    BY <1>1, <2>2, <2>3, <2>4, QuietStep
  <2> QED BY <1>1, <2>1, <2>5 DEF Moves
<1>4. CASE ~Snapshotting(stream) /\ ~stream.stale
  <2>1. s.taking = Nil
    BY <1>4 DEF Snapshotting
  <2>2. /\ more \in Streams /\ StreamOK(more, n + 1) /\ more.buffer # <<>>
        /\ more.watch = s.watch /\ more.floor = s.floor /\ more.unacked = s.unacked
        /\ more.snapshotUnacked = s.snapshotUnacked /\ more.taking = Nil /\ ~more.stale
        /\ more.held = s.held /\ more.releasing = s.releasing
        /\ Extends(s, more, <<>>, n, n + 1) /\ Adds(s, more, <<>>)
    BY <1>1, <1>4, <2>1, MoreIs
  <2>3. Enqueue(s, n + 1)
    BY <1>4 DEF Output
  <2>4. s.floor <= n /\ ~(n + 1 <= s.floor)
    <3>1. s.floor <= n
      BY <1>1 DEF StreamOK
    <3> QED BY <1>1, <3>1
  <2>5. \/ s.held /\ Becomes(IF Len(more.buffer) > Window THEN FallBehind(more) ELSE more, <<>>)
        \/ ~s.held /\ Len(more.buffer) >= Chunk /\ Flushes(more, <<>>)
        \/ Becomes([more EXCEPT !.timer = TRUE], <<>>)
    <3>1. n + 1 > s.floor
      BY <1>1, <2>4
    <3> HIDE DEF more
    <3> QED BY <1>4, <2>3, <2>4, <3>1 DEF Enqueue, more
  <2> HIDE DEF more
  <2>6. n + 1 \in Nat /\ n <= n + 1 /\ n + 1 <= n + 1 /\ ~Answering(s) /\ ~Answering(more)
    BY <1>1, <2>1, <2>2 DEF Answering
  <2>7. CASE s.held /\ Becomes(IF Len(more.buffer) > Window THEN FallBehind(more) ELSE more, <<>>)
    <3>1. CASE Len(more.buffer) > Window
      <4>1. s.snapshotUnacked
        BY <1>1, <2>1, <2>7 DEF StreamOK
      <4>2. /\ Behind(more) \in Streams /\ StreamOK(Behind(more), n + 1)
            /\ Behind(more).watch = s.watch /\ Behind(more).floor = s.floor /\ Behind(more).unacked = s.unacked
            /\ Behind(more).snapshotUnacked = s.snapshotUnacked /\ Behind(more).taking = Nil /\ Behind(more).stale
        BY <2>2, <2>6, BehindIs
      <4>3. FallBehind(more) = Behind(more)
        <5>1. ~Settled(Behind(more))
          BY <4>1, <4>2 DEF Settled
        <5>2. FallBehind(more) = MaybeResync(Behind(more))
          BY DEF FallBehind, Behind
        <5> QED BY <4>2, <5>1, <5>2, NoResync
      <4>4. ~Answering(Behind(more)) /\ ~Live(Behind(more))
        BY <4>2 DEF Answering, Live
      <4>5. Extends(s, Behind(more), <<>>, n, n + 1) /\ Adds(s, Behind(more), <<>>)
        BY <1>1, <2>6, <4>2, <4>4, QuietStep
      <4> QED BY <1>1, <2>7, <3>1, <4>3, <4>5 DEF Moves, Becomes
    <3>2. CASE ~(Len(more.buffer) > Window)
      BY <1>1, <2>2, <2>7, <3>2 DEF Moves, Becomes
    <3> QED BY <3>1, <3>2
  <2>8. CASE Flushes(more, <<>>)
    <3>1. stream' = Sent(more) /\ out' = out \o (<<>> \o Frames(more))
      BY <2>2, <2>8 DEF Flushes, Becomes
    <3>2. /\ Extends(more, Sent(more), Frames(more), n + 1, n + 1) /\ Adds(more, Sent(more), Frames(more))
          /\ \A f \in In(Frames(more)) : f.kind = "data"
      BY <2>2, <2>6, FlushStep
    <3>3. \A f \in In(Frames(more)) : ~Snaps(f)
      BY <3>2 DEF Snaps
    <3>4. Extends(s, Sent(more), <<>> \o Frames(more), n, n + 1)
      BY <1>1, <2>2, <2>6, <3>2, <3>3, StepsExtend
    <3>5. Sent(more) \in Streams /\ Frames(more) \in Seq(FrameSet)
      BY <3>2 DEF Extends
    <3>6. Adds(s, Sent(more), <<>> \o Frames(more))
      BY <1>1, <2>2, <3>2, <3>3, <3>5, NothingSent, StepsAdd
    <3> QED BY <1>1, <3>1, <3>4, <3>6 DEF Moves
  <2>9. CASE Becomes([more EXCEPT !.timer = TRUE], <<>>)
    <3> DEFINE r == [more EXCEPT !.timer = TRUE]
    <3>1. /\ r \in Streams /\ r.watch = s.watch /\ r.floor = s.floor /\ r.unacked = s.unacked
          /\ r.snapshotUnacked = s.snapshotUnacked /\ r.taking = Nil /\ r.stale = more.stale
          /\ r.held = more.held /\ r.releasing = more.releasing /\ r.buffer = more.buffer
      BY <2>2 DEF Streams
    <3> HIDE DEF r
    <3>2. StreamOK(r, n + 1)
      BY <2>2, <3>1 DEF StreamOK
    <3>3. Extends(more, r, <<>>, n + 1, n + 1) /\ Adds(more, r, <<>>)
      <4>1. ~Answering(r) /\ (Live(r) => Live(more))
        BY <2>2, <3>1 DEF Answering, Live
      <4> QED BY <2>2, <2>6, <3>1, <3>2, <4>1, QuietStep
    <3>4. Extends(s, r, <<>> \o <<>>, n, n + 1) /\ Adds(s, r, <<>> \o <<>>)
      BY <1>1, <2>2, <2>6, <3>1, <3>3, NothingSent, StepsExtend, StepsAdd
    <3>5. <<>> \o <<>> = <<>>
      OBVIOUS
    <3> QED BY <1>1, <2>9, <3>4, <3>5 DEF Moves, Becomes, r
  <2> QED BY <2>5, <2>7, <2>8, <2>9
<1> QED BY <1>2, <1>3, <1>4

-----------------------------------------------------------------------------
(* The handlers of the host that extend its stream: the timers, resize, clear. *)

LEMMA TimerOff ==
  ASSUME NEW s \in Streams, NEW m \in Nat, StreamOK(s, m)
  PROVE  LET r == [s EXCEPT !.timer = FALSE]
         IN Extends(s, r, <<>>, m, m) /\ Adds(s, r, <<>>)
<1> DEFINE r == [s EXCEPT !.timer = FALSE]
<1>1. /\ r \in Streams /\ r.watch = s.watch /\ r.floor = s.floor /\ r.unacked = s.unacked
      /\ r.snapshotUnacked = s.snapshotUnacked /\ r.taking = s.taking /\ r.stale = s.stale
      /\ r.held = s.held /\ r.releasing = s.releasing /\ r.buffer = s.buffer
      /\ r.overflowed = s.overflowed /\ r.pending = s.pending
  BY DEF Streams
<1> HIDE DEF r
<1>2. StreamOK(r, m)
  BY <1>1 DEF StreamOK
<1>3. (Answering(r) <=> Answering(s)) /\ (Live(r) => Live(s))
  BY <1>1 DEF Answering, Live
<1>4. r.taking # Nil => m <= r.taking.seq \/ (s.taking # Nil /\ s.taking.seq <= r.taking.seq)
  <2>1. s.taking # Nil => s.taking.seq \in Nat
    BY DEF Streams, Takings
  <2> QED BY <1>1, <2>1
<1> QED BY <1>1, <1>2, <1>3, <1>4, QuietStep DEF r

(* A stream that answers no watch comes to s with the frames fs, and s is flushed. *)
LEMMA FlushesMove ==
  ASSUME TerminalTypes, StreamInv, stream # Nil, NEW s, NEW fs,
         ~Answering(stream), term' = term,
         Extends(stream, s, fs, term.seq, term.seq), Adds(stream, s, fs), Flushes(s, fs)
  PROVE  Moves
<1>1. stream \in Streams /\ term.seq \in Nat /\ term.seq <= term.seq
  BY StreamTyped
<1>2. s \in Streams /\ StreamOK(s, term.seq) /\ fs \in Seq(FrameSet)
  BY DEF Extends
<1>3. CASE s.buffer = <<>>
  <2> DEFINE r == [s EXCEPT !.timer = FALSE]
  <2>1. stream' = r /\ out' = out \o fs
    BY <1>3 DEF Flushes, Becomes
  <2>2. Extends(s, r, <<>>, term.seq, term.seq) /\ Adds(s, r, <<>>)
    BY <1>1, <1>2, TimerOff
  <2> HIDE DEF r
  <2>3. r \in Streams
    BY <2>2 DEF Extends
  <2>4. Extends(stream, r, fs \o <<>>, term.seq, term.seq) /\ Adds(stream, r, fs \o <<>>)
    BY <1>1, <1>2, <2>2, <2>3, NothingSent, StepsExtend, StepsAdd
  <2>5. fs \o <<>> = fs
    BY <1>2
  <2> QED BY <2>1, <2>4, <2>5 DEF Moves
<1>4. CASE s.buffer # <<>>
  <2>1. stream' = Sent(s) /\ out' = out \o (fs \o Frames(s))
    BY <1>4 DEF Flushes, Becomes
  <2>2. /\ Extends(s, Sent(s), Frames(s), term.seq, term.seq) /\ Adds(s, Sent(s), Frames(s))
        /\ \A f \in In(Frames(s)) : f.kind = "data"
    BY <1>1, <1>2, <1>4, FlushStep
  <2>3. \A f \in In(Frames(s)) : ~Snaps(f)
    BY <2>2 DEF Snaps
  <2>4. Sent(s) \in Streams /\ Frames(s) \in Seq(FrameSet)
    BY <2>2 DEF Extends
  <2>5. Extends(stream, Sent(s), fs \o Frames(s), term.seq, term.seq)
    BY <1>1, <2>2, <2>3, StepsExtend
  <2>6. Adds(stream, Sent(s), fs \o Frames(s))
    BY <1>1, <1>2, <2>2, <2>3, <2>4, StepsAdd
  <2> QED BY <2>1, <2>5, <2>6 DEF Moves
<1> QED BY <1>3, <1>4

(* The stream itself *)
LEMMA Stays ==
  ASSUME TerminalTypes, StreamInv, stream # Nil
  PROVE  Extends(stream, stream, <<>>, term.seq, term.seq) /\ Adds(stream, stream, <<>>)
<1>1. /\ stream \in Streams /\ StreamOK(stream, term.seq) /\ term.seq \in Nat
      /\ (stream.taking # Nil => stream.taking \in Takings)
  BY StreamTyped
<1>2. stream.taking # Nil => stream.taking.seq <= stream.taking.seq
  BY <1>1 DEF Takings
<1> QED BY <1>1, <1>2, QuietStep

LEMMA FlushTimerMoves ==
  ASSUME TerminalTypes, StreamInv, FlushTimer
  PROVE  stream # Nil /\ Moves
<1>1. stream # Nil /\ Flushes(stream, <<>>) /\ term' = term
  BY DEF FlushTimer
<1>2. /\ stream \in Streams /\ StreamOK(stream, term.seq) /\ term.seq \in Nat
  BY <1>1, StreamTyped
<1>3. CASE Answering(stream)
  <2>1. stream.buffer = <<>>
    BY <1>2, <1>3 DEF Answering, StreamOK
  <2>2. stream' = [stream EXCEPT !.timer = FALSE] /\ out' = out \o <<>>
    BY <1>1, <2>1 DEF Flushes, Becomes
  <2> QED BY <1>1, <1>2, <2>2, TimerOff DEF Moves
<1>4. CASE ~Answering(stream)
  BY <1>1, <1>4, Stays, FlushesMove
<1> QED BY <1>1, <1>3, <1>4

LEMMA ReleaseMoves ==
  ASSUME TerminalTypes, StreamInv, Release
  PROVE  stream # Nil /\ Moves
<1> DEFINE r == Released(stream)
<1>1. stream # Nil /\ stream.releasing /\ Flushes(r, <<>>) /\ term' = term
  BY DEF Release
<1>2. /\ stream \in Streams /\ StreamOK(stream, term.seq) /\ term.seq \in Nat
  BY <1>1, StreamTyped
<1>3. stream.taking = Nil
  BY <1>1, <1>2 DEF StreamOK
<1>4. /\ r \in Streams /\ r.watch = stream.watch /\ r.floor = stream.floor /\ r.unacked = stream.unacked
      /\ r.snapshotUnacked = stream.snapshotUnacked /\ r.taking = Nil /\ r.stale = stream.stale
      /\ ~r.held /\ ~r.releasing /\ r.buffer = stream.buffer
  BY <1>2, <1>3 DEF Streams, Released
<1> HIDE DEF r
<1>5. StreamOK(r, term.seq)
  BY <1>2, <1>4 DEF StreamOK
<1>6. ~Answering(r) /\ ~Answering(stream) /\ (Live(r) => Live(stream))
  BY <1>3, <1>4 DEF Answering, Live
<1>7. Extends(stream, r, <<>>, term.seq, term.seq) /\ Adds(stream, r, <<>>)
  BY <1>2, <1>4, <1>5, <1>6, QuietStep
<1> QED BY <1>1, <1>6, <1>7, FlushesMove

(* clear, and everything else that makes a stream fall behind *)
LEMMA FallBehindIs ==
  ASSUME NEW s \in Streams, term.seq \in Nat, StreamOK(s, term.seq)
  PROVE  /\ Extends(s, FallBehind(s), <<>>, term.seq, term.seq) /\ Adds(s, FallBehind(s), <<>>)
         /\ FallBehind(s).unacked = s.unacked /\ FallBehind(s).snapshotUnacked = s.snapshotUnacked
         /\ FallBehind(s).floor = s.floor
<1> DEFINE b == Behind(s)
           r == FallBehind(s)
<1>1. r = MaybeResync(b)
  BY DEF FallBehind, Behind
<1>2. /\ b \in Streams /\ StreamOK(b, term.seq) /\ b.watch = s.watch /\ b.floor = s.floor
      /\ b.unacked = s.unacked /\ b.snapshotUnacked = s.snapshotUnacked /\ b.taking = s.taking /\ b.stale
  BY BehindIs
<1> HIDE DEF b, r
<1>3. r \in Streams /\ StreamOK(r, term.seq) /\ Resynced(b, r)
  BY <1>1, <1>2, MaybeResyncIs
<1>4. /\ r.watch = s.watch /\ r.floor = s.floor /\ r.unacked = s.unacked /\ r.snapshotUnacked = s.snapshotUnacked
      /\ r = b \/ /\ s.taking = Nil
                  /\ r.taking # Nil /\ r.taking.seq = term.seq /\ r.taking.kind = "resync"
  BY <1>2, <1>3 DEF Resynced
<1>5. Answering(r) <=> Answering(s)
  <2>1. CASE r = b
    BY <2>1, <1>2 DEF Answering
  <2>2. CASE s.taking = Nil /\ r.taking # Nil /\ r.taking.kind = "resync"
    BY <2>2 DEF Answering
  <2> QED BY <1>4, <2>1, <2>2
<1>6. ~Live(r)
  BY <1>2, <1>4 DEF Live
<1>7. r.taking # Nil => term.seq <= r.taking.seq \/ (s.taking # Nil /\ s.taking.seq <= r.taking.seq)
  <2>1. s.taking # Nil => s.taking.seq \in Nat
    BY DEF Streams, Takings
  <2> QED BY <1>2, <1>4, <2>1
<1> QED BY <1>3, <1>4, <1>5, <1>6, <1>7, QuietStep DEF r

LEMMA ClearMoves ==
  ASSUME TerminalTypes, StreamInv, stream # Nil, Clear
  PROVE  Moves
<1>1. stream' = FallBehind(stream) /\ out' = out \o <<>> /\ term'.seq = term.seq
  BY OutIs DEF Clear, TerminalTypes
<1>2. /\ stream \in Streams /\ StreamOK(stream, term.seq) /\ term.seq \in Nat
  BY StreamTyped
<1> QED BY <1>1, <1>2, FallBehindIs DEF Moves

LEMMA ResizeMoves ==
  ASSUME TerminalTypes, StreamInv, stream # Nil, Resize
  PROVE  Moves
<1>1. term'.seq = term.seq /\ term.geometry \in Nat
  BY DEF Resize, TerminalTypes
<1>2. /\ stream \in Streams /\ StreamOK(stream, term.seq) /\ term.seq \in Nat /\ term.seq <= term.seq
  BY StreamTyped
<1>3. CASE Snapshotting(stream) \/ stream.stale
  <2>1. stream' = stream /\ out' = out \o <<>>
    BY <1>3, OutIs DEF Resize
  <2> QED BY <1>1, <2>1, Stays DEF Moves
<1>4. CASE ~Snapshotting(stream) /\ ~stream.stale /\ stream.held
  <2> DEFINE r == ResizedWhileHeld(stream)
  <2>1. stream' = r /\ out' = out \o <<>>
    BY <1>4 DEF Resize, Becomes
  <2>2. stream.taking = Nil
    BY <1>4 DEF Snapshotting
  <2>3. r \in Streams
    <3>1. ASSUME NEW e \in Seq(Nat) PROVE [stream EXCEPT !.stale = TRUE, !.buffer = e] \in Streams
      BY <1>2 DEF Streams
    <3>2. <<>> \in Seq(Nat)
      OBVIOUS
    <3> QED BY <3>1, <3>2, Zenon DEF ResizedWhileHeld
  <2>4. /\ r.watch = stream.watch /\ r.floor = stream.floor /\ r.unacked = stream.unacked
        /\ r.snapshotUnacked = stream.snapshotUnacked /\ r.taking = Nil /\ r.stale
        /\ r.held = stream.held /\ r.releasing = stream.releasing /\ r.buffer = <<>>
    BY <1>2, <2>2 DEF Streams, ResizedWhileHeld
  <2> HIDE DEF r
  <2>5. StreamOK(r, term.seq)
    BY <1>2, <2>2, <2>4, RunsFromNothing DEF StreamOK
  <2>6. ~Answering(r) /\ ~Answering(stream) /\ ~Live(r)
    BY <2>2, <2>4 DEF Answering, Live
  <2>7. Extends(stream, r, <<>>, term.seq, term.seq) /\ Adds(stream, r, <<>>)
    BY <1>2, <2>3, <2>4, <2>5, <2>6, QuietStep
  <2> QED BY <1>1, <2>1, <2>7 DEF Moves
<1>5. CASE ~Snapshotting(stream) /\ ~stream.stale /\ ~stream.held
  <2> DEFINE g == [kind |-> "resize", geometry |-> term.geometry + 1]
  <2>1. ~Answering(stream)
    BY <1>5 DEF Answering, Snapshotting
  <2>2. PICK r, fs : /\ stream' = r /\ out' = out \o (fs \o <<g>>)
                     /\ Extends(stream, r, fs, term.seq, term.seq) /\ Adds(stream, r, fs)
    <3>1. CASE stream.buffer = <<>>
      <4>1. stream' = [stream EXCEPT !.timer = FALSE] /\ out' = out \o <<g>>
        BY <1>5, <3>1 DEF Resize, Becomes
      <4>2. <<>> \o <<g>> = <<g>>
        OBVIOUS
      <4> QED BY <1>2, <4>1, <4>2, TimerOff
    <3>2. CASE stream.buffer # <<>>
      <4>1. stream' = Sent(stream) /\ out' = out \o (Frames(stream) \o <<g>>)
        BY <1>5, <3>2 DEF Resize, Becomes
      <4> QED BY <1>2, <3>2, <4>1, FlushStep
    <3> QED BY <3>1, <3>2
  <2>3. g \in FrameSet /\ g.kind = "resize"
    BY <1>1 DEF FrameSet, OtherFrames
  <2> HIDE DEF g
  <2>4. <<g>> \in Seq(FrameSet) /\ In(<<g>>) = {g} /\ Len(<<g>>) = 1
    BY <2>3, InOfOne
  <2>5. FrameOK(g, term.seq) /\ ~Carries(g) /\ ~Snaps(g)
    BY <2>3 DEF FrameOK, Carries, Snaps
  <2>6. r \in Streams /\ StreamOK(r, term.seq) /\ fs \in Seq(FrameSet) /\ ~Answering(r)
    BY <2>1, <2>2 DEF Extends
  <2>7. Feeds(r, r, <<g>>, term.seq, term.seq)
    <3>1. ASSUME NEW b \in Nat PROVE Leads(r.watch, <<g>>, b, b)
      <4>1. \A f \in In(<<g>>) : ~Of(r.watch, f)
        BY <2>4, <2>5 DEF Of
      <4> QED BY <2>4, <4>1, LeadsNowhere
    <3> QED BY <3>1 DEF Feeds
  <2>8. Extends(r, r, <<g>>, term.seq, term.seq)
    <3>1. r.taking # Nil => r.taking.seq <= r.taking.seq
      BY <2>6 DEF Streams, Takings
    <3> QED BY <2>3, <2>4, <2>5, <2>6, <2>7, <3>1 DEF Extends
  <2>9. Adds(r, r, <<g>>)
    <3>1. Chars(<<g>>) = 0 /\ r.unacked \in Nat
      BY <2>3, <2>4, <2>6, CountsOfNothing DEF Streams
    <3> QED BY <2>3, <2>4, <2>5, <3>1 DEF Adds
  <2>10. Extends(stream, r, fs \o <<g>>, term.seq, term.seq)
    BY <1>2, <2>1, <2>2, <2>4, <2>5, <2>8, StepsExtend
  <2>11. Adds(stream, r, fs \o <<g>>)
    BY <1>2, <2>2, <2>4, <2>5, <2>6, <2>9, StepsAdd
  <2> QED BY <1>1, <2>2, <2>10, <2>11 DEF Moves
<1> QED BY <1>3, <1>4, <1>5

-----------------------------------------------------------------------------
(* The handlers of the host that extend its stream: snapshots. *)

LEMMA TakingAgain ==
  ASSUME NEW t \in Takings, NEW n \in Nat
  PROVE  /\ LET u == [t EXCEPT !.seq = n, !.step = @ + 1]
            IN u \in Takings /\ u # Nil /\ u.seq = n /\ u.kind = t.kind
         /\ LET u == [t EXCEPT !.seq = n, !.step = 1, !.attempt = @ + 1]
            IN u \in Takings /\ u # Nil /\ u.seq = n /\ u.kind = t.kind
<1>1. t.step \in Nat /\ t.attempt \in Nat
  BY DEF Takings
<1>2. ASSUME NEW k \in Nat, NEW a \in Nat
      PROVE  /\ [t EXCEPT !.seq = n, !.step = k] \in Takings
             /\ [t EXCEPT !.seq = n, !.step = k].seq = n /\ [t EXCEPT !.seq = n, !.step = k].kind = t.kind
             /\ [t EXCEPT !.seq = n, !.step = k, !.attempt = a] \in Takings
             /\ [t EXCEPT !.seq = n, !.step = k, !.attempt = a].seq = n
             /\ [t EXCEPT !.seq = n, !.step = k, !.attempt = a].kind = t.kind
  BY DEF Takings
<1>3. \A u \in Takings : u # Nil
  BY TerminalAssumption DEF Takings
<1>4. t.step + 1 \in Nat /\ t.attempt + 1 \in Nat /\ 1 \in Nat
  BY <1>1
<1> QED BY <1>2, <1>3, <1>4, Zenon

(* A snapshot is taken again: of the output so far. *)
LEMMA TooLargeMoves ==
  ASSUME TerminalTypes, StreamInv, SnapshotTooLarge
  PROVE  stream # Nil /\ Moves
<1> DEFINE s == stream
           r == [stream EXCEPT !.taking = [stream.taking EXCEPT !.seq = term.seq, !.step = @ + 1]]
           t == [stream.taking EXCEPT !.seq = term.seq, !.step = @ + 1]
<1>1. s # Nil /\ s.taking # Nil /\ stream' = r /\ out' = out \o <<>> /\ term' = term
  BY OutIs DEF SnapshotTooLarge, Snapshotting
<1>2. /\ s \in Streams /\ StreamOK(s, term.seq) /\ term.seq \in Nat /\ s.taking \in Takings
  BY <1>1, StreamTyped
<1>3. t \in Takings /\ t # Nil /\ t.seq = term.seq /\ t.kind = s.taking.kind
  BY <1>2, TakingAgain
<1>4. r = [stream EXCEPT !.taking = t]
  BY <1>2 DEF Streams
<1> HIDE DEF r, t
<1>5. r.taking = t
  BY <1>2, <1>4 DEF Streams
<1>6. /\ r \in Streams /\ r.watch = s.watch /\ r.floor = s.floor /\ r.unacked = s.unacked
      /\ r.snapshotUnacked = s.snapshotUnacked /\ r.stale = s.stale
      /\ r.held = s.held /\ r.releasing = s.releasing /\ r.buffer = s.buffer
      /\ r.overflowed = s.overflowed /\ r.pending = s.pending
  BY <1>2, <1>3, <1>4 DEF Streams
<1>7. StreamOK(r, term.seq)
  <2>1. ASSUME ~r.overflowed
        PROVE  Runs(r.pending, term.seq) /\ term.seq - Len(r.pending) <= r.taking.seq
    <3>1. Runs(s.pending, term.seq) /\ Len(s.pending) \in Nat
      BY <1>1, <1>2, <1>6, <2>1 DEF StreamOK, Streams
    <3> QED BY <3>1, <1>2, <1>3, <1>5, <1>6
  <2>2. term.seq <= term.seq
    BY <1>2
  <2>3. r.overflowed => r.pending = <<>>
    BY <1>1, <1>2, <1>6 DEF StreamOK
  <2> QED BY <1>1, <1>2, <1>3, <1>5, <1>6, <2>1, <2>2, <2>3 DEF StreamOK
<1>8. (Answering(r) <=> Answering(s)) /\ ~Live(r)
  BY <1>1, <1>3, <1>5 DEF Answering, Live
<1>9. term.seq <= r.taking.seq
  BY <1>2, <1>3, <1>5
<1>10. Extends(s, r, <<>>, term.seq, term.seq) /\ Adds(s, r, <<>>)
  BY <1>2, <1>6, <1>7, <1>8, <1>9, QuietStep
<1> QED BY <1>1, <1>10 DEF Moves, r, t

LEMMA OutrunMoves ==
  ASSUME TerminalTypes, StreamInv, SnapshotOutrun
  PROVE  stream # Nil /\ Moves
<1> DEFINE s == stream
           t == [stream.taking EXCEPT !.seq = term.seq, !.step = 1, !.attempt = @ + 1]
           R(e) == [stream EXCEPT !.taking = t, !.pending = e, !.overflowed = FALSE]
           r == R(<<>>)
<1>1. s # Nil /\ s.taking # Nil /\ stream' = r /\ out' = out \o <<>> /\ term' = term
  BY OutIs DEF SnapshotOutrun, Snapshotting
<1>2. /\ s \in Streams /\ StreamOK(s, term.seq) /\ term.seq \in Nat /\ s.taking \in Takings
  BY <1>1, StreamTyped
<1>4. t \in Takings /\ t # Nil /\ t.seq = term.seq /\ t.kind = s.taking.kind
  BY <1>2, TakingAgain
<1> HIDE DEF t
<1>6. r \in Streams
  <2>1. ASSUME NEW e \in Seq(Nat) PROVE R(e) \in Streams
    BY <1>2, <1>4 DEF Streams
  <2>2. <<>> \in Seq(Nat)
    OBVIOUS
  <2> HIDE DEF R
  <2> QED BY <2>1, <2>2
<1>7. /\ r.taking = t /\ r.watch = s.watch /\ r.floor = s.floor /\ r.unacked = s.unacked
      /\ r.snapshotUnacked = s.snapshotUnacked /\ r.stale = s.stale
      /\ r.held = s.held /\ r.releasing = s.releasing /\ r.buffer = s.buffer
      /\ r.overflowed = FALSE /\ r.pending = <<>>
  BY <1>2, <1>4 DEF Streams
<1> HIDE DEF r
<1>8. StreamOK(r, term.seq)
  <2>1. Runs(r.pending, term.seq) /\ term.seq - Len(r.pending) <= r.taking.seq /\ r.taking.seq <= term.seq
    BY <1>2, <1>4, <1>7, RunsFromNothing
  <2> QED BY <1>1, <1>2, <1>4, <1>7, <2>1 DEF StreamOK
<1>9. (Answering(r) <=> Answering(s)) /\ ~Live(r)
  BY <1>1, <1>4, <1>7 DEF Answering, Live
<1>10. term.seq <= r.taking.seq
  BY <1>2, <1>4, <1>7
<1>11. Extends(s, r, <<>>, term.seq, term.seq) /\ Adds(s, r, <<>>)
  BY <1>2, <1>6, <1>7, <1>8, <1>9, <1>10, QuietStep
<1> QED BY <1>1, <1>11 DEF Moves, r, t

(* What a snapshot misses is the output behind it. *)
LEMMA LaterIs ==
  ASSUME NEW s \in Streams, NEW n \in Nat, StreamOK(s, n), s.taking # Nil, ~s.overflowed
  PROVE  /\ Later(s, FALSE) \in Seq(Nat) /\ Runs(Later(s, FALSE), n)
         /\ n - Len(Later(s, FALSE)) = s.taking.seq
<1> DEFINE p == s.pending
           q == s.taking.seq
           seen == {i \in DOMAIN p : p[i] <= q}
           c == q - (n - Len(p))
<1>1. /\ p \in Seq(Nat) /\ q \in Nat /\ Len(p) \in Nat /\ Runs(p, n) /\ n - Len(p) <= q /\ q <= n
  BY DEF StreamOK, Streams, Takings
<1>2. Later(s, FALSE) = SubSeq(p, Cardinality(seen) + 1, Len(p))
  BY DEF Later
<1> HIDE DEF p, q
<1>3. Len(p) <= n /\ \A i \in 1..Len(p) : p[i] = n - Len(p) + i
  BY <1>1 DEF Runs
<1>4. c \in Nat /\ c <= Len(p)
  BY <1>1
<1>5. seen = 1..c
  <2>1. ASSUME NEW i \in 1..Len(p) PROVE p[i] <= q <=> i <= c
    BY <1>1, <1>3
  <2>2. DOMAIN p = 1..Len(p)
    BY <1>1
  <2> HIDE DEF c
  <2> QED BY <2>1, <2>2, <1>4, <1>1
<1>6. Cardinality(seen) = c
  <2>1. Cardinality(1..c) = c
    BY <1>4, FS_Interval
  <2> QED BY <1>5, <2>1
<1> DEFINE l == SubSeq(p, c + 1, Len(p))
<1>7. l \in Seq(Nat) /\ Len(l) = Len(p) - c /\ \A i \in 1..(Len(p) - c) : l[i] = p[c + i]
  <2> HIDE DEF c
  <2> QED BY <1>1, <1>4
<1>8. Later(s, FALSE) = l
  BY <1>2, <1>6
<1> HIDE DEF l, seen
<1>9. n - Len(l) = q
  BY <1>1, <1>7
<1>10. Runs(l, n)
  <2>1. Len(l) <= n
    BY <1>1, <1>7
  <2>2. ASSUME NEW i \in DOMAIN l PROVE l[i] = n - Len(l) + i
    <3>1. i \in 1..(Len(p) - c) /\ c + i \in 1..Len(p)
      BY <1>7, <1>4
    <3>2. l[i] = p[c + i] /\ p[c + i] = n - Len(p) + (c + i)
      BY <3>1, <1>7, <1>3
    <3> QED BY <3>1, <3>2, <1>1, <1>7
  <2> QED BY <2>1, <2>2 DEF Runs
<1> QED BY <1>7, <1>8, <1>9, <1>10 DEF q

LEMMA SnappedIs ==
  ASSUME TerminalTypes, StreamInv, stream # Nil, Snapshotting(stream), NEW kind \in {"answer", "reset"},
         kind = "answer" <=> Answering(stream),
         NEW r, r = Released(Snapped(stream)) \/ r = [Snapped(stream) EXCEPT !.releasing = TRUE]
  PROVE  /\ ~Answering(r)
         /\ Extends(stream, r, <<SnapshotFrame(kind)>>, term.seq, term.seq)
         /\ Adds(stream, r, <<SnapshotFrame(kind)>>)
<1> DEFINE s == stream
           f == SnapshotFrame(kind)
           stale == s.overflowed \/ s.stale
           later == Later(s, stale)
           n == term.seq
           q == s.taking.seq
<1>1. /\ s \in Streams /\ StreamOK(s, n) /\ n \in Nat /\ s.taking # Nil /\ s.taking \in Takings /\ s.watch \in Nat
      /\ term.era \in Nat /\ term.geometry \in Nat /\ s.watch \in Nat
  BY StreamTyped DEF Snapshotting, TerminalTypes
<1>2. q \in Nat /\ q <= n
  BY <1>1 DEF Takings, StreamOK
<1>3. /\ later \in Seq(Nat) /\ Runs(later, n)
      /\ stale => later = <<>>
      /\ ~stale => n - Len(later) = q
  <2>1. CASE stale
    BY <1>1, <2>1, RunsFromNothing DEF Later
  <2>2. CASE ~stale
    <3>1. Later(s, stale) = Later(s, FALSE)
      BY <2>2
    <3>2. ~s.overflowed
      BY <2>2
    <3> HIDE DEF stale
    <3> QED BY <1>1, <2>2, <3>1, <3>2, LaterIs
  <2> QED BY <2>1, <2>2
<1>4. stale \in BOOLEAN
  OBVIOUS
<1>5. Snapped(s) = [s EXCEPT !.taking = Nil, !.floor = q, !.unacked = 0, !.snapshotUnacked = TRUE,
                             !.stale = stale, !.overflowed = FALSE, !.pending = <<>>, !.buffer = later]
  BY DEF Snapped
<1> DEFINE S(e) == [s EXCEPT !.taking = Nil, !.floor = q, !.unacked = 0, !.snapshotUnacked = TRUE,
                             !.stale = stale, !.overflowed = FALSE, !.pending = e, !.buffer = later]
<1> HIDE DEF stale, later
<1>6. Snapped(s) \in Streams
  <2>1. ASSUME NEW e \in Seq(Nat) PROVE S(e) \in Streams
    BY <1>1, <1>2, <1>3, <1>4 DEF Streams
  <2>2. <<>> \in Seq(Nat)
    OBVIOUS
  <2> HIDE DEF S
  <2>3. S(<<>>) \in Streams
    BY <2>1, <2>2
  <2> QED BY <2>3, <1>5 DEF S
<1>7. /\ Snapped(s).watch = s.watch /\ Snapped(s).floor = q /\ Snapped(s).unacked = 0
      /\ Snapped(s).snapshotUnacked = TRUE /\ Snapped(s).taking = Nil /\ Snapped(s).stale = stale
      /\ Snapped(s).buffer = later
  BY <1>1, <1>5 DEF Streams
<1>8. /\ r \in Streams /\ r.watch = s.watch /\ r.floor = q /\ r.unacked = 0 /\ r.snapshotUnacked = TRUE
      /\ r.taking = Nil /\ r.stale = stale /\ r.buffer = later /\ (r.held => r.releasing)
  <2> DEFINE p == Snapped(s)
  <2>1. p \in Streams /\ (r = [p EXCEPT !.held = FALSE, !.releasing = FALSE] \/ r = [p EXCEPT !.releasing = TRUE])
    BY <1>6 DEF Released
  <2>2. r \in Streams
    <3> HIDE DEF p
    <3> QED BY <2>1 DEF Streams
  <2>3. /\ r.watch = p.watch /\ r.floor = p.floor /\ r.unacked = p.unacked /\ r.snapshotUnacked = p.snapshotUnacked
        /\ r.taking = p.taking /\ r.stale = p.stale /\ r.buffer = p.buffer /\ (r.held => r.releasing)
    <3> HIDE DEF p
    <3> QED BY <2>1 DEF Streams
  <2> QED BY <1>7, <2>2, <2>3
<1>9. StreamOK(r, n)
  BY <1>2, <1>3, <1>8 DEF StreamOK
<1>10. /\ f \in SnapshotFrames /\ f.kind = kind /\ f.watch = s.watch /\ f.seq = q
  BY <1>1, <1>2 DEF SnapshotFrames, SnapshotFrame
<1> HIDE DEF f
<1>11. f \in FrameSet /\ <<f>> \in Seq(FrameSet) /\ In(<<f>>) = {f} /\ Len(<<f>>) = 1 /\ <<f>>[1] = f
  BY <1>10, InOfOne DEF FrameSet
<1>12. Snaps(f) /\ Carries(f) /\ FrameOK(f, n) /\ f.kind \notin {"data", "refused", "closed"}
  BY <1>2, <1>10 DEF Snaps, Carries, FrameOK
<1>13. Feeds(s, r, <<f>>, n, n)
  <2>1. ASSUME NEW b \in Nat PROVE Leads(s.watch, <<f>>, b, q)
    <3>1. Links(s.watch, f, b, q)
      BY <1>10, <1>12 DEF Links, Of, Last
    <3> QED BY <1>2, <3>1, LeadsOne
  <2>2. Live(r) => q = n - Len(r.buffer)
    BY <1>3, <1>8 DEF Live
  <2> QED BY <1>2, <2>1, <2>2 DEF Feeds
<1>14. ~Answering(r)
  BY <1>8 DEF Answering
<1>15. Extends(s, r, <<f>>, n, n)
  BY <1>1, <1>8, <1>9, <1>10, <1>11, <1>12, <1>13, <1>14 DEF Extends
<1>16. Adds(s, r, <<f>>)
  <2>1. Chars(<<f>>) = 0
    BY <1>11, <1>12, CountsOfNothing
  <2>2. Snapshots(<<f>>) = 1
    <3>1. Snapshots(<<f>>) = Sum(FrameSnapshots, <<f>>)
      BY <1>11, CountsAre
    <3>2. Sum(FrameSnapshots, <<f>>) = FrameSnapshots[f]
      BY <1>11, WeightsAre, SumOfOne
    <3> QED BY <1>10, <1>11, <3>1, <3>2 DEF FrameSnapshots
  <2> QED BY <1>1, <1>8, <1>10, <1>11, <1>12, <2>1, <2>2 DEF Adds
<1> QED BY <1>14, <1>15, <1>16 DEF f

LEMMA ReadyMoves ==
  ASSUME TerminalTypes, StreamInv, SnapshotReady
  PROVE  stream # Nil /\ Moves
<1>1. stream # Nil /\ Snapshotting(stream) /\ term' = term
  BY DEF SnapshotReady
<1>2. stream.taking # Nil
  BY <1>1 DEF Snapshotting
<1>3. CASE stream.taking.kind = "watch"
  <2>1. /\ stream' = [Snapped(stream) EXCEPT !.releasing = TRUE]
        /\ out' = out \o <<SnapshotFrame("answer")>>
    BY <1>3 DEF SnapshotReady, Becomes
  <2>2. Answering(stream)
    BY <1>2, <1>3 DEF Answering
  <2>3. /\ Extends(stream, stream', <<SnapshotFrame("answer")>>, term.seq, term.seq)
        /\ Adds(stream, stream', <<SnapshotFrame("answer")>>)
    BY <1>1, <2>1, <2>2, SnappedIs
  <2> QED BY <1>1, <2>1, <2>3 DEF Moves
<1>4. CASE stream.taking.kind # "watch"
  <2>1. Flushes(Released(Snapped(stream)), <<SnapshotFrame("reset")>>)
    BY <1>4 DEF SnapshotReady
  <2>2. ~Answering(stream)
    BY <1>4 DEF Answering
  <2>3. /\ Extends(stream, Released(Snapped(stream)), <<SnapshotFrame("reset")>>, term.seq, term.seq)
        /\ Adds(stream, Released(Snapped(stream)), <<SnapshotFrame("reset")>>)
    BY <1>1, <2>2, SnappedIs
  <2> QED BY <1>1, <2>1, <2>2, <2>3, FlushesMove
<1> QED BY <1>3, <1>4

-----------------------------------------------------------------------------
(* Each part of the invariant, behind a step that extends the stream. *)

LEMMA ConcatAgain ==
  ASSUME NEW S, NEW p \in Seq(S), NEW q \in Seq(S), NEW r \in Seq(S)
  PROVE  (p \o q) \o r = p \o (q \o r)
<1> DEFINE x == p \o q
           y == q \o r
<1>1. x \in Seq(S) /\ Len(x) = Len(p) + Len(q) /\ y \in Seq(S) /\ Len(y) = Len(q) + Len(r)
  OBVIOUS
<1>2. x \o r \in Seq(S) /\ Len(x \o r) = Len(p) + Len(q) + Len(r) /\ p \o y \in Seq(S)
      /\ Len(p \o y) = Len(p) + Len(q) + Len(r)
  BY <1>1
<1>3. ASSUME NEW i \in 1..(Len(p) + Len(q) + Len(r)) PROVE (x \o r)[i] = (p \o y)[i]
  <2>0. Len(p) \in Nat /\ Len(q) \in Nat /\ Len(r) \in Nat
    OBVIOUS
  <2>1. CASE i <= Len(p)
    <3>1. (x \o r)[i] = x[i]
      BY <2>0, <2>1, <1>1, ElementOfConcat
    <3>2. x[i] = p[i]
      BY <2>0, <2>1, ElementOfConcat
    <3>3. (p \o y)[i] = p[i]
      BY <2>0, <2>1, <1>1, ElementOfConcat
    <3> QED BY <3>1, <3>2, <3>3
  <2>2. CASE i > Len(p) /\ i <= Len(p) + Len(q)
    <3>1. (x \o r)[i] = x[i]
      BY <2>0, <2>2, <1>1, ElementOfConcat
    <3>2. x[i] = q[i - Len(p)]
      BY <2>0, <2>2, ElementOfConcat
    <3>3. (p \o y)[i] = y[i - Len(p)]
      BY <2>0, <2>2, <1>1, ElementOfConcat
    <3>4. y[i - Len(p)] = q[i - Len(p)]
      BY <2>0, <2>2, ElementOfConcat
    <3> QED BY <3>1, <3>2, <3>3, <3>4
  <2>3. CASE i > Len(p) + Len(q)
    <3>1. (x \o r)[i] = r[i - (Len(p) + Len(q))]
      BY <2>0, <2>3, <1>1, ElementOfConcat
    <3>2. (p \o y)[i] = y[i - Len(p)]
      BY <2>0, <2>3, <1>1, ElementOfConcat
    <3>3. y[i - Len(p)] = r[(i - Len(p)) - Len(q)]
      BY <2>0, <2>3, ElementOfConcat
    <3> QED BY <2>0, <3>1, <3>2, <3>3
  <2> QED BY <2>0, <2>1, <2>2, <2>3, SMTT(30)
<1> HIDE DEF x, y
<1>4. x \o r = p \o y
  BY <1>2, <1>3, SameSequence
<1> QED BY <1>4 DEF x, y

LEMMA PathIs ==
  ASSUME TerminalTypes
  PROVE  /\ Path \in Seq(FrameSet) /\ In(Path) \subseteq FrameSet
         /\ view.early \in Seq(FrameSet) /\ wire \in Seq(FrameSet) /\ out \in Seq(FrameSet)
         /\ view.early \o wire \in Seq(FrameSet)
<1>1. view.early \in Seq(FrameSet) /\ wire \in Seq(FrameSet) /\ out \in Seq(FrameSet)
  BY DEF TerminalTypes
<1>2. view.early \o wire \in Seq(FrameSet)
  BY <1>1
<1>3. Path \in Seq(FrameSet)
  BY <1>1, <1>2 DEF Path
<1> QED BY <1>1, <1>2, <1>3, InIsTyped

LEMMA FramesConcat ==
  \A p, q, r \in Seq(FrameSet) : (p \o q) \o r = p \o (q \o r)
<1>1. SUFFICES ASSUME NEW p \in Seq(FrameSet), NEW q \in Seq(FrameSet), NEW r \in Seq(FrameSet)
               PROVE  (p \o q) \o r = p \o (q \o r)
  OBVIOUS
<1> QED BY ConcatAgain, SMTT(30)

LEMMA PathGrows ==
  ASSUME TerminalTypes, NEW fs \in Seq(FrameSet), out' = out \o fs, view' = view, wire' = wire
  PROVE  Path' = Path \o fs
<1>1. view.early \o wire \in Seq(FrameSet) /\ out \in Seq(FrameSet)
  BY PathIs
<1>2. ((view.early \o wire) \o out) \o fs = (view.early \o wire) \o (out \o fs)
  <2> DEFINE p == view.early \o wire
  <2>1. p \in Seq(FrameSet) /\ out \in Seq(FrameSet) /\ fs \in Seq(FrameSet)
    BY <1>1
  <2> HIDE DEF p
  <2>2. (p \o out) \o fs = p \o (out \o fs)
    BY <2>1, FramesConcat
  <2> QED BY <2>2 DEF p
<1>3. Path' = (view.early \o wire) \o (out \o fs)
  BY DEF Path
<1> QED BY <1>2, <1>3 DEF Path

LEMMA FrameStaysOK ==
  ASSUME NEW f \in FrameSet, NEW n \in Nat, NEW m \in Nat, n <= m, FrameOK(f, n)
  PROVE  FrameOK(f, m)
BY KindIs DEF FrameOK

TailOfUp == up' = up \/ (up # <<>> /\ up' = Tail(up))

LEMMA UpShrinks ==
  ASSUME TerminalTypes, TailOfUp
  PROVE  /\ In(up') \subseteq In(up)
         /\ \A i, j \in DOMAIN up' : i < j =>
              \E k, l \in DOMAIN up : k < l /\ up'[i] = up[k] /\ up'[j] = up[l]
<1>1. up \in Seq(Requests)
  BY DEF TerminalTypes
<1>2. CASE up' = up
  BY <1>2
<1>3. CASE up # <<>> /\ up' = Tail(up)
  <2>1. \A i \in DOMAIN up' : i + 1 \in DOMAIN up /\ up'[i] = up[i + 1] /\ i \in Nat
    BY <1>1, <1>3
  <2>2. ASSUME NEW i \in DOMAIN up', NEW j \in DOMAIN up', i < j
        PROVE  i + 1 < j + 1
    BY <2>1, <2>2
  <2> QED BY <2>1, <2>2 DEF In
<1> QED BY <1>2, <1>3 DEF TailOfUp

(* The invariants under a step of the host that extends the stream. *)
HostExtends(fs) ==
  /\ TerminalTypes /\ StreamInv /\ FramesInv /\ ClosedInv /\ OrderInv /\ AnswerInv /\ OldInv /\ FlowInv /\ ScreenInv
  /\ stream # Nil /\ Extends(stream, stream', fs, term.seq, term'.seq)
  /\ Path' = Path \o fs /\ view' = view /\ screen' = screen
  /\ term'.open = term.open /\ term'.seq \in Nat /\ term.seq <= term'.seq
  /\ TailOfUp /\ happened \subseteq happened'

LEMMA HostFacts ==
  ASSUME NEW fs, HostExtends(fs)
  PROVE  /\ stream \in Streams /\ stream' \in Streams /\ stream'.watch = stream.watch
         /\ term.seq \in Nat /\ term'.seq \in Nat /\ term.seq <= term'.seq
         /\ fs \in Seq(FrameSet) /\ Path \in Seq(FrameSet) /\ Path' \in Seq(FrameSet)
         /\ In(Path') = In(Path) \cup In(fs) /\ In(Path) \subseteq FrameSet /\ In(fs) \subseteq FrameSet
         /\ view.watch \in Nat /\ stream.watch \in Nat
<1>1. stream \in Streams /\ term.seq \in Nat /\ stream.watch \in Nat
  BY StreamTyped DEF HostExtends
<1>2. fs \in Seq(FrameSet) /\ stream' \in Streams /\ stream'.watch = stream.watch
  BY DEF HostExtends, Extends
<1>3. Path \in Seq(FrameSet) /\ In(Path) \subseteq FrameSet
  BY PathIs DEF HostExtends
<1>4. Path' = Path \o fs
  BY DEF HostExtends
<1>5. In(Path \o fs) = In(Path) \cup In(fs)
  BY <1>2, <1>3, InOfConcat, ZenonT(60)
<1>6. In(fs) \subseteq FrameSet
  BY <1>2, InIsTyped
<1>7. Path \o fs \in Seq(FrameSet)
  BY <1>2, <1>3
<1>8. view.watch \in Nat
  BY DEF HostExtends, TerminalTypes
<1>9. term'.seq \in Nat /\ term.seq <= term'.seq
  BY DEF HostExtends
<1>10. In(Path') = In(Path) \cup In(fs)
  BY <1>4, <1>5
<1> QED BY <1>1, <1>2, <1>3, <1>4, <1>6, <1>7, <1>8, <1>9, <1>10

LEMMA HostKeepsFrames ==
  ASSUME NEW fs, HostExtends(fs)
  PROVE  StreamInv' /\ FramesInv' /\ ClosedInv'
<1>1. StreamInv'
  BY DEF HostExtends, Extends, StreamInv
<1>2. FramesInv'
  <2>1. ASSUME NEW f \in In(Path) PROVE FrameOK(f, term'.seq)
    <3>1. FrameOK(f, term.seq)
      BY DEF HostExtends, FramesInv
    <3> QED BY <3>1, HostFacts, FrameStaysOK
  <2>2. ASSUME NEW f \in In(fs) PROVE FrameOK(f, term'.seq)
    BY DEF HostExtends, Extends
  <2>3. \A f \in In(Path') : FrameOK(f, term'.seq)
    BY <2>1, <2>2, HostFacts
  <2> QED BY <2>3 DEF FramesInv
<1>3. ClosedInv'
  <2>1. term.open
    BY DEF HostExtends, ClosedInv
  <2>2. \A f \in In(Path) : f.kind \notin {"refused", "closed"}
    BY <2>1 DEF HostExtends, ClosedInv
  <2>3. \A f \in In(fs) : f.kind \notin {"refused", "closed"}
    BY DEF HostExtends, Extends
  <2>4. \A f \in In(Path') : f.kind \notin {"refused", "closed"}
    BY <2>2, <2>3, HostFacts
  <2>5. view'.state \notin {"refused", "closed"} /\ term'.open
    BY <2>1 DEF HostExtends, ClosedInv
  <2> QED BY <2>4, <2>5 DEF ClosedInv
<1> QED BY <1>1, <1>2, <1>3

LEMMA HostKeepsOrder ==
  ASSUME NEW fs, HostExtends(fs)
  PROVE  OrderInv'
<1>1. ASSUME NEW f \in In(Path'), Carries(f) PROVE f.watch <= view.watch /\ f.watch <= stream.watch
  <2>1. CASE f \in In(Path)
    BY <1>1, <2>1 DEF HostExtends, OrderInv
  <2>2. CASE f \in In(fs)
    <3>1. f.watch = stream.watch
      BY <1>1, <2>2 DEF HostExtends, Extends
    <3>2. stream.watch <= view.watch
      BY DEF HostExtends, OrderInv
    <3> QED BY <3>1, <3>2, HostFacts
  <2> QED BY <1>1, <2>1, <2>2, HostFacts
<1>2. /\ In(up') \subseteq In(up)
      /\ \A i, j \in DOMAIN up' : i < j => \E k, l \in DOMAIN up : k < l /\ up'[i] = up[k] /\ up'[j] = up[l]
  BY UpShrinks DEF HostExtends
<1>3. ASSUME NEW r \in In(up'), r.kind = "watch"
      PROVE  /\ r.watch <= view.watch /\ stream.watch < r.watch
             /\ \A f \in In(Path') : Carries(f) => f.watch < r.watch
  <2>1. r \in In(up) /\ stream # Nil
    BY <1>2 DEF HostExtends
  <2>2. /\ r.watch <= view.watch /\ stream.watch < r.watch
        /\ \A f \in In(Path) : Carries(f) => f.watch < r.watch
    BY <2>1, <1>3 DEF HostExtends, OrderInv
  <2>3. ASSUME NEW f \in In(fs), Carries(f) PROVE f.watch < r.watch
    BY <2>2, <2>3 DEF HostExtends, Extends
  <2> QED BY <2>2, <2>3, HostFacts
<1>4. \A i, j \in DOMAIN up' : i < j /\ up'[i].kind = "watch" /\ up'[j].kind = "watch" => up'[i].watch < up'[j].watch
  <2>1. \A i, j \in DOMAIN up : i < j /\ up[i].kind = "watch" /\ up[j].kind = "watch" => up[i].watch < up[j].watch
    BY DEF HostExtends, OrderInv
  <2> QED BY <1>2, <2>1
<1>5. stream'.watch = stream.watch /\ view' = view /\ stream.watch <= view.watch
  BY HostFacts DEF HostExtends, OrderInv
<1> QED BY <1>1, <1>3, <1>4, <1>5 DEF OrderInv

LEMMA HostKeepsAnswers ==
  ASSUME NEW fs, HostExtends(fs)
  PROVE  AnswerInv'
<1> DEFINE w == view.watch
<1>0. /\ Answering(stream') => Answering(stream) /\ \A f \in In(fs) : ~Carries(f)
      /\ Answering(stream) /\ ~Answering(stream') => Len(fs) = 1 /\ fs[1].kind = "answer"
      /\ ~Answering(stream) => \A f \in In(fs) : f.kind # "answer"
      /\ \A f \in In(fs) : Carries(f) => f.watch = stream.watch
      /\ AnswerInv /\ stream # Nil /\ view' = view
  BY DEF HostExtends, Extends
<1>1. /\ Path \in Seq(FrameSet) /\ fs \in Seq(FrameSet) /\ Path' = Path \o fs
      /\ In(Path') = In(Path) \cup In(fs) /\ stream'.watch = stream.watch
  BY HostFacts DEF HostExtends
<1>2. /\ DOMAIN Path' = 1..(Len(Path) + Len(fs)) /\ Len(Path) \in Nat /\ Len(fs) \in Nat
      /\ DOMAIN Path = 1..Len(Path)
      /\ \A i \in 1..Len(Path) : Path'[i] = Path[i] /\ Path[i] \in In(Path)
      /\ \A i \in 1..(Len(Path) + Len(fs)) : i > Len(Path) => /\ i - Len(Path) \in 1..Len(fs)
                                                              /\ Path'[i] = fs[i - Len(Path)]
                                                              /\ Path'[i] \in In(fs)
  <2> DEFINE p == Path
             q == p \o fs
  <2>1. p \in Seq(FrameSet) /\ fs \in Seq(FrameSet) /\ Path' = q
    BY <1>1
  <2> HIDE DEF p
  <2>2. /\ DOMAIN q = 1..(Len(p) + Len(fs)) /\ Len(p) \in Nat /\ Len(fs) \in Nat /\ DOMAIN p = 1..Len(p)
        /\ \A i \in 1..Len(p) : q[i] = p[i] /\ p[i] \in In(p)
    BY <2>1 DEF In
  <2>3. ASSUME NEW i \in 1..(Len(p) + Len(fs)), i > Len(p)
        PROVE  i - Len(p) \in 1..Len(fs) /\ q[i] = fs[i - Len(p)] /\ q[i] \in In(fs)
    <3>1. i - Len(p) \in 1..Len(fs) /\ q[i] = fs[i - Len(p)]
      BY <2>1, <2>2, <2>3
    <3> QED BY <2>1, <3>1 DEF In
  <2> QED BY <2>1, <2>2, <2>3 DEF p
<1> HIDE DEF Path
<1>3. ASSUME Answering(stream') PROVE \A f \in In(Path') : ~Of(stream.watch, f)
  BY <1>0, <1>1, <1>3 DEF AnswerInv, Of
<1>4. ASSUME Answering(stream), ~Answering(stream')
      PROVE  /\ Len(fs) = 1 /\ fs[1].kind = "answer" /\ fs[1].watch = stream.watch /\ fs[1] \in In(fs)
             /\ \A f \in In(Path) : ~Of(stream.watch, f)
  <2>1. fs[1] \in In(fs)
    BY <1>0, <1>1, <1>4 DEF In
  <2> QED BY <1>0, <1>4, <2>1 DEF AnswerInv, Carries
<1>5. ASSUME view.state = "asking"
      PROVE  /\ \A i \in DOMAIN Path' : Of(w, Path'[i]) => \E j \in 1..i : IsAnswer(w, Path'[j])
             /\ \A i, j \in DOMAIN Path' : IsAnswer(w, Path'[i]) /\ IsAnswer(w, Path'[j]) => i = j
             /\ stream.watch = w /\ ~Answering(stream') => \E f \in In(Path') : IsAnswer(w, f)
  <2>0. /\ \A i \in DOMAIN Path : Of(w, Path[i]) => \E j \in 1..i : IsAnswer(w, Path[j])
        /\ \A i, j \in DOMAIN Path : IsAnswer(w, Path[i]) /\ IsAnswer(w, Path[j]) => i = j
        /\ stream.watch = w /\ ~Answering(stream) => \E f \in In(Path) : IsAnswer(w, f)
    BY <1>0, <1>5 DEF AnswerInv
  <2>1. ASSUME NEW i \in DOMAIN Path', Of(w, Path'[i]) PROVE \E j \in 1..i : IsAnswer(w, Path'[j])
    <3>1. CASE i <= Len(Path)
      <4>1. i \in DOMAIN Path /\ Of(w, Path[i])
        BY <1>2, <2>1, <3>1
      <4>2. PICK j \in 1..i : IsAnswer(w, Path[j])
        BY <2>0, <4>1
      <4>3. Path'[j] = Path[j]
        BY <1>2, <3>1, <4>1
      <4> QED BY <4>2, <4>3
    <3>2. CASE i > Len(Path)
      <4>1. Path'[i] \in In(fs) /\ Path'[i] = fs[i - Len(Path)] /\ i - Len(Path) \in 1..Len(fs)
        BY <1>2, <3>2
      <4>2. stream.watch = w /\ Carries(Path'[i])
        BY <1>0, <2>1, <4>1 DEF Of
      <4>3. CASE Answering(stream)
        <5>1. ~Answering(stream')
          BY <1>0, <4>1, <4>2
        <5>2. i - Len(Path) = 1 /\ IsAnswer(w, fs[1])
          <6>1. Len(fs) = 1 /\ fs[1].kind = "answer" /\ fs[1].watch = stream.watch
            BY <1>4, <4>3, <5>1
          <6>2. i - Len(Path) = 1
            BY <4>1, <6>1
          <6> QED BY <4>2, <6>1, <6>2 DEF IsAnswer
        <5>3. i \in 1..i /\ IsAnswer(w, Path'[i])
          BY <1>2, <3>2, <4>1, <5>2
        <5> QED BY <5>3
      <4>4. CASE ~Answering(stream)
        <5>1. PICK f \in In(Path) : IsAnswer(w, f)
          BY <2>0, <4>2, <4>4
        <5>2. PICK j \in 1..Len(Path) : Path[j] = f
          BY <1>2, <5>1 DEF In
        <5>3. j \in 1..i /\ Path'[j] = f
          BY <1>2, <3>2, <5>2
        <5> QED BY <5>1, <5>3
      <4> QED BY <4>3, <4>4
    <3> QED BY <1>2, <3>1, <3>2
  <2>2. ASSUME NEW i \in DOMAIN Path', NEW j \in DOMAIN Path', IsAnswer(w, Path'[i]), IsAnswer(w, Path'[j])
        PROVE  i = j
    <3>1. CASE i <= Len(Path) /\ j <= Len(Path)
      <4>1. i \in DOMAIN Path /\ j \in DOMAIN Path /\ Path'[i] = Path[i] /\ Path'[j] = Path[j]
        BY <1>2, <3>1
      <4> QED BY <2>0, <2>2, <4>1
    <3>2. ASSUME NEW k \in DOMAIN Path', k > Len(Path), IsAnswer(w, Path'[k])
          PROVE  k = Len(Path) + 1 /\ \A l \in DOMAIN Path' : IsAnswer(w, Path'[l]) => l > Len(Path)
      <4>1. Path'[k] \in In(fs) /\ Path'[k] = fs[k - Len(Path)] /\ k - Len(Path) \in 1..Len(fs)
        BY <1>2, <3>2
      <4>2. Answering(stream) /\ ~Answering(stream') /\ stream.watch = w
        BY <1>0, <3>2, <4>1 DEF IsAnswer, Carries
      <4>3. k = Len(Path) + 1
        <5>1. Len(fs) = 1
          BY <1>4, <4>2
        <5>2. k - Len(Path) = 1 /\ k \in Nat /\ Len(Path) \in Nat
          BY <1>2, <3>2, <4>1, <5>1
        <5> QED BY <5>2
      <4>4. ASSUME NEW l \in DOMAIN Path', IsAnswer(w, Path'[l]), ~(l > Len(Path)) PROVE FALSE
        <5>1. l \in 1..Len(Path)
          BY <1>2, <4>4
        <5>2. Path'[l] \in In(Path) /\ Of(w, Path'[l])
          BY <1>2, <4>4, <5>1 DEF Of, IsAnswer, Carries
        <5> QED BY <1>4, <4>2, <5>2
      <4> QED BY <4>3, <4>4
    <3>3. CASE i > Len(Path)
      BY <2>2, <3>2, <3>3
    <3>4. CASE j > Len(Path)
      BY <2>2, <3>2, <3>4
    <3>5. i \in Nat /\ j \in Nat
      BY <1>2
    <3> QED BY <1>2, <3>1, <3>3, <3>4, <3>5
  <2>3. ASSUME stream.watch = w, ~Answering(stream') PROVE \E f \in In(Path') : IsAnswer(w, f)
    <3>1. CASE Answering(stream)
      <4>1. fs[1] \in In(Path') /\ IsAnswer(w, fs[1])
        BY <1>1, <1>4, <2>3, <3>1 DEF IsAnswer
      <4> QED BY <4>1
    <3>2. CASE ~Answering(stream)
      BY <1>1, <2>0, <2>3, <3>2
    <3> QED BY <3>1, <3>2
  <2> QED BY <2>1, <2>2, <2>3
<1>6. ASSUME view.state = "watching"
      PROVE  /\ \A f \in In(Path') : ~IsAnswer(w, f)
             /\ \A r \in In(up') : r.kind # "watch"
             /\ stream.watch = w /\ ~Answering(stream')
  <2>1. /\ \A f \in In(Path) : ~IsAnswer(w, f)
        /\ \A r \in In(up) : r.kind # "watch"
        /\ stream.watch = w /\ ~Answering(stream)
    BY <1>0, <1>6 DEF AnswerInv
  <2>2. In(up') \subseteq In(up)
    BY UpShrinks DEF HostExtends
  <2> QED BY <1>0, <1>1, <2>1, <2>2 DEF IsAnswer
<1> QED BY <1>0, <1>1, <1>3, <1>5, <1>6 DEF AnswerInv

LEMMA HostKeepsOld ==
  ASSUME NEW fs, HostExtends(fs)
  PROVE  OldInv'
<1>0. /\ \A f \in In(fs) : /\ Carries(f) => f.watch = stream.watch
                           /\ Snaps(f) => stream.taking # Nil /\ f.seq = stream.taking.seq
      /\ stream'.taking # Nil =>
           term.seq <= stream'.taking.seq \/ (stream.taking # Nil /\ stream.taking.seq <= stream'.taking.seq)
      /\ OldInv /\ stream # Nil /\ view' = view /\ screen' = screen
  BY DEF HostExtends, Extends
<1>1. /\ In(Path') = In(Path) \cup In(fs) /\ stream'.watch = stream.watch /\ In(Path) \subseteq FrameSet
      /\ In(fs) \subseteq FrameSet /\ term.seq \in Nat /\ stream.watch \in Nat /\ stream \in Streams /\ stream' \in Streams
  BY HostFacts
<1>2. \A f \in FrameSet : (f.kind = "data" => Carries(f) /\ f.watch \in Nat /\ f.seq \in Nat)
                          /\ (Snaps(f) => Carries(f) /\ f.watch \in Nat /\ f.seq \in Nat)
  BY KindIs DEF Carries, Snaps
<1>3. \A f \in In(Path) : f.kind = "data" => f.seq <= term.seq
  BY DEF HostExtends, FramesInv, FrameOK
<1>4. \A f \in In(Path) : Carries(f) => f.watch <= stream.watch
  BY DEF HostExtends, OrderInv
<1>5. ASSUME NEW f \in In(Path'), NEW g \in In(Path'), f.kind = "data", Snaps(g), f.watch < g.watch
      PROVE  f.seq <= g.seq
  <2>1. Carries(f) /\ Carries(g) /\ f.watch \in Nat /\ g.watch \in Nat
    BY <1>1, <1>2, <1>5
  <2>2. g.watch <= stream.watch
    BY <1>0, <1>1, <1>4, <2>1
  <2>3. f \in In(Path)
    <3>1. CASE f \in In(fs)
      <4>1. f.watch = stream.watch
        BY <1>0, <2>1, <3>1
      <4> QED BY <1>1, <1>5, <2>1, <2>2, <4>1
    <3> QED BY <1>1, <3>1
  <2>4. CASE g \in In(Path)
    BY <1>0, <1>5, <2>3, <2>4 DEF OldInv
  <2>5. CASE g \in In(fs)
    BY <1>0, <1>5, <2>1, <2>3, <2>5 DEF OldInv
  <2> QED BY <1>1, <2>4, <2>5
<1>6. ASSUME stream'.taking # Nil, NEW f \in In(Path'), f.kind = "data", f.watch < stream.watch
      PROVE  f.seq <= stream'.taking.seq
  <2>1. f \in In(Path) /\ f.seq \in Nat
    <3>1. Carries(f) /\ f.watch \in Nat /\ f.seq \in Nat
      BY <1>1, <1>2, <1>6
    <3>2. f \notin In(fs)
      BY <1>0, <1>1, <1>6, <3>1
    <3> QED BY <1>1, <3>1, <3>2
  <2>2. stream'.taking.seq \in Nat /\ (stream.taking # Nil => stream.taking.seq \in Nat)
    BY <1>1, <1>6 DEF Streams, Takings
  <2>3. CASE term.seq <= stream'.taking.seq
    BY <1>1, <1>3, <1>6, <2>1, <2>2, <2>3
  <2>4. CASE stream.taking # Nil /\ stream.taking.seq <= stream'.taking.seq
    <3>1. f.seq <= stream.taking.seq
      BY <1>0, <1>6, <2>1, <2>4 DEF OldInv
    <3> QED BY <2>1, <2>2, <2>4, <3>1
  <2> QED BY <1>0, <1>6, <2>3, <2>4
<1>7. ASSUME view.state = "watching", screen.watch = view.watch,
             NEW f \in In(Path'), f.kind = "data", f.watch < view.watch
      PROVE  f.seq <= view.floor
  <2>1. stream.watch = view.watch
    BY <1>0, <1>7 DEF HostExtends, AnswerInv
  <2>2. f \in In(Path)
    <3>1. Carries(f) /\ f.watch \in Nat
      BY <1>1, <1>2, <1>7
    <3>2. f \notin In(fs)
      BY <1>0, <1>1, <1>7, <2>1, <3>1
    <3> QED BY <1>1, <3>2
  <2> QED BY <1>0, <1>7, <2>2 DEF OldInv
<1> QED BY <1>0, <1>1, <1>5, <1>6, <1>7 DEF OldInv

LEMMA HostKeepsFlow ==
  ASSUME NEW fs, HostExtends(fs)
  PROVE  FlowInv' /\ ScreenInv'
<1>1. ScreenInv'
  BY DEF HostExtends, ScreenInv, Showing, Unrefused, Whole
<1>2. FlowInv'
  <2>1. SUFFICES ASSUME Unrefused, view.state \in {"asking", "watching"}
                 PROVE  \E a, b \in Nat :
                          /\ Leads(view.watch, Path', a, b)
                          /\ Showing => a = Len(screen.data)
                          /\ stream.watch = view.watch /\ Live(stream') => b = term'.seq - Len(stream'.buffer)
    <3>1. Unrefused' => Unrefused
      BY DEF HostExtends, Unrefused
    <3>2. view' = view /\ screen' = screen /\ stream'.watch = stream.watch
      BY HostFacts DEF HostExtends
    <3> QED BY <3>1, <3>2 DEF FlowInv, Showing
  <2>2. PICK a \in Nat, b \in Nat :
          /\ Leads(view.watch, Path, a, b)
          /\ Showing => a = Len(screen.data)
          /\ stream.watch = view.watch /\ Live(stream) => b = term.seq - Len(stream.buffer)
    BY <2>1 DEF HostExtends, FlowInv
  <2>3. PICK c \in Nat : /\ Leads(view.watch, fs, b, c)
                         /\ stream.watch = view.watch /\ Live(stream') => c = term'.seq - Len(stream'.buffer)
    <3>1. CASE stream.watch = view.watch
      <4>1. Feeds(stream, stream', fs, term.seq, term'.seq)
        BY DEF HostExtends, Extends
      <4> QED BY <2>2, <3>1, <4>1 DEF Feeds
    <3>2. CASE stream.watch # view.watch
      <4>1. \A f \in In(fs) : ~Of(view.watch, f)
        BY <3>2 DEF HostExtends, Extends, Of
      <4>2. Leads(view.watch, fs, b, b)
        BY <4>1, HostFacts, LeadsNowhere
      <4> QED BY <3>2, <4>2
    <3> QED BY <3>1, <3>2
  <2>4. Leads(view.watch, Path \o fs, a, c)
    BY <2>2, <2>3, HostFacts, LeadsConcat
  <2>5. Path' = Path \o fs
    BY DEF HostExtends
  <2> QED BY <2>2, <2>3, <2>4, <2>5
<1> QED BY <1>1, <1>2

-----------------------------------------------------------------------------
(* What is acknowledged, counted. *)

LEMMA AckedAre ==
  ASSUME NEW u \in Seq(Requests)
  PROVE  /\ Total([i \in DOMAIN u |-> IF u[i].kind = "ack" THEN u[i].chars ELSE 0]) = Sum(RequestChars, u)
         /\ Total([i \in DOMAIN u |-> IF u[i].kind = "ack" /\ u[i].snapshot # Nil THEN 1 ELSE 0])
              = Sum(RequestSnapshots, u)
         /\ Sum(RequestChars, u) \in Nat /\ Sum(RequestSnapshots, u) \in Nat
<1>1. \A i \in DOMAIN u : u[i] \in Requests
  OBVIOUS
<1>2. [i \in DOMAIN u |-> IF u[i].kind = "ack" THEN u[i].chars ELSE 0] = [i \in DOMAIN u |-> RequestChars[u[i]]]
  BY <1>1 DEF RequestChars
<1>3. [i \in DOMAIN u |-> IF u[i].kind = "ack" /\ u[i].snapshot # Nil THEN 1 ELSE 0]
        = [i \in DOMAIN u |-> RequestSnapshots[u[i]]]
  BY <1>1 DEF RequestSnapshots
<1>4. Sum(RequestChars, u) \in Nat /\ Sum(RequestSnapshots, u) \in Nat
  BY WeightsAre, SumIsNat
<1> QED BY <1>2, <1>3, <1>4 DEF Sum

LEMMA AcksHold ==
  ASSUME NEW u \in Seq(Requests), NEW r \in In(u), r.kind = "ack"
  PROVE  r.chars <= Sum(RequestChars, u) /\ (r.snapshot # Nil => 1 <= Sum(RequestSnapshots, u))
<1>1. r \in Requests
  BY InIsTyped
<1>2. RequestChars[r] <= Sum(RequestChars, u) /\ RequestSnapshots[r] <= Sum(RequestSnapshots, u)
  BY WeightsAre, SumHolds
<1>3. RequestChars[r] = r.chars /\ (r.snapshot # Nil => RequestSnapshots[r] = 1)
  BY <1>1 DEF RequestChars, RequestSnapshots
<1> QED BY <1>2, <1>3

LEMMA AcksNothing ==
  ASSUME NEW u \in Seq(Requests), \A r \in In(u) : r.kind # "ack"
  PROVE  Sum(RequestChars, u) = 0 /\ Sum(RequestSnapshots, u) = 0
<1>1. \A r \in In(u) : RequestChars[r] = 0 /\ RequestSnapshots[r] = 0
  BY InIsTyped DEF RequestChars, RequestSnapshots
<1> QED BY <1>1, WeightsAre, SumOfNothing

(* The request at the head of up is taken from it. *)
LEMMA AcksTaken ==
  ASSUME NEW u \in Seq(Requests), u # <<>>
  PROVE  /\ Head(u) \in Requests /\ Head(u) \in In(u) /\ Tail(u) \in Seq(Requests)
         /\ Sum(RequestChars, u) = Sum(RequestChars, Tail(u)) + RequestChars[Head(u)]
         /\ Sum(RequestSnapshots, u) = Sum(RequestSnapshots, Tail(u)) + RequestSnapshots[Head(u)]
<1> DEFINE h == Head(u)
           t == Tail(u)
<1>1. h \in Requests /\ t \in Seq(Requests) /\ u = <<h>> \o t /\ <<h>> \in Seq(Requests)
  OBVIOUS
<1> HIDE DEF h, t
<1>2. /\ Sum(RequestChars, <<h>> \o t) = Sum(RequestChars, <<h>>) + Sum(RequestChars, t)
      /\ Sum(RequestSnapshots, <<h>> \o t) = Sum(RequestSnapshots, <<h>>) + Sum(RequestSnapshots, t)
  BY <1>1, WeightsAre, SumOfConcat
<1>3. Sum(RequestChars, <<h>>) = RequestChars[h] /\ Sum(RequestSnapshots, <<h>>) = RequestSnapshots[h]
  BY <1>1, WeightsAre, SumOfOne
<1>4. /\ Sum(RequestChars, t) \in Nat /\ Sum(RequestSnapshots, t) \in Nat
      /\ RequestChars[h] \in Nat /\ RequestSnapshots[h] \in Nat
  BY <1>1, AckedAre, WeightsAre
<1>5. h \in In(u)
  BY DEF In, h
<1>6. /\ Sum(RequestChars, u) = Sum(RequestChars, t) + RequestChars[h]
      /\ Sum(RequestSnapshots, u) = Sum(RequestSnapshots, t) + RequestSnapshots[h]
  BY <1>1, <1>2, <1>3, <1>4
<1> QED BY <1>1, <1>5, <1>6 DEF h, t

LEMMA AcksAdded ==
  ASSUME NEW u \in Seq(Requests), NEW r \in Requests
  PROVE  /\ u \o <<r>> \in Seq(Requests) /\ Append(u, r) = u \o <<r>> /\ In(u \o <<r>>) = In(u) \cup {r}
         /\ Sum(RequestChars, u \o <<r>>) = Sum(RequestChars, u) + RequestChars[r]
         /\ Sum(RequestSnapshots, u \o <<r>>) = Sum(RequestSnapshots, u) + RequestSnapshots[r]
<1>1. <<r>> \in Seq(Requests) /\ Append(u, r) = u \o <<r>> /\ u \o <<r>> \in Seq(Requests)
  OBVIOUS
<1>2. In(u \o <<r>>) = In(u) \cup In(<<r>>) /\ In(<<r>>) = {r}
  <2> DEFINE q == <<r>>
  <2>1. q \in Seq(Requests) /\ In(q) = {r}
    BY <1>1, InOfOne, Zenon
  <2> HIDE DEF q
  <2>2. In(u \o q) = In(u) \cup In(q)
    BY <2>1, InOfConcat
  <2> QED BY <2>1, <2>2 DEF q
<1>3. /\ Sum(RequestChars, u \o <<r>>) = Sum(RequestChars, u) + Sum(RequestChars, <<r>>)
      /\ Sum(RequestSnapshots, u \o <<r>>) = Sum(RequestSnapshots, u) + Sum(RequestSnapshots, <<r>>)
  BY <1>1, WeightsAre, SumOfConcat
<1>4. Sum(RequestChars, <<r>>) = RequestChars[r] /\ Sum(RequestSnapshots, <<r>>) = RequestSnapshots[r]
  BY WeightsAre, SumOfOne
<1> QED BY <1>1, <1>2, <1>3, <1>4

LEMMA RequestWeights ==
  ASSUME NEW r \in Requests
  PROVE  /\ r.kind = "ack" => RequestChars[r] = r.chars /\ RequestSnapshots[r] = IF r.snapshot # Nil THEN 1 ELSE 0
         /\ r.kind # "ack" => RequestChars[r] = 0 /\ RequestSnapshots[r] = 0
         /\ RequestChars[r] \in Nat /\ RequestSnapshots[r] \in Nat
BY RequestIs DEF RequestChars, RequestSnapshots

(* The counts that CountInv compares, when the host sends fs. *)
LEMMA HostKeepsCounts ==
  ASSUME NEW fs, HostExtends(fs), CountInv, Adds(stream, stream', fs), up' = up
  PROVE  CountInv'
<1> DEFINE r == stream'
           C == Chars(Path)
           S == Snapshots(Path)
           V == view.unacked
           A == Sum(RequestChars, up)
           B == Sum(RequestSnapshots, up)
<1>1. /\ stream \in Streams /\ r \in Streams /\ r.watch = stream.watch /\ stream # Nil
      /\ fs \in Seq(FrameSet) /\ Path \in Seq(FrameSet) /\ In(Path') = In(Path) \cup In(fs)
      /\ Path' = Path \o fs /\ view' = view
  BY HostFacts DEF HostExtends
<1>2. up \in Seq(Requests) /\ V \in Nat
  BY DEF HostExtends, TerminalTypes
<1>3. AckedChars = A /\ AckedSnapshots = B /\ A \in Nat /\ B \in Nat
  BY <1>2, AckedAre DEF AckedChars, AckedSnapshots
<1>4. AckedChars' = A /\ AckedSnapshots' = B
  BY <1>2, <1>3 DEF AckedChars, AckedSnapshots
<1>5. /\ Chars(Path') = C + Chars(fs) /\ Snapshots(Path') = S + Snapshots(fs)
      /\ C \in Nat /\ S \in Nat /\ Chars(fs) \in Nat /\ Snapshots(fs) \in Nat
  BY <1>1, CountsOfConcat
<1>6. \A i \in DOMAIN Path' : /\ i \in DOMAIN Path => Path'[i] = Path[i]
                              /\ i \notin DOMAIN Path => i - Len(Path) \in DOMAIN fs /\ Path'[i] = fs[i - Len(Path)]
  <2> DEFINE p == Path
  <2>1. p \in Seq(FrameSet) /\ fs \in Seq(FrameSet) /\ Path' = p \o fs
    BY <1>1
  <2> HIDE DEF p
  <2>2. \A i \in DOMAIN (p \o fs) : /\ i \in DOMAIN p => (p \o fs)[i] = p[i]
                              /\ i \notin DOMAIN p => i - Len(p) \in DOMAIN fs /\ (p \o fs)[i] = fs[i - Len(p)]
    BY <2>1
  <2> QED BY <2>1, <2>2 DEF p
<1>7. DOMAIN Path = 1..Len(Path) /\ Len(Path) \in Nat /\ DOMAIN Path' = 1..(Len(Path) + Len(fs))
      /\ DOMAIN fs = 1..Len(fs) /\ Len(fs) \in Nat
  <2> DEFINE p == Path
  <2>1. p \in Seq(FrameSet) /\ fs \in Seq(FrameSet) /\ Path' = p \o fs
    BY <1>1
  <2> HIDE DEF p
  <2>2. DOMAIN p = 1..Len(p) /\ Len(p) \in Nat /\ DOMAIN (p \o fs) = 1..(Len(p) + Len(fs))
        /\ DOMAIN fs = 1..Len(fs) /\ Len(fs) \in Nat
    BY <2>1
  <2> QED BY <2>1, <2>2 DEF p
<1> HIDE DEF Path
<1>8. view'.watch = 0 /\ (\E q \in In(up') : q.kind = "watch") => view'.unacked = 0 /\ \A q \in In(up') : q.kind # "ack"
  BY <1>1 DEF CountInv
<1>9. ASSUME stream.watch = 0, view.watch = 0
      PROVE  /\ r.unacked = Chars(Path') + V + A
             /\ Snapshots(Path') + B = IF r.snapshotUnacked THEN 1 ELSE 0
             /\ \A f \in In(Path') : /\ f.kind = "data" => f.floor = r.floor
                                     /\ Snaps(f) => f.seq = r.floor
             /\ \A q \in In(up) : q.kind = "ack" /\ q.snapshot # Nil => q.snapshot = r.floor
             /\ \A i \in DOMAIN Path' : Snaps(Path'[i]) => V = 0 /\ A = 0 /\ \A j \in 1..i : Path'[j].kind # "data"
  <2>1. /\ stream.unacked = C + V + A
        /\ S + B = IF stream.snapshotUnacked THEN 1 ELSE 0
        /\ \A f \in In(Path) : /\ f.kind = "data" => f.floor = stream.floor
                               /\ Snaps(f) => f.seq = stream.floor
        /\ \A q \in In(up) : q.kind = "ack" /\ q.snapshot # Nil => q.snapshot = stream.floor
        /\ \A i \in DOMAIN Path : Snaps(Path[i]) => V = 0 /\ A = 0 /\ \A j \in 1..i : Path[j].kind # "data"
    BY <1>1, <1>3, <1>9 DEF CountInv
  <2>2. \A f \in In(fs) : /\ f.kind = "data" => f.floor = r.floor
                          /\ Snaps(f) => f.seq = r.floor
    BY DEF Adds
  <2>3. CASE /\ \A f \in In(fs) : ~Snaps(f)
             /\ r.unacked = stream.unacked + Chars(fs)
             /\ r.snapshotUnacked = stream.snapshotUnacked /\ r.floor = stream.floor
    <3>1. Snapshots(fs) = 0
      BY <1>1, <2>3, CountsOfNothing
    <3>2. r.unacked = Chars(Path') + V + A /\ Snapshots(Path') + B = S + B
      BY <1>2, <1>3, <1>5, <2>1, <2>3, <3>1
    <3>3. ASSUME NEW i \in DOMAIN Path', Snaps(Path'[i])
          PROVE  V = 0 /\ A = 0 /\ \A j \in 1..i : Path'[j].kind # "data"
      <4>1. i \in DOMAIN Path
        BY <1>6, <2>3, <3>3 DEF In
      <4>2. V = 0 /\ A = 0 /\ \A j \in 1..i : Path[j].kind # "data"
        BY <1>6, <2>1, <3>3, <4>1
      <4>3. \A j \in 1..i : j \in DOMAIN Path /\ j \in DOMAIN Path'
        BY <1>7, <4>1
      <4> QED BY <1>6, <4>2, <4>3
    <3> QED BY <1>1, <2>1, <2>2, <2>3, <3>2, <3>3
  <2>4. CASE /\ stream.taking # Nil
             /\ r.unacked = Chars(fs) /\ r.snapshotUnacked /\ Snapshots(fs) = 1
             /\ \A i \in DOMAIN fs : Snaps(fs[i]) => i = 1
    <3>1. stream.unacked = 0 /\ ~stream.snapshotUnacked
      BY <1>1, <2>4 DEF HostExtends, StreamInv, StreamOK
    <3>2. C = 0 /\ V = 0 /\ A = 0 /\ S = 0 /\ B = 0
      <4> HIDE DEF C, V, A, S, B
      <4> QED BY <1>2, <1>3, <1>5, <2>1, <3>1
    <3>3. ASSUME NEW f \in In(Path) PROVE f.kind # "data" /\ ~Snaps(f)
      <4>1. Size(f) <= C /\ (Snaps(f) => 1 <= S)
        BY <1>1, CountsHold
      <4>2. f \in FrameSet /\ (f.kind = "data" => f.data # <<>>)
        BY <1>1, InIsTyped DEF HostExtends, FramesInv, FrameOK
      <4>3. f.kind = "data" => Size(f) \in Nat /\ Size(f) # 0
        BY <4>2, KindIs DEF Size
      <4> QED BY <3>2, <4>1, <4>3
    <3>4. \A q \in In(up) : q.kind = "ack" => q.snapshot = Nil
      BY <1>2, <3>2, AcksHold
    <3>5. r.unacked = Chars(Path') + V + A /\ Snapshots(Path') + B = 1
      <4> HIDE DEF C, V, A, S, B
      <4> QED BY <1>5, <2>4, <3>2
    <3>6. ASSUME NEW i \in DOMAIN Path', Snaps(Path'[i]), NEW j \in 1..i
          PROVE  Path'[j].kind # "data"
      <4>1. i \notin DOMAIN Path
        BY <1>6, <3>3, <3>6 DEF In
      <4>2. i = Len(Path) + 1
        <5>1. i - Len(Path) \in DOMAIN fs /\ Snaps(fs[i - Len(Path)])
          BY <1>6, <3>6, <4>1
        <5>2. i - Len(Path) = 1
          BY <2>4, <5>1
        <5> QED BY <1>7, <5>2
      <4>3. CASE j = i
        BY <3>6, <4>3 DEF Snaps
      <4>4. CASE j # i
        <5>1. j \in DOMAIN Path /\ j \in DOMAIN Path'
          BY <1>7, <4>2, <4>4
        <5>2. Path'[j] \in In(Path)
          BY <1>6, <5>1 DEF In
        <5> QED BY <3>3, <5>2
      <4> QED BY <4>3, <4>4
    <3> QED BY <1>1, <2>2, <2>4, <3>2, <3>3, <3>4, <3>5, <3>6
  <2> QED BY <2>3, <2>4 DEF Adds
<1> QED BY <1>1, <1>4, <1>8, <1>9 DEF CountInv

-----------------------------------------------------------------------------
(* The steps of the desktop and of the stream keep the invariant. *)

(* A step of the host that extends the stream keeps the invariant. *)
LEMMA MovesKeep ==
  ASSUME TerminalInv, stream # Nil, Moves, UNCHANGED <<serving, wire, up, view, screen>>,
         term' \in [seq : Nat, era : Nat, geometry : Nat, open : BOOLEAN],
         term'.open = term.open, term.seq <= term'.seq, happened \subseteq happened', happened' \subseteq Events
  PROVE  TerminalInv'
<1>1. PICK fs : /\ out' = out \o fs
                /\ Extends(stream, stream', fs, term.seq, term'.seq)
                /\ Adds(stream, stream', fs)
  BY DEF Moves
<1>2. fs \in Seq(FrameSet) /\ stream' \in Streams
  BY <1>1 DEF Extends
<1>3. Path' = Path \o fs
  BY <1>1, <1>2, PathGrows DEF TerminalInv
<1>4. HostExtends(fs)
  BY <1>1, <1>3 DEF TerminalInv, HostExtends, TailOfUp
<1>5. TerminalTypes'
  <2>1. out' \in Seq(FrameSet)
    BY <1>1, <1>2 DEF TerminalInv, TerminalTypes
  <2> QED BY <1>2, <2>1 DEF TerminalInv, TerminalTypes
<1>6. StateInv'
  BY DEF TerminalInv, StateInv
<1>7. CountInv'
  BY <1>1, <1>4, HostKeepsCounts DEF TerminalInv
<1> QED BY <1>4, <1>5, <1>6, <1>7, HostKeepsFrames, HostKeepsOrder, HostKeepsAnswers, HostKeepsOld, HostKeepsFlow
        DEF TerminalInv

LEMMA NotCarried ==
  ASSUME NEW f \in FrameSet, ~Carries(f)
  PROVE  ~Snaps(f) /\ f.kind # "data" /\ (\A w : ~Of(w, f) /\ ~IsAnswer(w, f)) /\ \A n \in Nat : FrameOK(f, n)
BY DEF Carries, Snaps, Of, IsAnswer, FrameOK

(* A step behind which the host has no stream, and sends nothing of one. *)
LEMMA EndKeeps ==
  ASSUME TerminalInv, stream' = Nil, NEW fs \in Seq(FrameSet), Path' = Path \o fs,
         \A f \in In(fs) : ~Carries(f) /\ (f.kind \in {"refused", "closed"} => ~term'.open),
         term' \in [seq : Nat, era : Nat, geometry : Nat, open : BOOLEAN],
         term'.open => term.open, term.seq <= term'.seq,
         UNCHANGED <<view, screen>>, TailOfUp, happened \subseteq happened', happened' \subseteq Events,
         out' \in Seq(FrameSet), wire' \in Seq(FrameSet), serving' \in Nat \cup {Nil}, up' \in Seq(Requests),
         view.state = "lost" => UNCHANGED <<serving, out, wire, up>>
  PROVE  TerminalInv'
<1>1. /\ Path \in Seq(FrameSet) /\ In(Path) \subseteq FrameSet /\ In(fs) \subseteq FrameSet
      /\ In(Path') = In(Path) \cup In(fs) /\ Path' \in Seq(FrameSet)
  <2>1. Path \in Seq(FrameSet) /\ In(Path) \subseteq FrameSet /\ In(fs) \subseteq FrameSet
    BY PathIs, InIsTyped DEF TerminalInv
  <2>2. In(Path \o fs) = In(Path) \cup In(fs) /\ Path \o fs \in Seq(FrameSet)
    <3> DEFINE p == Path
    <3>1. p \in Seq(FrameSet)
      BY <2>1
    <3> HIDE DEF p
    <3>2. In(p \o fs) = In(p) \cup In(fs) /\ p \o fs \in Seq(FrameSet)
      BY <3>1, InOfConcat
    <3> QED BY <3>2 DEF p
  <2> QED BY <2>1, <2>2
<1>2. \A f \in In(fs) : /\ ~Snaps(f) /\ f.kind # "data" /\ (\A w : ~Of(w, f) /\ ~IsAnswer(w, f))
                        /\ FrameOK(f, term'.seq) /\ ~Carries(f)
  BY <1>1, NotCarried
<1>3. /\ In(up') \subseteq In(up)
      /\ \A i, j \in DOMAIN up' : i < j => \E k, l \in DOMAIN up : k < l /\ up'[i] = up[k] /\ up'[j] = up[l]
  BY UpShrinks DEF TerminalInv
<1>4. TerminalTypes'
  BY DEF TerminalInv, TerminalTypes
<1>5. StreamInv'
  BY DEF StreamInv
<1>6. FramesInv'
  <2>1. ASSUME NEW f \in In(Path) PROVE FrameOK(f, term'.seq)
    <3>1. FrameOK(f, term.seq) /\ term.seq \in Nat /\ term'.seq \in Nat
      BY DEF TerminalInv, TerminalTypes, FramesInv
    <3> QED BY <1>1, <3>1, FrameStaysOK
  <2>2. \A f \in In(Path') : FrameOK(f, term'.seq)
    BY <1>1, <1>2, <2>1
  <2> QED BY <2>2 DEF FramesInv
<1>7. ClosedInv'
  <2>1. ASSUME term'.open
        PROVE  view.state \notin {"refused", "closed"} /\ \A f \in In(Path') : f.kind \notin {"refused", "closed"}
    BY <1>1, <2>1 DEF TerminalInv, ClosedInv
  <2> QED BY <2>1 DEF ClosedInv
<1>8. StateInv'
  <2>1. view.state = "lost" => stream' = Nil /\ serving' = Nil /\ out' = <<>> /\ wire' = <<>> /\ up' = <<>>
    BY DEF TerminalInv, StateInv
  <2> QED BY <2>1 DEF TerminalInv, StateInv
<1>9. OrderInv'
  <2>1. \A f \in In(Path') : Carries(f) => f.watch <= view.watch
    BY <1>1, <1>2 DEF TerminalInv, OrderInv
  <2>2. \A r \in In(up') : r.kind = "watch" =>
          r.watch <= view.watch /\ \A f \in In(Path') : Carries(f) => f.watch < r.watch
    BY <1>1, <1>2, <1>3 DEF TerminalInv, OrderInv
  <2>3. \A i, j \in DOMAIN up' : i < j /\ up'[i].kind = "watch" /\ up'[j].kind = "watch" => up'[i].watch < up'[j].watch
    BY <1>3 DEF TerminalInv, OrderInv
  <2> QED BY <2>1, <2>2, <2>3 DEF OrderInv
<1>10. AnswerInv'
  <2> DEFINE w == view.watch
  <2>1. \A i \in DOMAIN Path' : \/ Path'[i] \in In(fs)
                                \/ i \in DOMAIN Path /\ Path'[i] = Path[i] /\ \A j \in 1..i : j \in DOMAIN Path /\ Path'[j] = Path[j]
    <3> DEFINE p == Path
    <3>1. p \in Seq(FrameSet) /\ Path' = p \o fs
      BY <1>1
    <3> HIDE DEF p
    <3>2. \A i \in DOMAIN (p \o fs) : i > Len(p) => (p \o fs)[i] \in In(fs)
      <4>1. ASSUME NEW i \in DOMAIN (p \o fs), i > Len(p) PROVE (p \o fs)[i] = fs[i - Len(p)] /\ i - Len(p) \in DOMAIN fs
        BY <3>1, <4>1
      <4> QED BY <4>1 DEF In
    <3>3. \A i \in DOMAIN (p \o fs) : ~(i > Len(p)) =>
            i \in DOMAIN p /\ (p \o fs)[i] = p[i] /\ \A j \in 1..i : j \in DOMAIN p /\ (p \o fs)[j] = p[j]
      BY <3>1
    <3> QED BY <3>1, <3>2, <3>3 DEF p
  <2> HIDE DEF Path
  <2>2. ASSUME view.state = "asking"
        PROVE  /\ \A i \in DOMAIN Path' : Of(w, Path'[i]) => \E j \in 1..i : IsAnswer(w, Path'[j])
               /\ \A i, j \in DOMAIN Path' : IsAnswer(w, Path'[i]) /\ IsAnswer(w, Path'[j]) => i = j
    <3>1. /\ \A i \in DOMAIN Path : Of(w, Path[i]) => \E j \in 1..i : IsAnswer(w, Path[j])
          /\ \A i, j \in DOMAIN Path : IsAnswer(w, Path[i]) /\ IsAnswer(w, Path[j]) => i = j
      BY <2>2 DEF TerminalInv, AnswerInv
    <3>2. ASSUME NEW i \in DOMAIN Path', Of(w, Path'[i]) PROVE \E j \in 1..i : IsAnswer(w, Path'[j])
      <4>1. i \in DOMAIN Path /\ Path'[i] = Path[i] /\ \A j \in 1..i : j \in DOMAIN Path /\ Path'[j] = Path[j]
        BY <1>2, <2>1, <3>2
      <4> QED BY <3>1, <3>2, <4>1
    <3>3. ASSUME NEW i \in DOMAIN Path', NEW j \in DOMAIN Path', IsAnswer(w, Path'[i]), IsAnswer(w, Path'[j])
          PROVE  i = j
      <4>1. i \in DOMAIN Path /\ Path'[i] = Path[i] /\ j \in DOMAIN Path /\ Path'[j] = Path[j]
        BY <1>2, <2>1, <3>3
      <4> QED BY <3>1, <3>3, <4>1
    <3> QED BY <3>2, <3>3
  <2>3. ASSUME view.state = "watching"
        PROVE  (\A f \in In(Path') : ~IsAnswer(w, f)) /\ \A r \in In(up') : r.kind # "watch"
    BY <1>1, <1>2, <1>3, <2>3 DEF TerminalInv, AnswerInv
  <2> QED BY <2>2, <2>3 DEF AnswerInv
<1>11. OldInv'
  <2>1. \A f, g \in In(Path') : f.kind = "data" /\ Snaps(g) /\ f.watch < g.watch => f.seq <= g.seq
    BY <1>1, <1>2 DEF TerminalInv, OldInv
  <2>2. view.state = "watching" /\ screen.watch = view.watch =>
          \A f \in In(Path') : f.kind = "data" /\ f.watch < view.watch => f.seq <= view.floor
    BY <1>1, <1>2 DEF TerminalInv, OldInv
  <2> QED BY <2>1, <2>2 DEF OldInv
<1>12. FlowInv'
  <2>1. ASSUME Unrefused, view.state \in {"asking", "watching"}
        PROVE  \E a, b \in Nat : Leads(view.watch, Path', a, b) /\ (Showing => a = Len(screen.data))
    <3>1. PICK a \in Nat, b \in Nat : Leads(view.watch, Path, a, b) /\ (Showing => a = Len(screen.data))
      BY <2>1 DEF TerminalInv, FlowInv
    <3>2. Leads(view.watch, fs, b, b)
      BY <1>2, LeadsNowhere
    <3>3. Leads(view.watch, Path \o fs, a, b)
      BY <1>1, <3>1, <3>2, LeadsConcat
    <3> QED BY <3>1, <3>3
  <2>2. Unrefused' => Unrefused
    BY DEF Unrefused
  <2> QED BY <2>1, <2>2 DEF FlowInv, Showing
<1>13. ScreenInv'
  BY DEF TerminalInv, ScreenInv, Showing, Unrefused, Whole
<1>14. CountInv'
  BY <1>3 DEF TerminalInv, CountInv
<1> QED BY <1>4, <1>5, <1>6, <1>7, <1>8, <1>9, <1>10, <1>11, <1>12, <1>13, <1>14 DEF TerminalInv

-----------------------------------------------------------------------------
(* The steps of the desktop and of the host's stream. *)

LEMMA QuietPath ==
  ASSUME TerminalInv, UNCHANGED <<view, wire, out>>
  PROVE  Path' = Path \o <<>>
<1>1. Path \in Seq(FrameSet)
  BY PathIs DEF TerminalInv
<1>2. \A p \in Seq(FrameSet) : p = p \o <<>>
  OBVIOUS
<1> QED BY <1>1, <1>2 DEF Path

(* Nothing of a stream there is, and nothing of one is there afterwards. *)
LEMMA NilKeeps ==
  ASSUME TerminalInv, stream' = Nil, UNCHANGED <<view, screen, wire, out>>,
         term' \in [seq : Nat, era : Nat, geometry : Nat, open : BOOLEAN],
         term'.open = term.open, term.seq <= term'.seq,
         TailOfUp, happened \subseteq happened', happened' \subseteq Events,
         serving' \in Nat \cup {Nil}, up' \in Seq(Requests),
         view.state = "lost" => UNCHANGED <<serving, up>>
  PROVE  TerminalInv'
<1>1. Path' = Path \o <<>> /\ <<>> \in Seq(FrameSet) /\ In(<< >>) = {}
  BY QuietPath, NothingSent
<1>2. out' \in Seq(FrameSet) /\ wire' \in Seq(FrameSet)
  BY DEF TerminalInv, TerminalTypes
<1> QED BY <1>1, <1>2, EndKeeps

LEMMA DesktopKeeps ==
  ASSUME TerminalInv, Output \/ Resize \/ Clear
  PROVE  TerminalInv'
<1>0. TerminalTypes /\ StreamInv
  BY DEF TerminalInv
<1>1. /\ term' \in [seq : Nat, era : Nat, geometry : Nat, open : BOOLEAN]
      /\ term'.open = term.open /\ term.seq <= term'.seq
      /\ happened \subseteq happened' /\ happened' \subseteq Events
      /\ UNCHANGED <<serving, wire, up, view, screen>>
  <2>1. term \in [seq : Nat, era : Nat, geometry : Nat, open : BOOLEAN] /\ happened \subseteq Events
    BY <1>0 DEF TerminalTypes
  <2>2. UNCHANGED <<serving, wire, up, view, screen>> /\ happened \subseteq happened' /\ happened' \subseteq Events
    BY <2>1 DEF Output, Resize, Clear, Happens, viewer
  <2>3. term.seq \in Nat /\ term.era \in Nat /\ term.geometry \in Nat
    BY <2>1
  <2>4. \/ term' = [term EXCEPT !.seq = term.seq + 1]
        \/ term' = [term EXCEPT !.geometry = term.geometry + 1]
        \/ term' = [term EXCEPT !.era = term.era + 1]
    BY DEF Output, Resize, Clear
  <2>5. /\ term' \in [seq : Nat, era : Nat, geometry : Nat, open : BOOLEAN]
        /\ term'.open = term.open /\ (term'.seq = term.seq \/ term'.seq = term.seq + 1)
    BY <2>1, <2>3, <2>4
  <2>6. term.seq <= term'.seq
    BY <2>3, <2>5
  <2> QED BY <2>2, <2>5, <2>6
<1>2. CASE stream = Nil
  <2>1. stream' = Nil /\ out' = out
    BY <1>2 DEF Output, Resize, Clear
  <2>2. serving' \in Nat \cup {Nil} /\ up' \in Seq(Requests) /\ TailOfUp
    BY <1>0, <1>1 DEF TerminalTypes, TailOfUp
  <2> QED BY <1>1, <2>1, <2>2, NilKeeps
<1>3. CASE stream # Nil
  <2>1. Moves
    BY <1>0, <1>3, OutputMoves, ResizeMoves, ClearMoves
  <2> QED BY <1>1, <1>3, <2>1, MovesKeep
<1> QED BY <1>2, <1>3

LEMMA StreamKeeps ==
  ASSUME TerminalInv, SnapshotTooLarge \/ SnapshotOutrun \/ SnapshotReady \/ Release \/ FlushTimer
  PROVE  TerminalInv'
<1>0. TerminalTypes /\ StreamInv
  BY DEF TerminalInv
<1>1. UNCHANGED <<term, serving, wire, up, view, screen, happened>>
  BY DEF SnapshotTooLarge, SnapshotOutrun, SnapshotReady, Release, FlushTimer, viewer
<1>2. /\ term' \in [seq : Nat, era : Nat, geometry : Nat, open : BOOLEAN]
      /\ term'.open = term.open /\ term.seq <= term'.seq
      /\ happened \subseteq happened' /\ happened' \subseteq Events
  BY <1>0, <1>1 DEF TerminalTypes
<1>3. stream # Nil /\ Moves
  BY <1>0, TooLargeMoves, OutrunMoves, ReadyMoves, ReleaseMoves, FlushTimerMoves
<1> QED BY <1>1, <1>2, <1>3, MovesKeep

LEMMA CloseTabKeeps ==
  ASSUME TerminalInv, CloseTab
  PROVE  TerminalInv'
<1>0. TerminalTypes
  BY DEF TerminalInv
<1>1. /\ term' \in [seq : Nat, era : Nat, geometry : Nat, open : BOOLEAN]
      /\ ~term'.open /\ term'.seq = term.seq /\ term.seq \in Nat
      /\ UNCHANGED <<serving, wire, up, view, screen, happened>>
  BY <1>0 DEF CloseTab, TerminalTypes, viewer
<1>2. PICK fs \in Seq(FrameSet) : /\ stream' = Nil /\ out' = out \o fs
                                  /\ stream = Nil => out' = out
                                  /\ \A f \in In(fs) : ~Carries(f)
  <2>1. CASE stream = Nil
    <3>1. stream' = Nil /\ out' = out /\ out = out \o <<>>
      BY <1>0, <2>1, OutIs DEF CloseTab
    <3> QED BY <2>1, <3>1, NothingSent
  <2>2. CASE stream # Nil
    <3> DEFINE c == <<[kind |-> "closed"]>>
               r == IF Snapshotting(stream) /\ serving # Nil THEN <<[kind |-> "refused", watch |-> serving]>> ELSE <<>>
    <3>1. stream' = Nil /\ out' = out \o (c \o r)
      BY <2>2 DEF CloseTab, Becomes
    <3>2. [kind |-> "closed"] \in FrameSet /\ ~Carries([kind |-> "closed"])
      BY DEF FrameSet, OtherFrames, Carries
    <3>3. serving # Nil => /\ [kind |-> "refused", watch |-> serving] \in FrameSet
                           /\ ~Carries([kind |-> "refused", watch |-> serving])
      BY <1>0 DEF TerminalTypes, FrameSet, OtherFrames, Carries
    <3>4. c \in Seq(FrameSet) /\ In(c) = {[kind |-> "closed"]}
      <4>1. \A e \in FrameSet : <<e>> \in Seq(FrameSet)
        OBVIOUS
      <4> QED BY <3>2, <4>1, InOfOne, Zenon
    <3>5. r \in Seq(FrameSet) /\ \A f \in In(r) : ~Carries(f)
      <4>1. CASE Snapshotting(stream) /\ serving # Nil
        <5>1. \A e \in FrameSet : <<e>> \in Seq(FrameSet)
          OBVIOUS
        <5>2. r = <<[kind |-> "refused", watch |-> serving]>>
          BY <4>1
        <5>3. In(<<[kind |-> "refused", watch |-> serving]>>) = {[kind |-> "refused", watch |-> serving]}
          BY InOfOne, Zenon
        <5> QED BY <3>3, <4>1, <5>1, <5>2, <5>3
      <4>2. CASE ~(Snapshotting(stream) /\ serving # Nil)
        BY <4>2, NothingSent
      <4> QED BY <4>1, <4>2
    <3>6. \A f \in In(c) : ~Carries(f)
      BY <3>2, <3>4
    <3> HIDE DEF c, r
    <3>7. c \o r \in Seq(FrameSet) /\ In(c \o r) = In(c) \cup In(r)
      BY <3>4, <3>5, InOfConcat
    <3> QED BY <2>2, <3>1, <3>5, <3>6, <3>7
  <2> QED BY <2>1, <2>2
<1>3. Path' = Path \o fs
  BY <1>0, <1>1, <1>2, PathGrows
<1>4. out' \in Seq(FrameSet) /\ wire' \in Seq(FrameSet) /\ serving' \in Nat \cup {Nil} /\ up' \in Seq(Requests)
      /\ TailOfUp /\ happened' \subseteq Events
  BY <1>0, <1>1, <1>2 DEF TerminalTypes, TailOfUp
<1>5. view.state = "lost" => out' = out
  <2>1. view.state = "lost" => stream = Nil
    BY DEF TerminalInv, StateInv
  <2>2. stream = Nil => out' = out
    BY <1>2
  <2> QED BY <2>1, <2>2
<1>6. term.seq <= term'.seq
  BY <1>1
<1> QED BY <1>1, <1>2, <1>3, <1>4, <1>5, <1>6, EndKeeps

LEMMA UnwatchKeeps ==
  ASSUME TerminalInv, Unwatch
  PROVE  TerminalInv'
<1>0. TerminalTypes
  BY DEF TerminalInv
<1>1. up # <<>> /\ up' = Tail(up) /\ stream' = Nil /\ UNCHANGED <<term, serving, out, wire, view, screen, happened>>
  BY DEF Unwatch, Takes, viewer
<1>2. /\ term' \in [seq : Nat, era : Nat, geometry : Nat, open : BOOLEAN]
      /\ term'.open = term.open /\ term.seq <= term'.seq
      /\ happened \subseteq happened' /\ happened' \subseteq Events /\ serving' \in Nat \cup {Nil}
  BY <1>0, <1>1 DEF TerminalTypes
<1>3. up' \in Seq(Requests) /\ TailOfUp
  <2>1. up \in Seq(Requests)
    BY <1>0 DEF TerminalTypes
  <2> QED BY <1>1, <2>1, AcksTaken DEF TailOfUp
<1>4. view.state # "lost"
  BY <1>1 DEF TerminalInv, StateInv
<1> QED BY <1>1, <1>2, <1>3, <1>4, NilKeeps

-----------------------------------------------------------------------------
(* Acknowledgements and sent frames keep the invariant. *)

(* The parts of a stream that its frames depend on. *)
Alike(s, q) == q.watch = s.watch /\ q.taking = s.taking /\ q.stale = s.stale /\ q.buffer = s.buffer

LEMMA AlikeExtends ==
  ASSUME NEW s, NEW q, Alike(s, q), NEW r, NEW fs, NEW n, NEW m, Extends(q, r, fs, n, m)
  PROVE  Extends(s, r, fs, n, m)
<1>1. Live(q) = Live(s) /\ Answering(q) = Answering(s) /\ q.watch = s.watch /\ q.taking = s.taking /\ q.buffer = s.buffer
  BY DEF Alike, Live, Answering
<1>2. Feeds(s, r, fs, n, m)
  BY <1>1 DEF Extends, Feeds
<1> QED BY <1>1, <1>2 DEF Extends

LEMMA ResyncStep ==
  ASSUME NEW s \in Streams, NEW q \in Streams, Alike(s, q), term.seq \in Nat, StreamOK(q, term.seq)
  PROVE  /\ Extends(s, MaybeResync(q), <<>>, term.seq, term.seq)
         /\ MaybeResync(q).unacked = q.unacked /\ MaybeResync(q).snapshotUnacked = q.snapshotUnacked
         /\ MaybeResync(q).floor = q.floor /\ MaybeResync(q) \in Streams
<1> DEFINE r == MaybeResync(q)
<1>1. r \in Streams /\ StreamOK(r, term.seq) /\ Resynced(q, r)
  BY MaybeResyncIs
<1> HIDE DEF r
<1>2. /\ r.watch = q.watch /\ r.floor = q.floor /\ r.buffer = q.buffer
      /\ r.unacked = q.unacked /\ r.snapshotUnacked = q.snapshotUnacked
      /\ r = q \/ (q.stale /\ q.taking = Nil /\ r.taking # Nil /\ r.taking.seq = term.seq /\ r.taking.kind = "resync")
  BY <1>1 DEF Resynced
<1>3. Extends(q, r, <<>>, term.seq, term.seq)
  <2>1. CASE r = q
    <3>1. r.taking # Nil => r.taking.seq <= r.taking.seq
      BY <1>1 DEF Streams, Takings
    <3> QED BY <1>1, <2>1, <3>1, QuietStep
  <2>2. CASE q.stale /\ q.taking = Nil /\ r.taking # Nil /\ r.taking.seq = term.seq /\ r.taking.kind = "resync"
    <3>1. ~Answering(r) /\ ~Answering(q) /\ ~Live(r) /\ term.seq <= r.taking.seq
      BY <2>2 DEF Answering, Live
    <3> QED BY <1>1, <1>2, <3>1, QuietStep
  <2> QED BY <1>2, <2>1, <2>2
<1>4. Extends(s, r, <<>>, term.seq, term.seq)
  BY <1>3, AlikeExtends
<1> QED BY <1>1, <1>2, <1>4 DEF r

LEMMA AckKeeps ==
  ASSUME TerminalInv, Ack
  PROVE  TerminalInv'
<1> DEFINE h == Head(up)
           u == Tail(up)
           q == Acked(stream, h)
<1>0. TerminalTypes /\ up \in Seq(Requests) /\ StreamInv
  BY DEF TerminalInv, TerminalTypes
<1>1. /\ up # <<>> /\ up' = u /\ h.kind = "ack" /\ UNCHANGED <<term, serving, out, wire, view, screen, happened>>
      /\ stream # Nil => ~stream.releasing
      /\ stream' = IF stream = Nil THEN Nil ELSE MaybeResync(q)
  BY DEF Ack, Takes, viewer
<1>2. /\ h \in Requests /\ h \in In(up) /\ u \in Seq(Requests)
      /\ Sum(RequestChars, up) = Sum(RequestChars, u) + RequestChars[h]
      /\ Sum(RequestSnapshots, up) = Sum(RequestSnapshots, u) + RequestSnapshots[h]
  BY <1>0, <1>1, AcksTaken
<1>3. TailOfUp
  BY <1>1 DEF TailOfUp
<1>4. /\ term' \in [seq : Nat, era : Nat, geometry : Nat, open : BOOLEAN]
      /\ term'.open = term.open /\ term.seq <= term'.seq /\ term'.seq = term.seq /\ term.seq \in Nat
      /\ happened \subseteq happened' /\ happened' \subseteq Events /\ serving' \in Nat \cup {Nil}
  BY <1>0, <1>1, SMTT(30) DEF TerminalTypes
<1>5. view.state # "lost"
  BY <1>1 DEF TerminalInv, StateInv
<1>6. CASE stream = Nil
  BY <1>1, <1>2, <1>3, <1>4, <1>5, <1>6, NilKeeps
<1>7. CASE stream # Nil
  <2>1. /\ stream \in Streams /\ StreamOK(stream, term.seq) /\ stream.unacked \in Nat /\ stream.floor \in Nat
    BY <1>0, <1>7, StreamTyped
  <2>2. h.chars \in Nat /\ h.snapshot \in Nat \cup {Nil}
    BY <1>1, <1>2, RequestIs
  <2>3. /\ q \in Streams /\ Alike(stream, q) /\ q.floor = stream.floor /\ q.held = stream.held
        /\ q.releasing = stream.releasing /\ q.pending = stream.pending /\ q.overflowed = stream.overflowed
        /\ q.unacked = IF h.chars < stream.unacked THEN stream.unacked - h.chars ELSE 0
        /\ q.snapshotUnacked = (stream.snapshotUnacked /\ h.snapshot # stream.floor)
    <3> DEFINE n == IF h.chars < stream.unacked THEN stream.unacked - h.chars ELSE 0
               b == stream.snapshotUnacked /\ h.snapshot # stream.floor
    <3>1. n \in Nat
      BY <2>1, <2>2
    <3>2. b \in BOOLEAN
      OBVIOUS
    <3>3. q = [stream EXCEPT !.unacked = n, !.snapshotUnacked = b]
      BY DEF Acked
    <3> HIDE DEF n, b, q
    <3>4. /\ q \in Streams /\ Alike(stream, q) /\ q.floor = stream.floor /\ q.held = stream.held
          /\ q.releasing = stream.releasing /\ q.pending = stream.pending /\ q.overflowed = stream.overflowed
          /\ q.unacked = n /\ q.snapshotUnacked = b
      BY <2>1, <3>1, <3>2, <3>3 DEF Streams, Alike
    <3> QED BY <3>4 DEF n, b
  <2> HIDE DEF q
  <2>4. StreamOK(q, term.seq)
    <3>1. ~q.releasing
      BY <1>1, <1>7, <2>3
    <3>2. stream.taking # Nil => q.unacked = 0 /\ ~q.snapshotUnacked
      <4>1. stream.taking # Nil => stream.unacked = 0 /\ ~stream.snapshotUnacked
        BY <2>1 DEF StreamOK
      <4>2. stream.unacked = 0 => ~(h.chars < stream.unacked)
        BY <2>2
      <4> QED BY <2>3, <4>1, <4>2
    <3> QED BY <2>1, <2>3, <3>1, <3>2 DEF StreamOK, Alike
  <2>5. /\ Extends(stream, stream', <<>>, term.seq, term.seq) /\ stream' \in Streams
        /\ stream'.unacked = q.unacked /\ stream'.snapshotUnacked = q.snapshotUnacked /\ stream'.floor = q.floor
        /\ stream'.watch = stream.watch
    <3>1. stream' = MaybeResync(q)
      BY <1>1, <1>7
    <3>2. Extends(stream, MaybeResync(q), <<>>, term.seq, term.seq)
      BY <1>4, <2>1, <2>3, <2>4, ResyncStep
    <3>3. MaybeResync(q).watch = stream.watch
      BY <3>2 DEF Extends
    <3> QED BY <1>4, <2>1, <2>3, <2>4, <3>1, <3>2, <3>3, ResyncStep
  <2>6. Path' = Path \o <<>> /\ Path' = Path /\ <<>> \in Seq(FrameSet) /\ In(<< >>) = {}
    BY <1>1, QuietPath, NothingSent DEF Path
  <2>7. HostExtends(<< >>)
    BY <1>1, <1>3, <1>4, <1>7, <2>5, <2>6 DEF HostExtends, TerminalInv
  <2>8. TerminalTypes' /\ StateInv'
    BY <1>0, <1>1, <1>2, <1>5, <2>5 DEF TerminalTypes, TerminalInv, StateInv
  <2>9. CountInv'
    <3> DEFINE C == Chars(Path)
               S == Snapshots(Path)
               V == view.unacked
               A == Sum(RequestChars, up)
               B == Sum(RequestSnapshots, up)
               A1 == Sum(RequestChars, u)
               B1 == Sum(RequestSnapshots, u)
    <3>1. AckedChars = A /\ AckedSnapshots = B /\ A \in Nat /\ B \in Nat /\ A1 \in Nat /\ B1 \in Nat
      BY <1>0, <1>2, AckedAre DEF AckedChars, AckedSnapshots
    <3>2. AckedChars' = A1 /\ AckedSnapshots' = B1
      BY <1>1, <1>2, AckedAre DEF AckedChars, AckedSnapshots
    <3>3. A = A1 + h.chars /\ B = B1 + IF h.snapshot # Nil THEN 1 ELSE 0
      BY <1>1, <1>2, RequestWeights
    <3>4. C \in Nat /\ S \in Nat /\ V \in Nat
      <4>1. Path \in Seq(FrameSet)
        BY <1>0, PathIs
      <4> QED BY <1>0, <4>1, CountsOfConcat DEF TerminalTypes
    <3>5. In(up') \subseteq In(up)
      BY <1>0, <1>3, UpShrinks
    <3>6. ASSUME stream.watch = 0, view.watch = 0
          PROVE  /\ stream'.unacked = C + V + A1
                 /\ S + B1 = IF stream'.snapshotUnacked THEN 1 ELSE 0
                 /\ \A f \in In(Path) : /\ f.kind = "data" => f.floor = stream'.floor
                                        /\ Snaps(f) => f.seq = stream'.floor
                 /\ \A r \in In(up') : r.kind = "ack" /\ r.snapshot # Nil => r.snapshot = stream'.floor
                 /\ \A i \in DOMAIN Path : Snaps(Path[i]) => V = 0 /\ A1 = 0 /\ \A j \in 1..i : Path[j].kind # "data"
      <4>1. /\ stream.unacked = C + V + A
            /\ S + B = IF stream.snapshotUnacked THEN 1 ELSE 0
            /\ \A f \in In(Path) : /\ f.kind = "data" => f.floor = stream.floor
                                   /\ Snaps(f) => f.seq = stream.floor
            /\ \A r \in In(up) : r.kind = "ack" /\ r.snapshot # Nil => r.snapshot = stream.floor
            /\ \A i \in DOMAIN Path : Snaps(Path[i]) => V = 0 /\ A = 0 /\ \A j \in 1..i : Path[j].kind # "data"
        BY <1>7, <3>1, <3>6 DEF TerminalInv, CountInv
      <4>2. h.snapshot # Nil => h.snapshot = stream.floor
        BY <1>1, <1>2, <4>1
      <4>3. stream.floor # Nil
        BY <2>1, TerminalAssumption
      <4> HIDE DEF C, S, V, A, B, A1, B1
      <4>4. q.unacked = C + V + A1
        BY <2>2, <2>3, <3>1, <3>3, <3>4, <4>1
      <4>5. S + B1 = IF q.snapshotUnacked THEN 1 ELSE 0
        <5>1. CASE h.snapshot = Nil
          <6>1. B = B1 /\ q.snapshotUnacked = stream.snapshotUnacked
            BY <2>1, <2>3, <3>1, <3>3, <4>3, <5>1 DEF Streams
          <6> QED BY <4>1, <6>1
        <5>2. CASE h.snapshot # Nil
          <6>1. B = B1 + 1 /\ ~q.snapshotUnacked
            BY <2>3, <3>3, <4>2, <5>2
          <6> QED BY <3>1, <3>4, <4>1, <6>1
        <5> QED BY <5>1, <5>2
      <4>6. A = 0 => A1 = 0
        BY <2>2, <3>1, <3>3
      <4> QED BY <2>3, <2>5, <3>5, <4>1, <4>4, <4>5, <4>6
    <3>7. view.watch = 0 /\ (\E r \in In(up') : r.kind = "watch") => V = 0 /\ \A r \in In(up') : r.kind # "ack"
      BY <3>5 DEF TerminalInv, CountInv
    <3> HIDE DEF Path
    <3> QED BY <1>1, <2>5, <2>6, <3>2, <3>6, <3>7 DEF CountInv
  <2> QED BY <2>7, <2>8, <2>9, HostKeepsFrames, HostKeepsOrder, HostKeepsAnswers, HostKeepsOld, HostKeepsFlow
          DEF TerminalInv
<1> QED BY <1>6, <1>7

LEMMA HeadOf ==
  ASSUME NEW p \in Seq(FrameSet), p # <<>>
  PROVE  /\ Head(p) \in FrameSet /\ Tail(p) \in Seq(FrameSet) /\ <<Head(p)>> \in Seq(FrameSet)
         /\ p = <<Head(p)>> \o Tail(p)
OBVIOUS

LEMMA SendKeeps ==
  ASSUME TerminalInv, Send
  PROVE  TerminalInv'
<1> DEFINE h == Head(out)
<1>0. TerminalTypes /\ out \in Seq(FrameSet) /\ wire \in Seq(FrameSet) /\ view.early \in Seq(FrameSet) /\ StreamInv
  BY DEF TerminalInv, TerminalTypes
<1>1. /\ out # <<>> /\ out' = Tail(out) /\ wire' = Append(wire, h) /\ UNCHANGED <<term, up, view, screen, happened>>
      /\ serving' = serving \/ serving' = Nil
      /\ stream' = stream \/ (stream # Nil /\ stream' = MaybeResync([stream EXCEPT !.resyncing = FALSE]))
  BY DEF Send, viewer
<1>2. h \in FrameSet /\ Tail(out) \in Seq(FrameSet) /\ <<h>> \in Seq(FrameSet) /\ out = <<h>> \o Tail(out)
  BY <1>0, <1>1, HeadOf
<1>3. Path' = Path
  <2> DEFINE t == Tail(out)
             g == <<h>>
             e == view.early
  <2>1. wire' = wire \o g
    BY <1>0, <1>1, <1>2
  <2>2. g \in Seq(FrameSet) /\ t \in Seq(FrameSet) /\ e \in Seq(FrameSet) /\ out = g \o t
    BY <1>0, <1>2
  <2> HIDE DEF t, g, e, h
  <2>3. e \o wire \in Seq(FrameSet)
    BY <1>0, <2>2
  <2>4. (e \o wire) \o (g \o t) = ((e \o wire) \o g) \o t
    BY <2>2, <2>3, FramesConcat
  <2>5. (e \o wire) \o g = e \o (wire \o g)
    <3>1. e \in Seq(FrameSet) /\ wire \in Seq(FrameSet) /\ g \in Seq(FrameSet)
      BY <1>0, <2>2
    <3> QED BY <3>1, FramesConcat
  <2>6. Path = (e \o wire) \o (g \o t)
    BY <2>2 DEF Path, e
  <2>7. Path' = (e \o (wire \o g)) \o t
    BY <1>1, <2>1 DEF Path, e, t
  <2> QED BY <2>4, <2>5, <2>6, <2>7
<1>4. Path' = Path \o <<>> /\ <<>> \in Seq(FrameSet) /\ In(<< >>) = {}
  <2>1. Path \in Seq(FrameSet)
    BY <1>0, PathIs
  <2>2. \A p \in Seq(FrameSet) : p \o <<>> = p
    OBVIOUS
  <2> QED BY <1>3, <2>1, <2>2, NothingSent
<1>5. /\ term' \in [seq : Nat, era : Nat, geometry : Nat, open : BOOLEAN]
      /\ term'.open = term.open /\ term.seq <= term'.seq /\ term'.seq = term.seq /\ term.seq \in Nat
      /\ happened \subseteq happened' /\ happened' \subseteq Events /\ serving' \in Nat \cup {Nil}
      /\ up' \in Seq(Requests) /\ TailOfUp /\ out' \in Seq(FrameSet) /\ wire' \in Seq(FrameSet)
  BY <1>0, <1>1, <1>2, SMTT(30) DEF TerminalTypes, TailOfUp
<1>6. view.state # "lost"
  BY <1>1 DEF TerminalInv, StateInv
<1>7. CASE stream = Nil
  <2>1. stream' = Nil
    BY <1>1, <1>7
  <2> QED BY <1>1, <1>4, <1>5, <1>6, <2>1, EndKeeps
<1>8. CASE stream # Nil
  <2>1. stream \in Streams /\ StreamOK(stream, term.seq)
    BY <1>0, <1>8, StreamTyped
  <2>2. Extends(stream, stream', <<>>, term.seq, term.seq) /\ Adds(stream, stream', <<>>)
    <3>1. CASE stream' = stream
      BY <1>0, <1>8, <3>1, Stays
    <3>2. CASE stream' = MaybeResync([stream EXCEPT !.resyncing = FALSE])
      <4> DEFINE q == [stream EXCEPT !.resyncing = FALSE]
      <4>1. /\ q \in Streams /\ Alike(stream, q) /\ q.unacked = stream.unacked
            /\ q.snapshotUnacked = stream.snapshotUnacked /\ q.floor = stream.floor
        BY <2>1 DEF Streams, Alike
      <4>2. StreamOK(q, term.seq)
        BY <2>1 DEF Streams, StreamOK
      <4>3. stream' = MaybeResync(q)
        BY <3>2
      <4> HIDE DEF q
      <4>4. /\ Extends(stream, stream', <<>>, term.seq, term.seq)
            /\ stream'.unacked = stream.unacked /\ stream'.snapshotUnacked = stream.snapshotUnacked
            /\ stream'.floor = stream.floor
        BY <1>5, <2>1, <4>1, <4>2, <4>3, ResyncStep
      <4>5. stream.unacked \in Nat
        BY <2>1 DEF Streams
      <4> QED BY <4>4, <4>5, NothingSent DEF Adds
    <3> QED BY <1>1, <3>1, <3>2
  <2>3. HostExtends(<< >>)
    BY <1>1, <1>4, <1>5, <1>8, <2>2 DEF HostExtends, TerminalInv
  <2>4. TerminalTypes' /\ StateInv'
    <3>1. stream' \in Streams
      BY <2>2 DEF Extends
    <3> QED BY <1>0, <1>1, <1>5, <1>6, <3>1 DEF TerminalTypes, TerminalInv, StateInv
  <2>5. CountInv'
    BY <1>1, <2>2, <2>3, HostKeepsCounts DEF TerminalInv
  <2> QED BY <2>3, <2>4, <2>5, HostKeepsFrames, HostKeepsOrder, HostKeepsAnswers, HostKeepsOld, HostKeepsFlow
          DEF TerminalInv
<1> QED BY <1>7, <1>8

-----------------------------------------------------------------------------
(* Each part of the invariant, when a frame leaves the path. *)

(* q is p without its n-th frame, which is e. *)
Skips(p, q, n, e) ==
  /\ p \in Seq(FrameSet) /\ q \in Seq(FrameSet) /\ n \in 1..Len(p) /\ p[n] = e
  /\ \A i \in DOMAIN q : /\ i < n => i \in DOMAIN p /\ q[i] = p[i]
                         /\ ~(i < n) => i + 1 \in DOMAIN p /\ q[i] = p[i + 1]
  /\ \A i \in DOMAIN p : /\ i < n => i \in DOMAIN q /\ q[i] = p[i]
                         /\ i > n => i - 1 \in DOMAIN q /\ q[i - 1] = p[i]

LEMMA SkipsOne ==
  ASSUME NEW a \in Seq(FrameSet), NEW e \in FrameSet, NEW b \in Seq(FrameSet)
  PROVE  Skips(a \o <<e>> \o b, a \o b, Len(a) + 1, e)
<1> DEFINE c == a \o <<e>>
           p == c \o b
           q == a \o b
           n == Len(a) + 1
<1>1. <<e>> \in Seq(FrameSet) /\ Len(<<e>>) = 1 /\ <<e>>[1] = e
  OBVIOUS
<1>2. c \in Seq(FrameSet) /\ Len(c) = n /\ Len(a) \in Nat /\ Len(b) \in Nat
  BY <1>1
<1>3. c[n] = e /\ \A i \in 1..Len(a) : c[i] = a[i]
  BY <1>1
<1> HIDE DEF c
<1>4. p \in Seq(FrameSet) /\ q \in Seq(FrameSet) /\ Len(p) = n + Len(b) /\ Len(q) = Len(a) + Len(b)
  BY <1>2
<1>5. \A i \in 1..(n + Len(b)) : p[i] = IF i <= n THEN c[i] ELSE b[i - n]
  BY <1>2, ElementOfConcat
<1>6. \A i \in 1..(Len(a) + Len(b)) : q[i] = IF i <= Len(a) THEN a[i] ELSE b[i - Len(a)]
  BY ElementOfConcat
<1>7. DOMAIN p = 1..(n + Len(b)) /\ DOMAIN q = 1..(Len(a) + Len(b))
  BY <1>4
<1>8. n \in 1..Len(p) /\ p[n] = e
  BY <1>2, <1>3, <1>4, <1>5
<1> HIDE DEF p, q
<1>9. ASSUME NEW i \in 1..(Len(a) + Len(b))
      PROVE  /\ i < n => i \in DOMAIN p /\ q[i] = p[i]
             /\ ~(i < n) => i + 1 \in DOMAIN p /\ q[i] = p[i + 1]
  <2>1. CASE i < n
    BY <1>2, <1>3, <1>5, <1>6, <1>7, <2>1
  <2>2. CASE ~(i < n)
    <3>1. i + 1 \in 1..(n + Len(b)) /\ ~(i + 1 <= n) /\ (i + 1) - n = i - Len(a) /\ ~(i <= Len(a))
      BY <1>2, <2>2
    <3>2. p[i + 1] = b[(i + 1) - n] /\ q[i] = b[i - Len(a)]
      BY <1>5, <1>6, <3>1
    <3> QED BY <1>7, <2>2, <3>1, <3>2
  <2> QED BY <2>1, <2>2
<1>10. ASSUME NEW i \in 1..(n + Len(b))
       PROVE  /\ i < n => i \in DOMAIN q /\ q[i] = p[i]
              /\ i > n => i - 1 \in DOMAIN q /\ q[i - 1] = p[i]
  <2>1. CASE i < n
    BY <1>2, <1>3, <1>5, <1>6, <1>7, <2>1
  <2>2. CASE i > n
    <3>1. i - 1 \in 1..(Len(a) + Len(b)) /\ ~(i <= n) /\ i - n = (i - 1) - Len(a) /\ ~(i - 1 <= Len(a))
      BY <1>2, <2>2
    <3>2. p[i] = b[i - n] /\ q[i - 1] = b[(i - 1) - Len(a)]
      BY <1>5, <1>6, <3>1
    <3> QED BY <1>2, <1>7, <2>2, <3>1, <3>2
  <2> QED BY <1>2, <2>1, <2>2
<1>11. Skips(p, q, n, e)
  BY <1>4, <1>7, <1>8, <1>9, <1>10 DEF Skips
<1> QED BY <1>11 DEF p, q, c, n

LEMMA SkipsAre ==
  ASSUME NEW p, NEW q, NEW n, NEW e, Skips(p, q, n, e)
  PROVE  /\ p \in Seq(FrameSet) /\ q \in Seq(FrameSet) /\ In(q) \subseteq In(p) /\ In(p) \subseteq In(q) \cup {e}
         /\ In(p) \subseteq FrameSet /\ e \in In(p) /\ e \in FrameSet
         /\ DOMAIN p = 1..Len(p) /\ DOMAIN q = 1..Len(q) /\ n \in DOMAIN p
<1>1. p \in Seq(FrameSet) /\ q \in Seq(FrameSet) /\ n \in 1..Len(p) /\ p[n] = e
  BY DEF Skips
<1>2. DOMAIN p = 1..Len(p) /\ DOMAIN q = 1..Len(q)
  BY <1>1
<1>3. In(q) \subseteq In(p)
  <2>1. ASSUME NEW i \in DOMAIN q PROVE q[i] \in In(p)
    <3>1. (i < n /\ i \in DOMAIN p /\ q[i] = p[i]) \/ (i + 1 \in DOMAIN p /\ q[i] = p[i + 1])
      BY DEF Skips
    <3> QED BY <3>1 DEF In
  <2> QED BY <2>1 DEF In
<1>4. In(p) \subseteq In(q) \cup {e}
  <2>1. ASSUME NEW i \in DOMAIN p PROVE p[i] \in In(q) \cup {e}
    <3>1. i < n \/ i = n \/ i > n
      BY <1>1, <1>2
    <3>2. CASE i < n
      BY <3>2 DEF Skips, In
    <3>3. CASE i > n
      BY <3>3 DEF Skips, In
    <3> QED BY <1>1, <3>1, <3>2, <3>3
  <2> QED BY <2>1 DEF In
<1>5. In(p) \subseteq FrameSet /\ e \in In(p)
  BY <1>1, <1>2, InIsTyped DEF In
<1> QED BY <1>1, <1>2, <1>3, <1>4, <1>5

(* A frame leaves the path: it is received, or over the limit. *)
LeavesPath(e, n) ==
  /\ TerminalInv /\ Skips(Path, Path', n, e)
  /\ \/ stream = Nil /\ stream' = Nil
     \/ stream # Nil /\ Extends(stream, stream', <<>>, term.seq, term.seq)
  /\ term' = term /\ view'.watch = view.watch
  /\ up' = up \/ \E r \in Requests : r.kind # "watch" /\ up' = Append(up, r)
  /\ view'.state = "asking" => view.state = "asking" /\ ~IsAnswer(view.watch, e)
  /\ view'.state = "watching" => view.state = "watching" \/ (view.state = "asking" /\ IsAnswer(view.watch, e))
  /\ view'.state \in {"refused", "closed"} => view'.state = view.state \/ e.kind \in {"refused", "closed"}

LEMMA DropFacts ==
  ASSUME NEW e, NEW n, LeavesPath(e, n)
  PROVE  /\ Path \in Seq(FrameSet) /\ Path' \in Seq(FrameSet)
         /\ In(Path') \subseteq In(Path) /\ In(Path) \subseteq In(Path') \cup {e}
         /\ In(Path) \subseteq FrameSet /\ e \in In(Path) /\ e \in FrameSet
         /\ DOMAIN Path = 1..Len(Path) /\ DOMAIN Path' = 1..Len(Path') /\ n \in DOMAIN Path
         /\ term.seq \in Nat /\ view.watch \in Nat
         /\ stream = Nil => stream' = Nil
         /\ stream # Nil => /\ stream \in Streams /\ stream' \in Streams /\ StreamOK(stream', term.seq)
                            /\ stream'.watch = stream.watch
<1>1. /\ Path \in Seq(FrameSet) /\ Path' \in Seq(FrameSet)
      /\ In(Path') \subseteq In(Path) /\ In(Path) \subseteq In(Path') \cup {e}
      /\ In(Path) \subseteq FrameSet /\ e \in In(Path) /\ e \in FrameSet
      /\ DOMAIN Path = 1..Len(Path) /\ DOMAIN Path' = 1..Len(Path') /\ n \in DOMAIN Path
  <2> DEFINE p == Path
             q == Path'
  <2>1. Skips(p, q, n, e)
    BY DEF LeavesPath
  <2> HIDE DEF p, q
  <2>2. /\ p \in Seq(FrameSet) /\ q \in Seq(FrameSet) /\ In(q) \subseteq In(p) /\ In(p) \subseteq In(q) \cup {e}
        /\ In(p) \subseteq FrameSet /\ e \in In(p) /\ e \in FrameSet
        /\ DOMAIN p = 1..Len(p) /\ DOMAIN q = 1..Len(q) /\ n \in DOMAIN p
    BY <2>1, SkipsAre
  <2> QED BY <2>2 DEF p, q
<1>2. term.seq \in Nat /\ view.watch \in Nat
  BY DEF LeavesPath, TerminalInv, TerminalTypes
<1>3. stream = Nil => stream' = Nil
  BY DEF LeavesPath
<1>4. stream # Nil => /\ stream \in Streams /\ stream' \in Streams /\ StreamOK(stream', term.seq)
                      /\ stream'.watch = stream.watch
  BY StreamTyped DEF LeavesPath, Extends, TerminalInv
<1> QED BY <1>1, <1>2, <1>3, <1>4

LEMMA DropKeepsFrames ==
  ASSUME NEW e, NEW n, LeavesPath(e, n)
  PROVE  StreamInv' /\ FramesInv' /\ ClosedInv'
<1>1. term' = term
  BY DEF LeavesPath
<1>2. StreamInv'
  BY <1>1, DropFacts DEF StreamInv
<1>3. FramesInv'
  <2>1. \A f \in In(Path') : FrameOK(f, term.seq)
    BY DropFacts DEF LeavesPath, TerminalInv, FramesInv
  <2> QED BY <1>1, <2>1 DEF FramesInv
<1>4. ClosedInv'
  <2>1. ~term.open => stream' = Nil
    BY DropFacts DEF LeavesPath, TerminalInv, ClosedInv
  <2>2. ASSUME term.open
        PROVE  view'.state \notin {"refused", "closed"} /\ \A f \in In(Path') : f.kind \notin {"refused", "closed"}
    <3>1. view.state \notin {"refused", "closed"} /\ \A f \in In(Path) : f.kind \notin {"refused", "closed"}
      BY <2>2 DEF LeavesPath, TerminalInv, ClosedInv
    <3>2. In(Path') \subseteq In(Path) /\ e \in In(Path)
      BY DropFacts
    <3>3. view'.state \in {"refused", "closed"} => view'.state = view.state \/ e.kind \in {"refused", "closed"}
      BY DEF LeavesPath
    <3> QED BY <3>1, <3>2, <3>3
  <2> QED BY <1>1, <2>1, <2>2 DEF ClosedInv
<1> QED BY <1>2, <1>3, <1>4

LEMMA UpGrows ==
  ASSUME NEW u \in Seq(Requests), NEW v, v = u \/ \E r \in Requests : r.kind # "watch" /\ v = Append(u, r)
  PROVE  /\ \A r \in In(v) : r.kind = "watch" => r \in In(u)
         /\ \A i \in DOMAIN v : v[i].kind = "watch" => i \in DOMAIN u /\ v[i] = u[i]
         /\ v \in Seq(Requests) /\ In(u) \subseteq In(v)
<1>1. CASE v = u
  BY <1>1 DEF In
<1>2. ASSUME NEW r \in Requests, r.kind # "watch", v = Append(u, r)
      PROVE  /\ \A q \in In(v) : q.kind = "watch" => q \in In(u)
             /\ \A i \in DOMAIN v : v[i].kind = "watch" => i \in DOMAIN u /\ v[i] = u[i]
             /\ v \in Seq(Requests) /\ In(u) \subseteq In(v)
  <2>1. v = u \o <<r>> /\ In(u \o <<r>>) = In(u) \cup {r} /\ v \in Seq(Requests)
    BY <1>2, AcksAdded
  <2>2. \A i \in DOMAIN v : (i \in DOMAIN u /\ v[i] = u[i]) \/ v[i] = r
    BY <1>2
  <2> QED BY <1>2, <2>1, <2>2
<1> QED BY <1>1, <1>2

LEMMA DropKeepsOrder ==
  ASSUME NEW e, NEW n, LeavesPath(e, n)
  PROVE  OrderInv'
<1>1. /\ \A r \in In(up') : r.kind = "watch" => r \in In(up)
      /\ \A i \in DOMAIN up' : up'[i].kind = "watch" => i \in DOMAIN up /\ up'[i] = up[i]
  <2>1. up \in Seq(Requests)
    BY DEF LeavesPath, TerminalInv, TerminalTypes
  <2> QED BY <2>1, UpGrows DEF LeavesPath
<1>2. /\ In(Path') \subseteq In(Path) /\ (stream = Nil => stream' = Nil)
      /\ (stream # Nil => stream'.watch = stream.watch) /\ view'.watch = view.watch
  BY DropFacts DEF LeavesPath
<1>3. OrderInv
  BY DEF LeavesPath, TerminalInv
<1>4. /\ \A f \in In(Path') : Carries(f) => /\ f.watch <= view'.watch
                                            /\ stream' # Nil => f.watch <= stream'.watch
      /\ stream' # Nil => stream'.watch <= view'.watch
  BY <1>2, <1>3 DEF OrderInv
<1>5. \A r \in In(up') : r.kind = "watch" =>
       /\ r.watch <= view'.watch
       /\ stream' # Nil => stream'.watch < r.watch
       /\ \A f \in In(Path') : Carries(f) => f.watch < r.watch
  BY <1>1, <1>2, <1>3 DEF OrderInv
<1>6. \A i, j \in DOMAIN up' : i < j /\ up'[i].kind = "watch" /\ up'[j].kind = "watch" => up'[i].watch < up'[j].watch
  BY <1>1, <1>3 DEF OrderInv
<1> QED BY <1>4, <1>5, <1>6 DEF OrderInv

LEMMA DropKeepsAnswers ==
  ASSUME NEW e, NEW n, LeavesPath(e, n)
  PROVE  AnswerInv'
<1> DEFINE w == view.watch
<1>1. /\ In(Path') \subseteq In(Path) /\ In(Path) \subseteq In(Path') \cup {e} /\ e \in In(Path)
      /\ (stream = Nil => stream' = Nil) /\ (stream # Nil => stream'.watch = stream.watch)
      /\ DOMAIN Path = 1..Len(Path) /\ DOMAIN Path' = 1..Len(Path') /\ n \in DOMAIN Path
      /\ Path \in Seq(FrameSet) /\ Path' \in Seq(FrameSet)
  BY DropFacts
<1>2. /\ view'.watch = w /\ AnswerInv /\ OrderInv /\ Skips(Path, Path', n, e)
      /\ view'.state = "asking" => view.state = "asking" /\ ~IsAnswer(w, e)
      /\ view'.state = "watching" => view.state = "watching" \/ (view.state = "asking" /\ IsAnswer(w, e))
  BY DEF LeavesPath, TerminalInv
<1>3. stream # Nil => (Answering(stream') <=> Answering(stream))
  <2>1. In(<< >>) = {} /\ Len(<< >>) = 0
    BY NothingSent
  <2> QED BY <2>1 DEF LeavesPath, Extends
<1>4. \A r \in In(up') : r.kind = "watch" => r \in In(up)
  <2>1. up \in Seq(Requests)
    BY DEF LeavesPath, TerminalInv, TerminalTypes
  <2> QED BY <2>1, UpGrows DEF LeavesPath
<1>5. Len(Path) \in Nat /\ Len(Path') \in Nat /\ n \in Nat
  <2> DEFINE p == Path
             q == Path'
  <2>1. p \in Seq(FrameSet) /\ q \in Seq(FrameSet) /\ n \in 1..Len(p)
    BY <1>1
  <2> HIDE DEF p, q
  <2>2. Len(p) \in Nat /\ Len(q) \in Nat /\ n \in Nat
    BY <2>1
  <2> QED BY <2>2 DEF p, q
<1> HIDE DEF Path
<1>6. /\ n \in DOMAIN Path /\ Path[n] = e
      /\ \A i \in DOMAIN Path' : /\ i < n => i \in DOMAIN Path /\ Path'[i] = Path[i]
                                 /\ ~(i < n) => i + 1 \in DOMAIN Path /\ Path'[i] = Path[i + 1]
      /\ \A i \in DOMAIN Path : /\ i < n => i \in DOMAIN Path' /\ Path'[i] = Path[i]
                                /\ i > n => i - 1 \in DOMAIN Path' /\ Path'[i - 1] = Path[i]
  BY <1>1, <1>2 DEF Skips
<1>7. ASSUME stream' # Nil, Answering(stream') PROVE \A f \in In(Path') : ~Of(stream'.watch, f)
  BY <1>1, <1>2, <1>3, <1>7 DEF AnswerInv
<1>8. ASSUME view'.state = "asking"
      PROVE  /\ \A i \in DOMAIN Path' : Of(w, Path'[i]) => \E j \in 1..i : IsAnswer(w, Path'[j])
             /\ \A i, j \in DOMAIN Path' : IsAnswer(w, Path'[i]) /\ IsAnswer(w, Path'[j]) => i = j
             /\ stream' # Nil /\ stream'.watch = w /\ ~Answering(stream') => \E f \in In(Path') : IsAnswer(w, f)
  <2>1. /\ \A i \in DOMAIN Path : Of(w, Path[i]) => \E j \in 1..i : IsAnswer(w, Path[j])
        /\ \A i, j \in DOMAIN Path : IsAnswer(w, Path[i]) /\ IsAnswer(w, Path[j]) => i = j
        /\ stream # Nil /\ stream.watch = w /\ ~Answering(stream) => \E f \in In(Path) : IsAnswer(w, f)
        /\ ~IsAnswer(w, e)
    BY <1>2, <1>8 DEF AnswerInv
  <2>2. ASSUME NEW i \in DOMAIN Path', Of(w, Path'[i]) PROVE \E j \in 1..i : IsAnswer(w, Path'[j])
    <3>1. PICK k \in DOMAIN Path : Path[k] = Path'[i] /\ ((i < n /\ k = i) \/ (~(i < n) /\ k = i + 1))
      BY <1>6
    <3>2. PICK j \in 1..k : IsAnswer(w, Path[j])
      BY <2>1, <2>2, <3>1
    <3>3. j # n /\ j \in DOMAIN Path /\ j \in Nat /\ i \in Nat /\ k \in Nat
      <4>1. j \in DOMAIN Path /\ j \in Nat /\ i \in Nat /\ k \in Nat
        BY <1>1, <1>5, <3>1, <3>2
      <4>2. j # n
        BY <1>6, <2>1, <3>2
      <4> QED BY <4>1, <4>2
    <3>4. CASE j < n
      <4>1. j \in 1..i /\ Path'[j] = Path[j]
        BY <1>5, <1>6, <3>1, <3>2, <3>3, <3>4
      <4> QED BY <3>2, <4>1
    <3>5. CASE j > n
      <4>1. Path'[j - 1] = Path[j]
        BY <1>6, <3>3, <3>5
      <4>2. j - 1 \in 1..i
        BY <1>1, <1>5, <3>1, <3>2, <3>3, <3>5
      <4> QED BY <3>2, <4>1, <4>2
    <3> QED BY <1>5, <3>3, <3>4, <3>5
  <2>3. ASSUME NEW i \in DOMAIN Path', NEW j \in DOMAIN Path', IsAnswer(w, Path'[i]), IsAnswer(w, Path'[j])
        PROVE  i = j
    <3>1. PICK k \in DOMAIN Path : Path[k] = Path'[i] /\ ((i < n /\ k = i) \/ (~(i < n) /\ k = i + 1))
      BY <1>6
    <3>2. PICK l \in DOMAIN Path : Path[l] = Path'[j] /\ ((j < n /\ l = j) \/ (~(j < n) /\ l = j + 1))
      BY <1>6
    <3>3. k = l
      BY <2>1, <2>3, <3>1, <3>2
    <3>4. i \in Nat /\ j \in Nat
      BY <1>1, <1>5
    <3> QED BY <1>5, <3>1, <3>2, <3>3, <3>4
  <2>4. ASSUME stream' # Nil, stream'.watch = w, ~Answering(stream') PROVE \E f \in In(Path') : IsAnswer(w, f)
    <3>1. PICK f \in In(Path) : IsAnswer(w, f)
      BY <1>1, <1>3, <2>1, <2>4
    <3> QED BY <1>1, <2>1, <3>1
  <2> QED BY <2>2, <2>3, <2>4
<1>9. ASSUME view'.state = "watching"
      PROVE  /\ \A f \in In(Path') : ~IsAnswer(w, f)
             /\ \A r \in In(up') : r.kind # "watch"
             /\ stream' # Nil => stream'.watch = w /\ ~Answering(stream')
  <2>1. CASE view.state = "watching"
    BY <1>1, <1>2, <1>3, <1>4, <2>1 DEF AnswerInv
  <2>2. CASE view.state = "asking" /\ IsAnswer(w, e)
    <3>1. ASSUME NEW f \in In(Path'), IsAnswer(w, f) PROVE FALSE
      <4>1. PICK i \in DOMAIN Path' : Path'[i] = f
        BY DEF In
      <4>2. PICK k \in DOMAIN Path : Path[k] = f /\ ((i < n /\ k = i) \/ (~(i < n) /\ k = i + 1))
        BY <1>6, <4>1
      <4>3. k = n
        BY <1>2, <1>6, <2>2, <3>1, <4>2 DEF AnswerInv
      <4>4. i \in Nat
        BY <1>1, <1>5
      <4> QED BY <1>5, <4>2, <4>3, <4>4
    <3>2. e.watch = w /\ Carries(e) /\ Of(w, e) /\ w \in Nat
      BY <2>2, DropFacts DEF IsAnswer, Carries, Of
    <3>3. ASSUME NEW r \in In(up'), r.kind = "watch" PROVE FALSE
      <4>1. r \in In(up) /\ r \in Requests
        <5>1. up \in Seq(Requests)
          BY DEF LeavesPath, TerminalInv, TerminalTypes
        <5> QED BY <1>4, <3>3, <5>1, InIsTyped
      <4>2. r.watch <= w /\ e.watch < r.watch /\ r.watch \in Nat
        BY <1>1, <1>2, <3>2, <3>3, <4>1, RequestIs DEF OrderInv
      <4> QED BY <3>2, <4>2
    <3>4. ASSUME stream' # Nil PROVE stream'.watch = w /\ ~Answering(stream')
      <4>1. stream # Nil /\ stream \in Streams
        BY <3>4, DropFacts
      <4>2. e.watch <= stream.watch /\ stream.watch <= w /\ stream.watch \in Nat
        BY <1>1, <1>2, <3>2, <4>1 DEF OrderInv, Streams
      <4>3. stream.watch = w
        BY <3>2, <4>2
      <4>4. ~Answering(stream)
        BY <1>1, <1>2, <3>2, <4>1, <4>3 DEF AnswerInv
      <4> QED BY <1>1, <1>3, <4>1, <4>3, <4>4
    <3> QED BY <3>1, <3>3, <3>4
  <2> QED BY <1>2, <1>9, <2>1, <2>2
<1> QED BY <1>2, <1>7, <1>8, <1>9 DEF AnswerInv

LEMMA DropKeepsOld ==
  ASSUME NEW e, NEW n, LeavesPath(e, n),
         Showing' => \/ Showing /\ view'.floor = view.floor
                     \/ Snaps(e) /\ e.watch = view.watch /\ view'.floor = e.seq
  PROVE  OldInv'
<1>1. /\ In(Path') \subseteq In(Path) /\ e \in In(Path)
      /\ (stream = Nil => stream' = Nil) /\ (stream # Nil => stream'.watch = stream.watch)
      /\ term.seq \in Nat /\ In(Path) \subseteq FrameSet
  BY DropFacts
<1>2. view'.watch = view.watch /\ OldInv /\ FramesInv
  BY DEF LeavesPath, TerminalInv
<1>3. \A f, g \in In(Path') : f.kind = "data" /\ Snaps(g) /\ f.watch < g.watch => f.seq <= g.seq
  BY <1>1, <1>2 DEF OldInv
<1>4. ASSUME stream' # Nil, stream'.taking # Nil,
             NEW f \in In(Path'), f.kind = "data", f.watch < stream'.watch
      PROVE  f.seq <= stream'.taking.seq
  <2>1. f \in In(Path) /\ f.seq \in Nat /\ f.seq <= term.seq /\ stream # Nil /\ f.watch < stream.watch
    <3>1. f \in In(Path) /\ stream # Nil /\ f.watch < stream.watch
      BY <1>1, <1>4
    <3>2. f.seq \in Nat
      BY <1>1, <1>4, <3>1, KindIs
    <3>3. f.seq <= term.seq
      BY <1>2, <1>4, <3>1 DEF FramesInv, FrameOK
    <3> QED BY <3>1, <3>2, <3>3
  <2>2. /\ term.seq <= stream'.taking.seq \/ (stream.taking # Nil /\ stream.taking.seq <= stream'.taking.seq)
        /\ stream \in Streams /\ stream' \in Streams
    BY <1>4, <2>1, DropFacts DEF LeavesPath, Extends
  <2>3. stream'.taking.seq \in Nat /\ (stream.taking # Nil => stream.taking.seq \in Nat)
    BY <1>4, <2>2 DEF Streams, Takings
  <2>4. CASE term.seq <= stream'.taking.seq
    BY <1>1, <2>1, <2>3, <2>4
  <2>5. CASE stream.taking # Nil /\ stream.taking.seq <= stream'.taking.seq
    <3>1. f.seq <= stream.taking.seq
      BY <1>2, <1>4, <2>1, <2>5 DEF OldInv
    <3> QED BY <2>1, <2>3, <2>5, <3>1
  <2> QED BY <2>2, <2>4, <2>5
<1>5. ASSUME view'.state = "watching", screen'.watch = view'.watch,
             NEW f \in In(Path'), f.kind = "data", f.watch < view'.watch
      PROVE  f.seq <= view'.floor
  <2>1. Showing'
    BY <1>5 DEF Showing
  <2>2. CASE Showing /\ view'.floor = view.floor
    BY <1>1, <1>2, <1>5, <2>2 DEF OldInv, Showing
  <2>3. CASE Snaps(e) /\ e.watch = view.watch /\ view'.floor = e.seq
    BY <1>1, <1>2, <1>5, <2>3 DEF OldInv
  <2> QED BY <2>1, <2>2, <2>3
<1> QED BY <1>3, <1>4, <1>5 DEF OldInv

-----------------------------------------------------------------------------
(* The counts and the flow, when a frame leaves the path. *)

Dropped(a, e, b) == Path = a \o <<e>> \o b /\ Path' = a \o b

LEMMA DropKeepsCounts ==
  ASSUME NEW a \in Seq(FrameSet), NEW b \in Seq(FrameSet), NEW e, NEW n, LeavesPath(e, n), Dropped(a, e, b),
         view'.unacked \in Nat,
         view'.unacked \in {view.unacked, 0} \/ (n = 1 /\ e.kind = "data"),
         \/ view'.state = "watching"
         \/ view'.unacked = view.unacked /\ \A r \in In(up') : r.kind = "ack" => r \in In(up),
         stream # Nil /\ stream.watch = 0 /\ view.watch = 0 =>
           /\ stream'.floor = stream.floor /\ stream'.snapshotUnacked = stream.snapshotUnacked
           /\ stream.unacked + view'.unacked = stream'.unacked + view.unacked + Size(e)
           /\ AckedChars' = AckedChars
           /\ AckedSnapshots' = AckedSnapshots + (IF Snaps(e) THEN 1 ELSE 0)
           /\ \A r \in In(up') : r.kind = "ack" /\ r.snapshot # Nil =>
                r \in In(up) \/ (Snaps(e) /\ r.snapshot = e.seq)
  PROVE  CountInv'
<1> DEFINE C == Chars(Path')
           S == Snapshots(Path')
           k == IF Snaps(e) THEN 1 ELSE 0
           AC == AckedChars
           AS == AckedSnapshots
<1>1. /\ In(Path') \subseteq In(Path) /\ e \in In(Path) /\ e \in FrameSet
      /\ (stream = Nil => stream' = Nil) /\ (stream # Nil => stream'.watch = stream.watch)
      /\ (stream # Nil => stream \in Streams /\ stream' \in Streams)
      /\ DOMAIN Path = 1..Len(Path) /\ DOMAIN Path' = 1..Len(Path') /\ n \in DOMAIN Path
      /\ Path \in Seq(FrameSet) /\ Path' \in Seq(FrameSet)
  BY DropFacts
<1>2. /\ view'.watch = view.watch /\ CountInv /\ Skips(Path, Path', n, e) /\ TerminalTypes
      /\ up \in Seq(Requests) /\ view.unacked \in Nat
  BY DEF LeavesPath, TerminalInv, TerminalTypes
<1>3. Chars(Path) = C + Size(e) /\ Snapshots(Path) = S + k /\ C \in Nat /\ S \in Nat
  <2>1. /\ Chars(a \o <<e>> \o b) = Chars(a \o b) + Size(e)
        /\ Snapshots(a \o <<e>> \o b) = Snapshots(a \o b) + IF Snaps(e) THEN 1 ELSE 0
        /\ Chars(a \o b) \in Nat /\ Snapshots(a \o b) \in Nat
    BY <1>1, CountsOfMiddle
  <2> QED BY <2>1 DEF Dropped
<1>4. Len(Path) \in Nat /\ Len(Path') \in Nat /\ n \in Nat /\ 1 <= n
  <2> DEFINE p == Path
             q == Path'
  <2>1. p \in Seq(FrameSet) /\ q \in Seq(FrameSet) /\ n \in 1..Len(p)
    BY <1>1
  <2> HIDE DEF p, q
  <2>2. Len(p) \in Nat /\ Len(q) \in Nat /\ n \in Nat /\ 1 <= n
    BY <2>1
  <2> QED BY <2>2 DEF p, q
<1>5. AC \in Nat /\ AS \in Nat
  BY <1>2, AckedAre DEF AckedChars, AckedSnapshots
<1>6. Size(e) \in Nat /\ k \in Nat
  BY <1>1, KindIs DEF Size
<1> HIDE DEF Path
<1>7. /\ Path[n] = e
      /\ \A i \in DOMAIN Path' : /\ i < n => i \in DOMAIN Path /\ Path'[i] = Path[i]
                                 /\ ~(i < n) => i + 1 \in DOMAIN Path /\ Path'[i] = Path[i + 1]
  BY <1>1, <1>2 DEF Skips
<1>8. ASSUME view'.watch = 0, NEW q \in In(up'), q.kind = "watch"
      PROVE  view'.unacked = 0 /\ \A r \in In(up') : r.kind # "ack"
  <2>1. view'.state # "watching"
    BY <1>8, DropKeepsAnswers DEF AnswerInv
  <2>2. q \in In(up)
    BY <1>2, <1>8, UpGrows DEF LeavesPath
  <2> QED BY <1>2, <1>8, <2>1, <2>2 DEF CountInv
<1>9. ASSUME stream' # Nil, stream'.watch = 0, view'.watch = 0
      PROVE  /\ stream'.unacked = C + view'.unacked + AckedChars'
             /\ S + AckedSnapshots' = IF stream'.snapshotUnacked THEN 1 ELSE 0
             /\ \A f \in In(Path') : /\ f.kind = "data" => f.floor = stream'.floor
                                     /\ Snaps(f) => f.seq = stream'.floor
             /\ \A r \in In(up') : r.kind = "ack" /\ r.snapshot # Nil => r.snapshot = stream'.floor
             /\ \A i \in DOMAIN Path' : Snaps(Path'[i]) =>
                  view'.unacked = 0 /\ AckedChars' = 0 /\ \A j \in 1..i : Path'[j].kind # "data"
  <2>1. stream # Nil /\ stream.watch = 0 /\ view.watch = 0
    BY <1>1, <1>2, <1>9
  <2>2. /\ stream.unacked = Chars(Path) + view.unacked + AC
        /\ Snapshots(Path) + AS = IF stream.snapshotUnacked THEN 1 ELSE 0
        /\ \A f \in In(Path) : /\ f.kind = "data" => f.floor = stream.floor
                               /\ Snaps(f) => f.seq = stream.floor
        /\ \A r \in In(up) : r.kind = "ack" /\ r.snapshot # Nil => r.snapshot = stream.floor
        /\ \A i \in DOMAIN Path : Snaps(Path[i]) =>
             view.unacked = 0 /\ AC = 0 /\ \A j \in 1..i : Path[j].kind # "data"
    BY <1>2, <2>1 DEF CountInv
  <2>3. /\ stream'.floor = stream.floor /\ stream'.snapshotUnacked = stream.snapshotUnacked
        /\ stream.unacked + view'.unacked = stream'.unacked + view.unacked + Size(e)
        /\ AckedChars' = AC /\ AckedSnapshots' = AS + k
        /\ \A r \in In(up') : r.kind = "ack" /\ r.snapshot # Nil => r \in In(up) \/ (Snaps(e) /\ r.snapshot = e.seq)
    BY <2>1
  <2>4. stream'.unacked \in Nat /\ stream.unacked \in Nat
    BY <1>1, <2>1 DEF Streams
  <2>5. stream'.unacked = C + view'.unacked + AckedChars'
    <3> DEFINE x == stream.unacked
               y == stream'.unacked
               v == view.unacked
               z == view'.unacked
               t == AckedChars'
               s == Size(e)
               d == Chars(Path)
    <3>1. x = d + v + AC /\ d = C + s /\ x + z = y + v + s /\ t = AC
      BY <1>3, <2>2, <2>3
    <3>2. x \in Nat /\ y \in Nat /\ v \in Nat /\ z \in Nat /\ C \in Nat /\ s \in Nat /\ AC \in Nat
      BY <1>2, <1>3, <1>5, <1>6, <2>4
    <3> HIDE DEF x, y, v, z, t, s, d, C, AC
    <3>3. y = C + z + t
      BY <3>1, <3>2
    <3> QED BY <3>3 DEF y, z, t
  <2>6. S + AckedSnapshots' = IF stream'.snapshotUnacked THEN 1 ELSE 0
    <3>1. S + (AS + k) = (S + k) + AS
      <4> HIDE DEF S, AS, k
      <4> QED BY <1>3, <1>5, <1>6
    <3> QED BY <1>3, <2>2, <2>3, <3>1
  <2>7. \A r \in In(up') : r.kind = "ack" /\ r.snapshot # Nil => r.snapshot = stream'.floor
    BY <1>1, <2>2, <2>3
  <2>8. ASSUME NEW i \in DOMAIN Path', Snaps(Path'[i])
        PROVE  view'.unacked = 0 /\ AckedChars' = 0 /\ \A j \in 1..i : Path'[j].kind # "data"
    <3>1. PICK l \in DOMAIN Path : Path[l] = Path'[i] /\ ((i < n /\ l = i) \/ (~(i < n) /\ l = i + 1))
      BY <1>7
    <3>2. view.unacked = 0 /\ AC = 0 /\ \A j \in 1..l : Path[j].kind # "data"
      BY <2>2, <2>8, <3>1
    <3>3. i \in Nat /\ l \in Nat
      BY <1>1, <1>4, <3>1
    <3>4. ~(n = 1 /\ e.kind = "data")
      <4>1. 1 \in 1..l
        BY <1>1, <1>4, <3>1
      <4> QED BY <1>7, <3>2, <4>1
    <3>5. ASSUME NEW j \in 1..i PROVE Path'[j].kind # "data"
      <4>1. j \in DOMAIN Path' /\ j \in Nat
        BY <1>1, <1>4, <3>3
      <4>2. CASE j < n
        <5>1. Path'[j] = Path[j] /\ j \in 1..l
          BY <1>7, <3>1, <3>3, <4>1, <4>2
        <5> QED BY <3>2, <5>1
      <4>3. CASE ~(j < n)
        <5>1. Path'[j] = Path[j + 1] /\ j + 1 \in 1..l
          BY <1>4, <1>7, <3>1, <3>3, <4>1, <4>3
        <5> QED BY <3>2, <5>1
      <4> QED BY <4>2, <4>3
    <3> QED BY <2>3, <3>2, <3>4, <3>5
  <2> QED BY <1>1, <2>2, <2>3, <2>5, <2>6, <2>7, <2>8
<1> QED BY <1>8, <1>9 DEF CountInv

-----------------------------------------------------------------------------
(* The frame is none of the view's watch, or changes nothing of what is shown. *)
LEMMA DropKeepsFlow ==
  ASSUME NEW a \in Seq(FrameSet), NEW b \in Seq(FrameSet), NEW e, NEW n, LeavesPath(e, n), Dropped(a, e, b),
         ~Of(view.watch, e), stream' = stream, happened' = happened,
         Showing' => Showing /\ screen'.data = screen.data /\ view'.floor = view.floor
  PROVE  FlowInv' /\ ScreenInv'
<1>1. /\ view'.watch = view.watch /\ FlowInv /\ ScreenInv /\ term' = term
      /\ (view'.state \in {"asking", "watching"} => view.state \in {"asking", "watching"})
      /\ e \in FrameSet
  BY DropFacts DEF LeavesPath, TerminalInv
<1>2. ScreenInv'
  BY <1>1 DEF ScreenInv, Unrefused, Whole
<1>3. ASSUME Unrefused', view'.state \in {"asking", "watching"}
      PROVE  \E x, y \in Nat :
               /\ Leads(view.watch, a \o b, x, y)
               /\ Showing' => x = Len(screen'.data)
               /\ stream # Nil /\ stream.watch = view.watch /\ Live(stream) => y = term.seq - Len(stream.buffer)
  <2>1. PICK x \in Nat, y \in Nat :
               /\ Leads(view.watch, a \o <<e>> \o b, x, y)
               /\ Showing => x = Len(screen.data)
               /\ stream # Nil /\ stream.watch = view.watch /\ Live(stream) => y = term.seq - Len(stream.buffer)
    BY <1>1, <1>3 DEF FlowInv, Dropped, Unrefused
  <2>2. <<e>> \in Seq(FrameSet) /\ a \o <<e>> \in Seq(FrameSet)
    BY <1>1
  <2>3. PICK z \in Nat : Leads(view.watch, a \o <<e>>, x, z) /\ Leads(view.watch, b, z, y)
    BY <2>1, <2>2, LeadsSplit
  <2>4. PICK t \in Nat : Leads(view.watch, a, x, t) /\ Leads(view.watch, <<e>>, t, z)
    BY <2>2, <2>3, LeadsSplit
  <2>5. t = z
    BY <2>4, LeadsOne DEF Links
  <2>6. Leads(view.watch, a \o b, x, y)
    BY <2>3, <2>4, <2>5, LeadsConcat
  <2> QED BY <2>1, <2>6
<1> QED BY <1>1, <1>2, <1>3 DEF FlowInv, Dropped

(* The frame is the first of the view's watch. *)
LEMMA DropFeeds ==
  ASSUME NEW a \in Seq(FrameSet), NEW b \in Seq(FrameSet), NEW e, NEW n, LeavesPath(e, n), Dropped(a, e, b),
         Of(view.watch, e), \A f \in In(a) : ~Of(view.watch, f), stream' = stream, happened' = happened,
         Unrefused, view.state \in {"asking", "watching"}
  PROVE  \E x, y, z \in Nat :
           /\ e.kind = "data" => e.data[1] = x + 1
           /\ y = Last(e)
           /\ Showing => x = Len(screen.data)
           /\ Leads(view.watch, a \o b, y, z)
           /\ stream # Nil /\ stream.watch = view.watch /\ Live(stream) => z = term.seq - Len(stream.buffer)
<1>1. FlowInv /\ e \in FrameSet
  BY DropFacts DEF LeavesPath, TerminalInv
<1>2. PICK u \in Nat, z \in Nat :
             /\ Leads(view.watch, a \o <<e>> \o b, u, z)
             /\ Showing => u = Len(screen.data)
             /\ stream # Nil /\ stream.watch = view.watch /\ Live(stream) => z = term.seq - Len(stream.buffer)
  BY <1>1 DEF FlowInv, Dropped
<1>3. <<e>> \in Seq(FrameSet) /\ a \o <<e>> \in Seq(FrameSet)
  BY <1>1
<1>4. PICK y \in Nat : Leads(view.watch, a \o <<e>>, u, y) /\ Leads(view.watch, b, y, z)
  BY <1>2, <1>3, LeadsSplit
<1>5. PICK x \in Nat : Leads(view.watch, a, u, x) /\ Leads(view.watch, <<e>>, x, y)
  BY <1>3, <1>4, LeadsSplit
<1>6. (e.kind = "data" => e.data[1] = x + 1) /\ y = Last(e)
  BY <1>5, LeadsOne DEF Links
<1>7. Leads(view.watch, a \o b, y, z)
  <2>1. Leads(view.watch, a, y, y)
    BY LeadsNowhere
  <2> QED BY <1>4, <2>1, LeadsConcat
<1>8. x = u
  <2>1. PICK h \in [0..Len(a) -> Nat] :
          h[0] = u /\ h[Len(a)] = x /\ \A i \in 1..Len(a) : Links(view.watch, a[i], h[i - 1], h[i])
    BY <1>5 DEF Leads
  <2>2. ASSUME NEW i \in 1..Len(a) PROVE h[i] = h[i - 1]
    <3>1. ~Of(view.watch, a[i])
      BY DEF In
    <3>2. Links(view.watch, a[i], h[i - 1], h[i])
      BY <2>1
    <3> QED BY <3>1, <3>2 DEF Links
  <2>3. ASSUME x # u PROVE FALSE
    <3> DEFINE D == {i \in 0..Len(a) : h[i] # u}
    <3>1. D \subseteq Nat /\ Len(a) \in D
      BY <2>1, <2>3
    <3>2. PICK i \in D : \A j \in D : i <= j
      BY <3>1, SmallestOf, Zenon
    <3>3. i # 0 /\ i \in 1..Len(a)
      BY <2>1, <3>2
    <3>4. i - 1 \in 0..Len(a) /\ i - 1 \notin D
      BY <3>2, <3>3
    <3> QED BY <2>2, <3>2, <3>3, <3>4
  <2> QED BY <2>3
<1> QED BY <1>2, <1>6, <1>7, <1>8

-----------------------------------------------------------------------------
(* A frame of output that the relay's limit refuses. *)
LEMMA OversizeKeeps ==
  ASSUME TerminalInv, Oversize
  PROVE  TerminalInv'
<1> DEFINE e == Head(out)
           a == view.early \o wire
           b == Tail(out)
           n == Len(a) + 1
<1>0. /\ TerminalTypes /\ StreamInv /\ out \in Seq(FrameSet) /\ wire \in Seq(FrameSet) /\ view.early \in Seq(FrameSet)
      /\ up \in Seq(Requests) /\ CountInv /\ OrderInv /\ view.unacked \in Nat /\ term.seq \in Nat
  BY DEF TerminalInv, TerminalTypes
<1>1. /\ out # <<>> /\ e.kind = "data" /\ out' = b /\ UNCHANGED <<term, serving, wire, up, view, screen>>
      /\ happened' = happened \cup {"refusal"} /\ "refusal" \in Events
      /\ stream' = IF stream # Nil /\ e.watch = stream.watch /\ e.floor = stream.floor
                   THEN TakenBack(stream, e) ELSE stream
  BY DEF Oversize, Happens, viewer
<1>2. e \in FrameSet /\ b \in Seq(FrameSet) /\ <<e>> \in Seq(FrameSet) /\ out = <<e>> \o b /\ a \in Seq(FrameSet)
  BY <1>0, <1>1, HeadOf
<1>3. e.watch \in Nat /\ e.floor \in Nat /\ e.data \in Seq(Nat) /\ Len(e.data) \in Nat /\ Size(e) = Len(e.data)
      /\ ~Snaps(e) /\ Carries(e) /\ \A w : ~IsAnswer(w, e)
  BY <1>1, <1>2, KindIs DEF Size, Snaps, Carries, IsAnswer
<1>4. Dropped(a, e, b) /\ Skips(Path, Path', n, e)
  <2>1. Path = a \o (<<e>> \o b) /\ Path' = a \o b
    BY <1>1, <1>2 DEF Path
  <2> HIDE DEF a, b, e
  <2>2. (a \o <<e>>) \o b = a \o (<<e>> \o b)
    <3> DEFINE g == <<e>>
    <3>1. g \in Seq(FrameSet)
      BY <1>2
    <3> HIDE DEF g
    <3>2. (a \o g) \o b = a \o (g \o b)
      BY <1>2, <3>1, FramesConcat
    <3> QED BY <3>2 DEF g
  <2>3. Skips(a \o <<e>> \o b, a \o b, Len(a) + 1, e)
    BY <1>2, SkipsOne
  <2>4. Path = a \o <<e>> \o b
    BY <2>1, <2>2
  <2> QED BY <2>1, <2>3, <2>4 DEF Dropped
<1> HIDE DEF a, b, n
<1>5. stream # Nil => stream \in Streams /\ StreamOK(stream, term.seq) /\ stream.unacked \in Nat
  BY <1>0, StreamTyped
<1>6. stream # Nil =>
        /\ Extends(stream, stream', <<>>, term.seq, term.seq) /\ stream'.floor = stream.floor
        /\ stream'.snapshotUnacked = stream.snapshotUnacked
        /\ stream'.unacked = IF e.watch = stream.watch /\ e.floor = stream.floor
                             THEN (IF Size(e) < stream.unacked THEN stream.unacked - Size(e) ELSE 0)
                             ELSE stream.unacked
  <2>1. CASE stream # Nil /\ e.watch = stream.watch /\ e.floor = stream.floor
    <3> DEFINE m == IF Size(e) < stream.unacked THEN stream.unacked - Size(e) ELSE 0
               q == [stream EXCEPT !.unacked = m]
    <3>1. m \in Nat
      BY <1>3, <1>5, <2>1
    <3>2. stream' = FallBehind(q)
      BY <1>1, <1>3, <2>1 DEF TakenBack
    <3>3. stream.taking # Nil => m = 0
      <4>1. stream.taking # Nil => stream.unacked = 0
        BY <1>5, <2>1 DEF StreamOK
      <4> QED BY <1>3, <4>1
    <3> HIDE DEF m
    <3>4. /\ q \in Streams /\ Alike(stream, q) /\ q.unacked = m /\ q.floor = stream.floor
          /\ q.snapshotUnacked = stream.snapshotUnacked
      BY <1>5, <2>1, <3>1 DEF Streams, Alike
    <3>5. StreamOK(q, term.seq)
      BY <1>5, <2>1, <3>1, <3>3 DEF Streams, StreamOK
    <3> HIDE DEF q
    <3>6. Extends(q, stream', <<>>, term.seq, term.seq) /\ stream'.unacked = m /\ stream'.floor = stream.floor
          /\ stream'.snapshotUnacked = stream.snapshotUnacked
      BY <1>0, <3>2, <3>4, <3>5, FallBehindIs
    <3>7. Extends(stream, stream', <<>>, term.seq, term.seq)
      BY <3>4, <3>6, AlikeExtends
    <3> QED BY <2>1, <3>6, <3>7 DEF m
  <2>2. CASE stream # Nil /\ ~(e.watch = stream.watch /\ e.floor = stream.floor)
    <3>1. stream' = stream
      BY <1>1, <2>2
    <3> QED BY <1>0, <2>2, <3>1, Stays
  <2> QED BY <2>1, <2>2
<1>7. stream = Nil => stream' = Nil
  BY <1>1
<1>8. LeavesPath(e, n)
  BY <1>1, <1>3, <1>4, <1>6, <1>7 DEF LeavesPath
<1>9. view.state # "lost"
  BY <1>1 DEF TerminalInv, StateInv
<1>10. TerminalTypes' /\ StateInv'
  <2>1. stream' \in Streams \cup {Nil}
    BY <1>6, <1>7 DEF Extends
  <2> QED BY <1>0, <1>1, <1>2, <1>9, <2>1 DEF TerminalTypes, TerminalInv, StateInv
<1>11. FlowInv' /\ ScreenInv'
  BY <1>1 DEF FlowInv, ScreenInv, Unrefused
<1>12. OldInv'
  <2>1. Showing' => Showing /\ view'.floor = view.floor
    BY <1>1 DEF Showing
  <2> QED BY <1>8, <2>1, DropKeepsOld
<1>13. CountInv'
  <2>1. AckedChars' = AckedChars /\ AckedSnapshots' = AckedSnapshots
    BY <1>1 DEF AckedChars, AckedSnapshots
  <2>2. AckedSnapshots \in Nat /\ AckedChars \in Nat
    BY <1>0, AckedAre DEF AckedChars, AckedSnapshots
  <2>3. ASSUME stream # Nil, stream.watch = 0, view.watch = 0
        PROVE  stream.unacked + view.unacked = stream'.unacked + view.unacked + Size(e)
    <3>1. e \in In(Path) /\ In(Path) \subseteq FrameSet /\ Path \in Seq(FrameSet)
      BY <1>8, DropFacts
    <3>2. e.floor = stream.floor /\ stream.unacked = Chars(Path) + view.unacked + AckedChars
      BY <1>0, <1>1, <2>3, <3>1 DEF CountInv
    <3>3. e.watch = stream.watch
      BY <1>0, <1>3, <2>3, <3>1 DEF OrderInv
    <3>4. Size(e) <= Chars(Path) /\ Chars(Path) \in Nat
      BY <3>1, CountsHold
    <3>5. stream'.unacked = IF Size(e) < stream.unacked THEN stream.unacked - Size(e) ELSE 0
      BY <1>6, <2>3, <3>2, <3>3
    <3>6. Size(e) \in Nat
      BY <1>3
    <3> DEFINE s == Size(e)
               x == stream.unacked
               y == stream'.unacked
               v == view.unacked
               d == Chars(Path)
               t == AckedChars
    <3>7. /\ x = d + v + t /\ s <= d /\ y = (IF s < x THEN x - s ELSE 0)
          /\ s \in Nat /\ d \in Nat /\ v \in Nat /\ t \in Nat
      BY <1>0, <2>2, <3>2, <3>4, <3>5, <3>6
    <3> HIDE DEF s, x, y, v, d, t
    <3>8. x + v = y + v + s
      BY <3>7
    <3> QED BY <3>8 DEF s, x, y, v
  <2>4. \A r \in In(up') : r \in In(up)
    BY <1>1
  <2>5. view'.unacked \in Nat /\ view'.unacked = view.unacked
    BY <1>0, <1>1
  <2>6. stream # Nil /\ stream.watch = 0 /\ view.watch = 0 =>
           /\ stream'.floor = stream.floor /\ stream'.snapshotUnacked = stream.snapshotUnacked
           /\ stream.unacked + view'.unacked = stream'.unacked + view.unacked + Size(e)
           /\ AckedChars' = AckedChars
           /\ AckedSnapshots' = AckedSnapshots + (IF Snaps(e) THEN 1 ELSE 0)
           /\ \A r \in In(up') : r.kind = "ack" /\ r.snapshot # Nil =>
                r \in In(up) \/ (Snaps(e) /\ r.snapshot = e.seq)
    <3>1. AckedSnapshots' = AckedSnapshots + (IF Snaps(e) THEN 1 ELSE 0)
      BY <1>3, <2>1, <2>2
    <3> QED BY <1>6, <2>1, <2>3, <2>4, <2>5, <3>1
  <2>7. a \in Seq(FrameSet) /\ b \in Seq(FrameSet) /\ Dropped(a, e, b)
    BY <1>2, <1>4
  <2>8. view'.unacked \in {view.unacked, 0} /\ \A r \in In(up') : r.kind = "ack" => r \in In(up)
    BY <2>4, <2>5
  <2> HIDE DEF e
  <2> QED BY <1>8, <2>5, <2>6, <2>7, <2>8, DropKeepsCounts
<1> QED BY <1>8, <1>10, <1>11, <1>12, <1>13, DropKeepsFrames, DropKeepsOrder, DropKeepsAnswers DEF TerminalInv

-----------------------------------------------------------------------------
(* What the browser receives: a frame that carries no output. *)

LEMMA ReceivePath ==
  ASSUME TerminalTypes, wire # <<>>, out' = out,
         \/ view'.early = view.early /\ wire' = Tail(wire)
         \/ view'.early = <<>> /\ wire' = view.early \o Tail(wire)
  PROVE  /\ Head(wire) \in FrameSet /\ view.early \in Seq(FrameSet) /\ Tail(wire) \o out \in Seq(FrameSet)
         /\ wire' \in Seq(FrameSet) /\ Dropped(view.early, Head(wire), Tail(wire) \o out)
         /\ Skips(Path, Path', Len(view.early) + 1, Head(wire))
<1> DEFINE e == Head(wire)
           t == Tail(wire)
           g == <<e>>
           a == view.early
           b == t \o out
<1>1. /\ out \in Seq(FrameSet) /\ wire \in Seq(FrameSet) /\ a \in Seq(FrameSet)
  BY DEF TerminalTypes
<1>2. e \in FrameSet /\ t \in Seq(FrameSet) /\ g \in Seq(FrameSet) /\ wire = g \o t
  BY <1>1, HeadOf
<1>3. Path = (a \o wire) \o out
  BY DEF Path
<1>4. Path' = (a \o t) \o out
  <2>1. CASE view'.early = view.early /\ wire' = Tail(wire)
    BY <2>1 DEF Path
  <2>2. CASE view'.early = <<>> /\ wire' = view.early \o Tail(wire)
    <3>1. Path' = (<<>> \o (a \o t)) \o out
      BY <2>2 DEF Path
    <3>2. a \o t \in Seq(FrameSet)
      BY <1>1, <1>2
    <3>3. \A p \in Seq(FrameSet) : <<>> \o p = p
      OBVIOUS
    <3> QED BY <3>1, <3>2, <3>3
  <2> QED BY <2>1, <2>2
<1>5. wire' \in Seq(FrameSet)
  <2>1. CASE wire' = Tail(wire)
    BY <1>2, <2>1
  <2>2. CASE wire' = view.early \o Tail(wire)
    <3>1. a \o t \in Seq(FrameSet)
      BY <1>1, <1>2
    <3> QED BY <2>2, <3>1
  <2> QED BY <2>1, <2>2
<1>6. b \in Seq(FrameSet) /\ a \o t \in Seq(FrameSet) /\ a \o g \in Seq(FrameSet)
  BY <1>1, <1>2
<1> HIDE DEF t, g, a
<1>7. (a \o t) \o out = a \o (t \o out)
  BY <1>1, <1>2, FramesConcat
<1>8. a \o (g \o t) = (a \o g) \o t
  BY <1>1, <1>2, FramesConcat
<1>9. ((a \o g) \o t) \o out = (a \o g) \o (t \o out)
  <2> DEFINE p == a \o g
  <2>1. p \in Seq(FrameSet) /\ t \in Seq(FrameSet) /\ out \in Seq(FrameSet)
    BY <1>1, <1>2, <1>6
  <2> HIDE DEF p
  <2>2. (p \o t) \o out = p \o (t \o out)
    BY <2>1, FramesConcat
  <2> QED BY <2>2 DEF p
<1>10. Path = (a \o g) \o b /\ Path' = a \o b
  BY <1>2, <1>3, <1>4, <1>7, <1>8, <1>9
<1> HIDE DEF b, e
<1>11. Skips(a \o <<e>> \o b, a \o b, Len(a) + 1, e)
  BY <1>1, <1>2, <1>6, SkipsOne
<1>12. Path = a \o <<e>> \o b
  BY <1>10 DEF g
<1>13. Skips(Path, Path', Len(a) + 1, e) /\ Dropped(a, e, b)
  BY <1>10, <1>11, <1>12 DEF Dropped
<1> QED BY <1>1, <1>2, <1>5, <1>6, <1>13 DEF e, t, a, b

(* The head of the wire is received. *)
Received(e, n) ==
  /\ TerminalInv /\ wire # <<>> /\ e = Head(wire) /\ n = Len(view.early) + 1 /\ Unmoved
  /\ \/ view'.early = view.early /\ wire' = Tail(wire)
     \/ view'.early = <<>> /\ wire' = view.early \o Tail(wire)
  /\ view'.watch = view.watch
  /\ view' \in [state : {"asking", "watching", "refused", "closed", "lost"}, watch : Nat, floor : Nat,
                early : Seq(FrameSet), unacked : Nat]
  /\ screen' \in [watch : Nat, data : Seq(Nat), era : Nat, geometry : Nat]
  /\ up' = up \/ \E r \in Requests : r.kind # "watch" /\ up' = Append(up, r)
  /\ view'.state = "asking" => view.state = "asking" /\ ~IsAnswer(view.watch, e)
  /\ view'.state = "watching" => view.state = "watching" \/ (view.state = "asking" /\ IsAnswer(view.watch, e))
  /\ view'.state \in {"refused", "closed"} => view'.state = view.state \/ e.kind \in {"refused", "closed"}

LEMMA ArrivalDrops ==
  ASSUME NEW e, NEW n, Received(e, n)
  PROVE  /\ LeavesPath(e, n) /\ Dropped(view.early, e, Tail(wire) \o out)
         /\ view.early \in Seq(FrameSet) /\ Tail(wire) \o out \in Seq(FrameSet) /\ e \in FrameSet
         /\ TerminalTypes' /\ view.state # "lost" /\ stream' = stream /\ term' = term /\ happened' = happened
<1>1. TerminalTypes /\ StreamInv /\ out' = out /\ stream' = stream /\ term' = term /\ happened' = happened
      /\ serving' = serving
  BY DEF Received, TerminalInv, Unmoved
<1>2. /\ e \in FrameSet /\ view.early \in Seq(FrameSet) /\ Tail(wire) \o out \in Seq(FrameSet)
      /\ wire' \in Seq(FrameSet) /\ Dropped(view.early, e, Tail(wire) \o out)
      /\ Skips(Path, Path', n, e)
  BY <1>1, ReceivePath DEF Received
<1>3. stream # Nil => Extends(stream, stream', <<>>, term.seq, term.seq)
  BY <1>1, Stays
<1>4. LeavesPath(e, n)
  BY <1>1, <1>2, <1>3 DEF Received, LeavesPath
<1>5. up' \in Seq(Requests)
  <2>1. up \in Seq(Requests)
    BY <1>1 DEF TerminalTypes
  <2> QED BY <2>1, UpGrows DEF Received
<1>6. TerminalTypes'
  BY <1>1, <1>2, <1>5 DEF TerminalTypes, Received
<1>7. view.state # "lost"
  BY DEF Received, TerminalInv, StateInv
<1> QED BY <1>1, <1>2, <1>4, <1>6, <1>7

(* What the invariants of a received frame leave to show. *)
LEMMA ArrivalKeeps ==
  ASSUME NEW e, NEW n, Received(e, n), StateInv', OldInv', FlowInv', ScreenInv', CountInv'
  PROVE  TerminalInv'
BY ArrivalDrops, DropKeepsFrames, DropKeepsOrder, DropKeepsAnswers DEF TerminalInv

LEMMA StateStays ==
  ASSUME NEW e, NEW n, Received(e, n), view'.early = view.early, view'.state \in {view.state, "refused", "closed"}
  PROVE  StateInv'
BY ArrivalDrops DEF Received, TerminalInv, StateInv

(* A frame that carries no output: a new geometry, the end of the terminal, a refusal. *)
LEMMA PassesKeep ==
  ASSUME NEW e, NEW n, Received(e, n), ~Carries(e), view'.early = view.early,
         view'.state \in {view.state, "refused", "closed"},
         view'.floor = view.floor, view'.unacked = view.unacked,
         screen'.watch = screen.watch, screen'.data = screen.data,
         up' = up \/ up' = Append(up, [kind |-> "unwatch"])
  PROVE  TerminalInv'
<1>0. /\ LeavesPath(e, n) /\ Dropped(view.early, e, Tail(wire) \o out)
      /\ view.early \in Seq(FrameSet) /\ Tail(wire) \o out \in Seq(FrameSet) /\ e \in FrameSet
      /\ stream' = stream /\ happened' = happened
  BY ArrivalDrops
<1>1. ~Of(view.watch, e) /\ ~Snaps(e) /\ e.kind # "data"
  BY DEF Of, Carries, Snaps
<1>2. Showing' => Showing /\ screen'.data = screen.data /\ view'.floor = view.floor
  BY DEF Showing, Received
<1>3. OldInv' /\ FlowInv' /\ ScreenInv'
  BY <1>0, <1>1, <1>2, DropKeepsOld, DropKeepsFlow
<1>4. StateInv'
  BY StateStays
<1>5. /\ up \in Seq(Requests) /\ view.unacked \in Nat /\ view'.unacked \in Nat
      /\ (stream # Nil => stream.unacked \in Nat)
  BY <1>0, DropFacts DEF LeavesPath, TerminalInv, TerminalTypes, Streams
<1>6. /\ AckedChars' = AckedChars /\ AckedSnapshots' = AckedSnapshots /\ AckedSnapshots \in Nat
      /\ \A r \in In(up') : r.kind = "ack" => r \in In(up)
  <2> DEFINE u == [kind |-> "unwatch"]
  <2>1. /\ AckedChars = Sum(RequestChars, up) /\ AckedSnapshots = Sum(RequestSnapshots, up)
        /\ Sum(RequestChars, up) \in Nat /\ Sum(RequestSnapshots, up) \in Nat
    BY <1>5, AckedAre DEF AckedChars, AckedSnapshots
  <2>2. CASE up' = up
    BY <2>1, <2>2 DEF AckedChars, AckedSnapshots
  <2>3. CASE up' = Append(up, u)
    <3>1. u \in Requests /\ u.kind = "unwatch"
      BY DEF Requests
    <3> HIDE DEF u
    <3>2. RequestChars[u] = 0 /\ RequestSnapshots[u] = 0
      BY <3>1, RequestWeights
    <3>3. /\ up' \in Seq(Requests) /\ up' = up \o <<u>> /\ In(up \o <<u>>) = In(up) \cup {u}
          /\ Sum(RequestChars, up \o <<u>>) = Sum(RequestChars, up) + 0
          /\ Sum(RequestSnapshots, up \o <<u>>) = Sum(RequestSnapshots, up) + 0
      BY <1>5, <2>3, <3>1, <3>2, AcksAdded
    <3>4. AckedChars' = Sum(RequestChars, up') /\ AckedSnapshots' = Sum(RequestSnapshots, up')
      BY <3>3, AckedAre DEF AckedChars, AckedSnapshots
    <3> QED BY <2>1, <3>1, <3>3, <3>4
  <2> QED BY <2>2, <2>3
<1>7. Size(e) = 0
  BY <1>1 DEF Size
<1>8. CountInv'
  <2>1. AckedSnapshots' = AckedSnapshots + (IF Snaps(e) THEN 1 ELSE 0)
    BY <1>1, <1>6
  <2>2. stream # Nil => stream.unacked + view'.unacked = stream'.unacked + view.unacked + Size(e)
    BY <1>0, <1>5, <1>7
  <2>3. view'.unacked \in {view.unacked, 0}
    OBVIOUS
  <2>4. stream # Nil /\ stream.watch = 0 /\ view.watch = 0 =>
           /\ stream'.floor = stream.floor /\ stream'.snapshotUnacked = stream.snapshotUnacked
           /\ stream.unacked + view'.unacked = stream'.unacked + view.unacked + Size(e)
           /\ AckedChars' = AckedChars
           /\ AckedSnapshots' = AckedSnapshots + (IF Snaps(e) THEN 1 ELSE 0)
           /\ \A r \in In(up') : r.kind = "ack" /\ r.snapshot # Nil =>
                r \in In(up) \/ (Snaps(e) /\ r.snapshot = e.seq)
    BY <1>0, <1>6, <2>1, <2>2
  <2> QED BY <1>0, <1>5, <1>6, <2>3, <2>4, DropKeepsCounts
<1> QED BY <1>3, <1>4, <1>8, ArrivalKeeps

LEMMA RefusalKeeps ==
  ASSUME TerminalInv, ReceiveRefusal
  PROVE  TerminalInv'
<1> DEFINE e == Head(wire)
           n == Len(view.early) + 1
<1>0. TerminalTypes
  BY DEF TerminalInv
<1>1. wire # <<>> /\ e.kind = "refused" /\ wire' = Tail(wire) /\ UNCHANGED <<screen, up>> /\ Unmoved
      /\ (view' = view \/ view' = [view EXCEPT !.state = "refused"])
  BY DEF ReceiveRefusal, Receives
<1>2. /\ view'.early = view.early /\ view'.watch = view.watch /\ view'.floor = view.floor
      /\ view'.unacked = view.unacked /\ view'.state \in {view.state, "refused"}
      /\ view' \in [state : {"asking", "watching", "refused", "closed", "lost"}, watch : Nat, floor : Nat,
                    early : Seq(FrameSet), unacked : Nat]
      /\ screen' \in [watch : Nat, data : Seq(Nat), era : Nat, geometry : Nat]
  BY <1>0, <1>1 DEF TerminalTypes
<1>3. ~Carries(e) /\ ~IsAnswer(view.watch, e)
  BY <1>1 DEF Carries, IsAnswer
<1>4. Received(e, n)
  BY <1>1, <1>2, <1>3 DEF Received
<1> HIDE DEF e, n
<1> QED BY <1>1, <1>2, <1>3, <1>4, PassesKeep

LEMMA ResizeReceivedKeeps ==
  ASSUME TerminalInv, ReceiveResize
  PROVE  TerminalInv'
<1> DEFINE e == Head(wire)
           n == Len(view.early) + 1
<1>0. TerminalTypes /\ wire \in Seq(FrameSet)
  BY DEF TerminalInv, TerminalTypes
<1>1. wire # <<>> /\ e.kind = "resize" /\ wire' = Tail(wire) /\ UNCHANGED <<view, up>> /\ Unmoved
      /\ screen' = [screen EXCEPT !.geometry = e.geometry] /\ view.state = "watching"
  BY DEF ReceiveResize, Receives
<1>2. e.geometry \in Nat
  BY <1>0, <1>1, HeadOf, KindIs
<1>3. /\ screen' \in [watch : Nat, data : Seq(Nat), era : Nat, geometry : Nat]
      /\ screen'.watch = screen.watch /\ screen'.data = screen.data
      /\ view' \in [state : {"asking", "watching", "refused", "closed", "lost"}, watch : Nat, floor : Nat,
                    early : Seq(FrameSet), unacked : Nat]
  BY <1>0, <1>1, <1>2 DEF TerminalTypes
<1>4. ~Carries(e) /\ ~IsAnswer(view.watch, e)
  BY <1>1 DEF Carries, IsAnswer
<1>5. Received(e, n)
  BY <1>1, <1>3, <1>4 DEF Received
<1> HIDE DEF e, n
<1> QED BY <1>1, <1>3, <1>4, <1>5, PassesKeep

LEMMA ClosedKeeps ==
  ASSUME TerminalInv, ReceiveClosed
  PROVE  TerminalInv'
<1> DEFINE e == Head(wire)
           n == Len(view.early) + 1
           u == [kind |-> "unwatch"]
<1>0. TerminalTypes
  BY DEF TerminalInv
<1>1. wire # <<>> /\ e.kind = "closed" /\ wire' = Tail(wire) /\ screen' = screen /\ Unmoved
      /\ view' = [view EXCEPT !.state = "closed"] /\ up' = Append(up, u)
  BY DEF ReceiveClosed, Receives
<1>2. /\ view'.early = view.early /\ view'.watch = view.watch /\ view'.floor = view.floor
      /\ view'.unacked = view.unacked /\ view'.state = "closed"
      /\ view' \in [state : {"asking", "watching", "refused", "closed", "lost"}, watch : Nat, floor : Nat,
                    early : Seq(FrameSet), unacked : Nat]
      /\ screen' \in [watch : Nat, data : Seq(Nat), era : Nat, geometry : Nat]
  BY <1>0, <1>1 DEF TerminalTypes
<1>3. ~Carries(e) /\ ~IsAnswer(view.watch, e)
  BY <1>1 DEF Carries, IsAnswer
<1>4. u \in Requests /\ u.kind # "watch"
  BY DEF Requests
<1>5. Received(e, n)
  <2>1. \E r \in Requests : r.kind # "watch" /\ up' = Append(up, r)
    BY <1>1, <1>4
  <2> QED BY <1>1, <1>2, <1>3, <2>1 DEF Received
<1>6. up' = up \/ up' = Append(up, [kind |-> "unwatch"])
  BY <1>1
<1> HIDE DEF e, n, u
<1> QED BY <1>1, <1>2, <1>3, <1>5, <1>6, PassesKeep

-----------------------------------------------------------------------------
(* What the browser receives: a snapshot. *)

LEMMA NumbersAre ==
  ASSUME NEW k \in Nat
  PROVE  /\ [i \in 1..k |-> i] \in Seq(Nat) /\ Len([i \in 1..k |-> i]) = k
         /\ \A i \in 1..k : [j \in 1..k |-> j][i] = i
OBVIOUS

(* applySnapshot, for the answer to the watch or a reset behind it. *)
LEMMA SnapshotKeeps ==
  ASSUME TerminalInv, wire # <<>>, Unmoved, Applies(Head(wire)),
         \/ view.state = "asking" /\ IsAnswer(view.watch, Head(wire)) /\ wire' = view.early \o Tail(wire)
         \/ view.state = "watching" /\ Head(wire).kind = "reset" /\ wire' = Tail(wire)
  PROVE  TerminalInv'
<1> DEFINE e == Head(wire)
           n == Len(view.early) + 1
           a == view.early
           b == Tail(wire) \o out
<1>0. TerminalTypes /\ wire \in Seq(FrameSet) /\ up \in Seq(Requests) /\ view.unacked \in Nat /\ OrderInv /\ AnswerInv
      /\ StateInv /\ view.watch \in Nat /\ a \in Seq(FrameSet)
  BY DEF TerminalInv, TerminalTypes
<1>1. e \in FrameSet /\ e.kind \in {"answer", "reset"} /\ Snaps(e) /\ Carries(e)
  BY <1>0, HeadOf DEF IsAnswer, Snaps, Carries
<1>2. e.watch \in Nat /\ e.seq \in Nat /\ e.era \in Nat /\ e.geometry \in Nat
  BY <1>1, KindIs
<1>3. Acks(0, e.seq) \in Requests /\ Acks(0, e.seq).kind = "ack" /\ Acks(0, e.seq).chars = 0
      /\ Acks(0, e.seq).snapshot = e.seq
  BY <1>2 DEF Acks, Requests, AckRequests
<1>4. /\ view' = [view EXCEPT !.state = "watching", !.floor = e.seq, !.unacked = 0, !.early = <<>>]
      /\ screen' = [watch |-> e.watch, data |-> [i \in 1..e.seq |-> i], era |-> e.era, geometry |-> e.geometry]
      /\ up' = Append(up, Acks(0, e.seq))
  BY DEF Applies
<1>5. /\ view'.state = "watching" /\ view'.floor = e.seq /\ view'.unacked = 0 /\ view'.early = <<>>
      /\ view'.watch = view.watch
      /\ view' \in [state : {"asking", "watching", "refused", "closed", "lost"}, watch : Nat, floor : Nat,
                    early : Seq(FrameSet), unacked : Nat]
  <2>1. ASSUME NEW p \in Seq(FrameSet), NEW v,
               v = [view EXCEPT !.state = "watching", !.floor = e.seq, !.unacked = 0, !.early = p]
        PROVE  /\ v.state = "watching" /\ v.floor = e.seq /\ v.unacked = 0 /\ v.early = p
               /\ v.watch = view.watch
               /\ v \in [state : {"asking", "watching", "refused", "closed", "lost"}, watch : Nat, floor : Nat,
                         early : Seq(FrameSet), unacked : Nat]
    BY <1>0, <1>2, <2>1 DEF TerminalTypes
  <2>2. <<>> \in Seq(FrameSet)
    OBVIOUS
  <2> QED BY <1>4, <2>1, <2>2, Zenon
<1>6. /\ screen' \in [watch : Nat, data : Seq(Nat), era : Nat, geometry : Nat]
      /\ screen'.watch = e.watch /\ Len(screen'.data) = e.seq
      /\ screen'.data = [i \in 1..Len(screen'.data) |-> i]
  <2> DEFINE d == [i \in 1..e.seq |-> i]
  <2>1. d \in Seq(Nat) /\ Len(d) = e.seq
    BY <1>2, NumbersAre
  <2>2. screen' = [watch |-> e.watch, data |-> d, era |-> e.era, geometry |-> e.geometry]
    BY <1>4
  <2>3. d = [i \in 1..Len(d) |-> i]
    BY <2>1
  <2> HIDE DEF d
  <2>4. screen'.data = d
    BY <2>2
  <2> QED BY <1>2, <2>1, <2>2, <2>3, <2>4
<1>7. /\ \/ view'.early = view.early /\ wire' = Tail(wire)
         \/ view'.early = <<>> /\ wire' = view.early \o Tail(wire)
      /\ view.state = "watching" \/ (view.state = "asking" /\ IsAnswer(view.watch, e))
  BY <1>0, <1>5 DEF StateInv
<1>8. Received(e, n)
  <2>1. \E r \in Requests : r.kind # "watch" /\ up' = Append(up, r)
    BY <1>3, <1>4
  <2> QED BY <1>5, <1>6, <1>7, <2>1 DEF Received
<1>9. /\ LeavesPath(e, n) /\ Dropped(a, e, b) /\ b \in Seq(FrameSet)
      /\ stream' = stream /\ term' = term /\ happened' = happened
  BY <1>8, ArrivalDrops
<1>10. e \in In(Path) /\ n \in DOMAIN Path /\ Path[n] = e
  <2>1. Skips(Path, Path', n, e)
    BY <1>9 DEF LeavesPath
  <2> QED BY <1>9, <2>1, DropFacts DEF Skips
<1> HIDE DEF n, b
<1>11. StateInv'
  <2>1. In(<< >>) = {}
    BY InOfNothing
  <2> QED BY <1>5, <2>1 DEF StateInv
<1>12. OldInv'
  <2>1. Showing' => Snaps(e) /\ e.watch = view.watch /\ view'.floor = e.seq
    BY <1>1, <1>5, <1>6 DEF Showing
  <2> HIDE DEF e
  <2> QED BY <1>9, <2>1, DropKeepsOld
<1>13. FlowInv' /\ ScreenInv'
  <2>1. CASE e.watch = view.watch
    <3>1. Of(view.watch, e) /\ e.kind # "data" /\ Last(e) = e.seq
      BY <1>1, <2>1 DEF Of, Last
    <3>2. ASSUME NEW f \in In(a), Of(view.watch, f) PROVE FALSE
      <4>1. CASE view.state = "watching"
        <5>1. In(a) = {}
          BY <1>0, <4>1, InOfNothing DEF StateInv
        <5> QED BY <3>2, <5>1
      <4>2. CASE view.state = "asking"
        <5>1. PICK i \in DOMAIN a : a[i] = f
          BY <3>2 DEF In
        <5>2. \A j \in 1..i : j \in DOMAIN a /\ Path[j] = a[j] /\ j \in DOMAIN Path
          <6>1. Path = (a \o wire) \o out /\ wire \in Seq(FrameSet) /\ out \in Seq(FrameSet)
            BY <1>0 DEF Path, TerminalTypes
          <6> HIDE DEF a
          <6> DEFINE c == a \o wire
          <6>2. c \in Seq(FrameSet) /\ Len(a) \in Nat /\ Len(wire) \in Nat /\ Len(c) = Len(a) + Len(wire)
                /\ DOMAIN a = 1..Len(a)
            BY <1>0, <6>1
          <6>3. \A j \in 1..Len(a) : c[j] = a[j]
            BY <1>0, <6>1
          <6> HIDE DEF c
          <6>4. \A j \in 1..Len(a) : (c \o out)[j] = c[j] /\ j \in DOMAIN (c \o out)
            BY <6>1, <6>2
          <6>5. i \in 1..Len(a)
            BY <5>1, <6>2
          <6>6. \A j \in 1..i : j \in 1..Len(a)
            BY <6>2, <6>5
          <6>7. Path = c \o out
            BY <6>1 DEF c
          <6> QED BY <6>2, <6>3, <6>4, <6>6, <6>7
        <5>3. i \in 1..i
          BY <1>0, <5>1
        <5>4. Of(view.watch, Path[i]) /\ i \in DOMAIN Path
          BY <3>2, <5>1, <5>2, <5>3
        <5>5. PICK j \in 1..i : IsAnswer(view.watch, Path[j])
          BY <1>0, <4>2, <5>4 DEF AnswerInv
        <5>6. Path[j] \in In(view.early)
          BY <5>2, <5>5 DEF In
        <5> QED BY <1>0, <5>5, <5>6 DEF StateInv, IsAnswer
      <4> QED BY <1>7, <4>1, <4>2
    <3>3. ScreenInv'
      <4>1. Whole'
        BY <1>6 DEF Whole
      <4>2. view'.floor <= Len(screen'.data)
        BY <1>2, <1>5, <1>6
      <4> QED BY <4>1, <4>2 DEF ScreenInv
    <3>4. ASSUME Unrefused
          PROVE  \E y, z \in Nat :
             /\ y = e.seq
             /\ Leads(view.watch, a \o b, y, z)
             /\ stream # Nil /\ stream.watch = view.watch /\ Live(stream) => z = term.seq - Len(stream.buffer)
      <4>1. view.state \in {"asking", "watching"} /\ \A f \in In(a) : ~Of(view.watch, f)
        BY <1>7, <3>2
      <4>2. a \in Seq(FrameSet)
        BY <1>0
      <4> HIDE DEF a, e
      <4>3. /\ LeavesPath(e, n) /\ Dropped(a, e, b) /\ b \in Seq(FrameSet) /\ stream' = stream /\ happened' = happened
            /\ Of(view.watch, e) /\ Unrefused
        BY <1>9, <3>1, <3>4
      <4>4. \E x, y, z \in Nat :
           /\ e.kind = "data" => e.data[1] = x + 1
           /\ y = Last(e)
           /\ Showing => x = Len(screen.data)
           /\ Leads(view.watch, a \o b, y, z)
           /\ stream # Nil /\ stream.watch = view.watch /\ Live(stream) => z = term.seq - Len(stream.buffer)
        BY <4>1, <4>2, <4>3, DropFeeds
      <4> QED BY <3>1, <4>4
    <3>5. Path' = a \o b
      BY <1>9 DEF Dropped
    <3>6. Unrefused' => Unrefused
      BY <1>9 DEF Unrefused
    <3> HIDE DEF a, e
    <3>7. FlowInv'
      <4>1. ASSUME Unrefused
            PROVE  \E y, z \in Nat :
               /\ Leads(view.watch, Path', y, z)
               /\ y = Len(screen'.data)
               /\ stream # Nil /\ stream.watch = view.watch /\ Live(stream) => z = term.seq - Len(stream.buffer)
        BY <1>6, <3>4, <3>5, <4>1
      <4> QED BY <1>5, <1>9, <3>6, <4>1 DEF FlowInv
    <3> QED BY <3>3, <3>7
  <2>2. CASE e.watch # view.watch
    <3>1. ~Showing' /\ ~Of(view.watch, e)
      BY <1>5, <1>6, <2>2 DEF Showing, Of
    <3>2. a \in Seq(FrameSet)
      BY <1>0
    <3> HIDE DEF a, e
    <3> QED BY <1>9, <3>1, <3>2, DropKeepsFlow
  <2> QED BY <2>1, <2>2
<1>14. CountInv'
  <2> DEFINE r == Acks(0, e.seq)
  <2>1. /\ up' = up \o <<r>> /\ In(up') = In(up) \cup {r} /\ up' \in Seq(Requests)
        /\ Sum(RequestChars, up') = Sum(RequestChars, up) + RequestChars[r]
        /\ Sum(RequestSnapshots, up') = Sum(RequestSnapshots, up) + RequestSnapshots[r]
    <3> HIDE DEF r
    <3>1. r \in Requests /\ up' = Append(up, r)
      BY <1>3, <1>4 DEF r
    <3>2. /\ up \o <<r>> \in Seq(Requests) /\ Append(up, r) = up \o <<r>> /\ In(up \o <<r>>) = In(up) \cup {r}
          /\ Sum(RequestChars, up \o <<r>>) = Sum(RequestChars, up) + RequestChars[r]
          /\ Sum(RequestSnapshots, up \o <<r>>) = Sum(RequestSnapshots, up) + RequestSnapshots[r]
      BY <1>0, <3>1, AcksAdded
    <3> QED BY <3>1, <3>2
  <2>2. e.seq # Nil
    BY <1>2, TerminalAssumption
  <2>3. RequestChars[r] = 0 /\ RequestSnapshots[r] = 1
    BY <1>3, <2>2, RequestWeights
  <2>4. /\ AckedChars = Sum(RequestChars, up) /\ AckedSnapshots = Sum(RequestSnapshots, up)
        /\ AckedChars \in Nat /\ AckedSnapshots \in Nat
    BY <1>0, AckedAre DEF AckedChars, AckedSnapshots
  <2>5. AckedChars' = Sum(RequestChars, up') /\ AckedSnapshots' = Sum(RequestSnapshots, up')
    BY <2>1, AckedAre DEF AckedChars, AckedSnapshots
  <2>6. AckedChars' = AckedChars /\ AckedSnapshots' = AckedSnapshots + (IF Snaps(e) THEN 1 ELSE 0)
    BY <1>1, <2>1, <2>3, <2>4, <2>5
  <2>7. ASSUME stream # Nil, stream.watch = 0, view.watch = 0
        PROVE  stream.unacked + view'.unacked = stream'.unacked + view.unacked + Size(e)
    <3>1. view.unacked = 0
      BY <1>1, <1>10, <2>7 DEF TerminalInv, CountInv
    <3>2. Size(e) = 0 /\ stream.unacked \in Nat
      BY <1>1, <1>9, <2>7, DropFacts DEF Size, Streams
    <3> QED BY <1>5, <1>9, <3>1, <3>2
  <2>8. \A q \in In(up') : q.kind = "ack" /\ q.snapshot # Nil => q \in In(up) \/ (Snaps(e) /\ q.snapshot = e.seq)
    BY <1>1, <1>3, <2>1
  <2>9. view'.unacked \in Nat /\ view'.unacked \in {view.unacked, 0} /\ a \in Seq(FrameSet)
    BY <1>0, <1>5
  <2> HIDE DEF a, e, r
  <2>10. stream # Nil /\ stream.watch = 0 /\ view.watch = 0 =>
           /\ stream'.floor = stream.floor /\ stream'.snapshotUnacked = stream.snapshotUnacked
           /\ stream.unacked + view'.unacked = stream'.unacked + view.unacked + Size(e)
           /\ AckedChars' = AckedChars
           /\ AckedSnapshots' = AckedSnapshots + (IF Snaps(e) THEN 1 ELSE 0)
           /\ \A q \in In(up') : q.kind = "ack" /\ q.snapshot # Nil =>
                q \in In(up) \/ (Snaps(e) /\ q.snapshot = e.seq)
    BY <1>9, <2>6, <2>7, <2>8
  <2> QED BY <1>5, <1>9, <2>9, <2>10, DropKeepsCounts
<1> HIDE DEF e
<1> QED BY <1>8, <1>11, <1>12, <1>13, <1>14, ArrivalKeeps

LEMMA ResetKeeps ==
  ASSUME TerminalInv, ReceiveReset
  PROVE  TerminalInv'
BY SnapshotKeeps DEF ReceiveReset, Receives

LEMMA AnswerKeeps ==
  ASSUME TerminalInv, ReceiveAnswer
  PROVE  TerminalInv'
<1> DEFINE e == Head(wire)
           n == Len(view.early) + 1
<1>0. TerminalTypes /\ AnswerInv /\ OrderInv /\ wire \in Seq(FrameSet)
  BY DEF TerminalInv, TerminalTypes
<1>1. wire # <<>> /\ e.kind = "answer" /\ Unmoved
  BY DEF ReceiveAnswer, Receives
<1>2. CASE view.state = "asking" /\ e.watch = view.watch
  <2>1. IsAnswer(view.watch, Head(wire)) /\ Applies(Head(wire)) /\ wire' = view.early \o Tail(wire)
    BY <1>1, <1>2 DEF ReceiveAnswer, IsAnswer
  <2> QED BY <1>1, <1>2, <2>1, SnapshotKeeps
<1>3. CASE ~(view.state = "asking" /\ e.watch = view.watch)
  <2>1. view' = view /\ screen' = screen /\ up' = up /\ wire' = Tail(wire)
    BY <1>3 DEF ReceiveAnswer, viewer
  <2>2. view.state = "asking" => ~IsAnswer(view.watch, e)
    BY <1>3 DEF IsAnswer
  <2>3. Received(e, n)
    BY <1>0, <1>1, <2>1, <2>2 DEF Received, TerminalTypes
  <2>4. /\ LeavesPath(e, n) /\ Dropped(view.early, e, Tail(wire) \o out)
        /\ view.early \in Seq(FrameSet) /\ Tail(wire) \o out \in Seq(FrameSet) /\ e \in FrameSet
        /\ view.state # "lost" /\ stream' = stream /\ term' = term /\ happened' = happened
    BY <2>3, ArrivalDrops
  <2>5. e \in In(Path)
    BY <2>4, DropFacts
  <2>6. Carries(e) /\ Snaps(e) /\ e.watch \in Nat /\ Size(e) = 0
    BY <1>1, <2>4, KindIs DEF Carries, Snaps, Size
  <2>7. view.state \in {"asking", "watching"} => ~Of(view.watch, e)
    BY <1>0, <1>1, <1>3, <2>5 DEF AnswerInv, IsAnswer, Of
  <2>8. StateInv' /\ OldInv'
    <3>1. view'.early = view.early /\ view'.state \in {view.state, "refused", "closed"}
      BY <2>1
    <3>2. Showing' => Showing /\ view'.floor = view.floor
      BY <2>1 DEF Showing
    <3> HIDE DEF e, n
    <3> QED BY <2>3, <2>4, <3>1, <3>2, StateStays, DropKeepsOld
  <2>9. FlowInv' /\ ScreenInv'
    <3>1. CASE view.state \in {"asking", "watching"}
      <4>1. Showing' => Showing /\ screen'.data = screen.data /\ view'.floor = view.floor
        BY <2>1 DEF Showing
      <4> HIDE DEF e, n
      <4> QED BY <2>4, <2>7, <3>1, <4>1, DropKeepsFlow
    <3>2. CASE view.state \notin {"asking", "watching"}
      BY <2>1, <3>2 DEF FlowInv, ScreenInv, Showing
    <3> QED BY <3>1, <3>2
  <2>10. CountInv'
    <3>1. ASSUME stream # Nil, stream.watch = 0, view.watch = 0 PROVE FALSE
      <4>1. view.state \in {"asking", "watching"}
        <5>1. term.open
          BY <3>1 DEF TerminalInv, ClosedInv
        <5> QED BY <1>0, <2>4, <5>1 DEF TerminalInv, ClosedInv, TerminalTypes
      <4>2. e.watch <= view.watch
        BY <1>0, <2>5, <2>6 DEF OrderInv
      <4>3. e.watch = 0
        BY <2>6, <3>1, <4>2
      <4> QED BY <2>6, <2>7, <3>1, <4>1, <4>3 DEF Of
    <3>2. view'.unacked \in Nat /\ view'.unacked \in {view.unacked, 0}
          /\ \A r \in In(up') : r.kind = "ack" => r \in In(up)
      BY <1>0, <2>1 DEF TerminalTypes
    <3>3. view'.unacked = view.unacked
      BY <2>1
    <3> HIDE DEF e, n
    <3> QED BY <2>4, <3>1, <3>2, <3>3, DropKeepsCounts
  <2> HIDE DEF e, n
  <2> QED BY <2>3, <2>8, <2>9, <2>10, ArrivalKeeps
<1> QED BY <1>2, <1>3

-----------------------------------------------------------------------------
(* What the browser receives: output. *)

LEMMA ShownIs ==
  ASSUME NEW d \in Seq(Nat), NEW e \in Seq(Nat), d = [i \in 1..Len(d) |-> i],
         \A i \in 1..Len(e) : e[i] = Len(d) + i
  PROVE  /\ d \o e \in Seq(Nat) /\ Len(d \o e) = Len(d) + Len(e)
         /\ d \o e = [i \in 1..Len(d \o e) |-> i]
<1> DEFINE k == Len(d) + Len(e)
           r == [i \in 1..k |-> i]
<1>1. Len(d) \in Nat /\ Len(e) \in Nat /\ k \in Nat /\ d \o e \in Seq(Nat) /\ Len(d \o e) = k
  OBVIOUS
<1>2. r \in Seq(Nat) /\ Len(r) = k /\ \A i \in 1..k : r[i] = i
  BY <1>1, NumbersAre
<1>3. ASSUME NEW i \in 1..k PROVE (d \o e)[i] = r[i]
  <2>1. (d \o e)[i] = IF i <= Len(d) THEN d[i] ELSE e[i - Len(d)]
    BY ElementOfConcat
  <2>2. CASE i <= Len(d)
    <3>1. i \in 1..Len(d)
      BY <1>1, <2>2
    <3>2. d[i] = i
      <4>1. \A j \in 1..Len(d) : [l \in 1..Len(d) |-> l][j] = j
        OBVIOUS
      <4> QED BY <3>1, <4>1
    <3> QED BY <1>2, <2>1, <2>2, <3>2
  <2>3. CASE ~(i <= Len(d))
    <3>1. i - Len(d) \in 1..Len(e)
      BY <1>1, <2>3
    <3>2. e[i - Len(d)] = Len(d) + (i - Len(d))
      BY <3>1
    <3>3. Len(d) + (i - Len(d)) = i
      BY <1>1
    <3> QED BY <1>2, <2>1, <2>3, <3>2, <3>3
  <2> QED BY <2>2, <2>3
<1> HIDE DEF k, r
<1>4. d \o e = r
  BY <1>1, <1>2, <1>3, SameSequence
<1> QED BY <1>1, <1>4 DEF k, r

LEMMA DataKeeps ==
  ASSUME TerminalInv, ReceiveData
  PROVE  TerminalInv'
<1> DEFINE e == Head(wire)
           n == Len(view.early) + 1
           a == view.early
           b == Tail(wire) \o out
           s == Len(e.data)
<1>0. TerminalTypes /\ AnswerInv /\ OrderInv /\ OldInv /\ FlowInv /\ ScreenInv /\ FramesInv /\ wire \in Seq(FrameSet)
      /\ view.unacked \in Nat /\ view.watch \in Nat /\ screen.data \in Seq(Nat) /\ up \in Seq(Requests)
      /\ view.floor \in Nat
  BY DEF TerminalInv, TerminalTypes
<1>1. /\ wire # <<>> /\ e.kind = "data" /\ Unmoved /\ view.state = "watching" /\ up' = up /\ wire' = Tail(wire)
      /\ view' = [view EXCEPT !.unacked = @ + s]
      /\ screen' = IF e.seq > view.floor THEN [screen EXCEPT !.data = @ \o e.data] ELSE screen
  BY DEF ReceiveData, Receives
<1>2. e \in FrameSet /\ e.watch \in Nat /\ e.seq \in Nat /\ e.data \in Seq(Nat) /\ s \in Nat /\ Size(e) = s
  BY <1>0, <1>1, HeadOf, KindIs DEF Size
<1>3. Carries(e) /\ ~Snaps(e) /\ ~IsAnswer(view.watch, e)
  BY <1>1 DEF Carries, Snaps, IsAnswer
<1> HIDE DEF s
<1>4. /\ view'.state = "watching" /\ view'.watch = view.watch /\ view'.floor = view.floor /\ view'.early = view.early
      /\ view'.unacked = view.unacked + s /\ view'.unacked \in Nat
      /\ view' \in [state : {"asking", "watching", "refused", "closed", "lost"}, watch : Nat, floor : Nat,
                    early : Seq(FrameSet), unacked : Nat]
  <2> DEFINE u == view.unacked + s
  <2>1. u \in Nat /\ view' = [view EXCEPT !.unacked = u] /\ view.state = "watching"
    BY <1>0, <1>1, <1>2
  <2> HIDE DEF u
  <2>2. /\ view'.state = view.state /\ view'.watch = view.watch /\ view'.floor = view.floor
        /\ view'.early = view.early /\ view'.unacked = u
        /\ view' \in [state : {"asking", "watching", "refused", "closed", "lost"}, watch : Nat, floor : Nat,
                      early : Seq(FrameSet), unacked : Nat]
    BY <1>0, <2>1 DEF TerminalTypes
  <2> QED BY <2>1, <2>2 DEF u
<1>5. /\ screen' \in [watch : Nat, data : Seq(Nat), era : Nat, geometry : Nat]
      /\ screen'.watch = screen.watch
      /\ screen'.data = IF e.seq > view.floor THEN screen.data \o e.data ELSE screen.data
  <2>1. screen.data \o e.data \in Seq(Nat)
    BY <1>0, <1>2
  <2> DEFINE d == screen.data \o e.data
  <2>2. d \in Seq(Nat)
    BY <2>1
  <2>3. screen' = IF e.seq > view.floor THEN [screen EXCEPT !.data = d] ELSE screen
    BY <1>1
  <2> HIDE DEF d, e
  <2>4. /\ screen' \in [watch : Nat, data : Seq(Nat), era : Nat, geometry : Nat]
        /\ screen'.watch = screen.watch
        /\ screen'.data = IF e.seq > view.floor THEN d ELSE screen.data
    BY <1>0, <2>2, <2>3 DEF TerminalTypes
  <2> QED BY <2>4 DEF d, e
<1>6. Received(e, n)
  BY <1>1, <1>3, <1>4, <1>5 DEF Received, TerminalInv
<1>7. /\ LeavesPath(e, n) /\ Dropped(a, e, b) /\ a \in Seq(FrameSet) /\ b \in Seq(FrameSet)
      /\ stream' = stream /\ term' = term /\ happened' = happened
  BY <1>6, ArrivalDrops
<1>8. e \in In(Path) /\ n = 1 /\ In(a) = {}
  <2>1. a = <<>>
    BY <1>1 DEF TerminalInv, StateInv
  <2> QED BY <1>7, <2>1, DropFacts, InOfNothing
<1>9. FrameOK(e, term.seq) /\ e.watch <= view.watch
  BY <1>0, <1>3, <1>8 DEF FramesInv, OrderInv
<1>10. /\ s >= 1 /\ e.data[s] <= e.seq /\ e.data[1] \in Nat
       /\ \A i \in 1..s : e.data[i] = e.data[1] + i - 1
  <2>1. /\ e.data # <<>> /\ e.data[Len(e.data)] <= e.seq
        /\ \A i \in DOMAIN e.data : e.data[i] = e.data[1] + i - 1
    BY <1>1, <1>9 DEF FrameOK
  <2> DEFINE f == e.data
  <2>2. f \in Seq(Nat) /\ s = Len(f) /\ f # <<>>
    BY <1>2, <2>1 DEF s
  <2> HIDE DEF f
  <2>3. s >= 1 /\ f[1] \in Nat /\ DOMAIN f = 1..s
    BY <2>2
  <2> QED BY <2>1, <2>2, <2>3 DEF f
<1>11. StateInv'
  <2>1. view'.early = view.early /\ view'.state \in {view.state, "refused", "closed"}
    BY <1>1, <1>4
  <2> HIDE DEF e, n
  <2> QED BY <1>6, <2>1, StateStays
<1>12. OldInv'
  <2>1. Showing' => Showing /\ view'.floor = view.floor
    BY <1>1, <1>4, <1>5 DEF Showing
  <2> HIDE DEF e, n
  <2> QED BY <1>7, <2>1, DropKeepsOld
<1>13. FlowInv' /\ ScreenInv'
  <2>1. CASE e.watch # view.watch
    <3>1. ~Of(view.watch, e)
      BY <2>1 DEF Of
    <3>2. Showing' => Showing /\ screen'.data = screen.data /\ view'.floor = view.floor
      <4>1. ASSUME Showing' PROVE Showing
        BY <1>1, <1>4, <1>5, <4>1 DEF Showing
      <4>2. ASSUME Showing PROVE screen'.data = screen.data
        <5>1. e.watch < view.watch
          BY <1>0, <1>2, <1>9, <2>1
        <5>2. e.seq <= view.floor
          BY <1>0, <1>1, <1>8, <4>2, <5>1 DEF OldInv, Showing
        <5> QED BY <1>0, <1>2, <1>5, <5>2
      <4> QED BY <1>4, <4>1, <4>2
    <3> HIDE DEF e, n, a, b
    <3> QED BY <1>7, <3>1, <3>2, DropKeepsFlow
  <2>2. CASE e.watch = view.watch
    <3>1. Of(view.watch, e)
      BY <1>3, <2>2 DEF Of
    <3>2. Path' = a \o b
      BY <1>7 DEF Dropped
    <3>3. ASSUME Unrefused
          PROVE  \E x, y, z \in Nat :
           /\ e.data[1] = x + 1
           /\ y = e.data[s]
           /\ Showing => x = Len(screen.data)
           /\ Leads(view.watch, a \o b, y, z)
           /\ stream # Nil /\ stream.watch = view.watch /\ Live(stream) => z = term.seq - Len(stream.buffer)
      <4>1. \A f \in In(a) : ~Of(view.watch, f)
        BY <1>8
      <4>2. Last(e) = e.data[s]
        BY <1>1 DEF Last, s
      <4>3. view.state \in {"asking", "watching"} /\ e.kind = "data"
        BY <1>1
      <4> HIDE DEF e, n, a, b
      <4>4. \E x, y, z \in Nat :
           /\ e.kind = "data" => e.data[1] = x + 1
           /\ y = Last(e)
           /\ Showing => x = Len(screen.data)
           /\ Leads(view.watch, a \o b, y, z)
           /\ stream # Nil /\ stream.watch = view.watch /\ Live(stream) => z = term.seq - Len(stream.buffer)
        BY <1>7, <3>1, <3>3, <4>1, <4>3, DropFeeds
      <4> QED BY <4>2, <4>3, <4>4
    <3>4. ASSUME Unrefused, Showing
          PROVE  /\ screen'.data = [i \in 1..Len(screen'.data) |-> i] /\ Len(screen'.data) = e.data[s]
                 /\ view.floor <= Len(screen'.data)
      <4>1. e.data[1] = Len(screen.data) + 1 /\ Len(screen.data) \in Nat
        BY <1>0, <3>3, <3>4
      <4>2. Whole /\ view.floor <= Len(screen.data)
        BY <1>0, <3>4 DEF ScreenInv
      <4> DEFINE d == screen.data
                 f == e.data
      <4>3. \A i \in 1..Len(f) : f[i] = Len(d) + i
        BY <1>2, <1>10, <4>1 DEF s
      <4>4. d \in Seq(Nat) /\ f \in Seq(Nat) /\ d = [i \in 1..Len(d) |-> i]
        BY <1>0, <1>2, <4>2 DEF Whole
      <4>5. f[s] = Len(d) + s /\ s = Len(f)
        <5>1. s = Len(f) /\ s \in 1..s
          BY <1>2, <1>10 DEF s
        <5> HIDE DEF f, d
        <5> QED BY <4>3, <5>1
      <4>6. e.seq > view.floor
        <5> DEFINE q == e.seq
                   k == Len(d)
                   l == f[s]
        <5>1. q \in Nat /\ k \in Nat /\ l = k + s /\ l <= q /\ view.floor <= k
          BY <1>2, <1>10, <4>1, <4>2, <4>5
        <5> HIDE DEF q, k, l
        <5>2. q > view.floor
          BY <1>0, <1>2, <1>10, <5>1
        <5> QED BY <5>2 DEF q
      <4>7. screen'.data = d \o f
        BY <1>5, <4>6
      <4> HIDE DEF d, f
      <4>8. /\ Len(d \o f) = Len(d) + Len(f)
            /\ d \o f = [i \in 1..Len(d \o f) |-> i]
        BY <4>3, <4>4, ShownIs
      <4>9. view.floor <= Len(d) + Len(f)
        <5>1. Len(d) \in Nat /\ Len(f) \in Nat /\ view.floor <= Len(d)
          BY <4>2, <4>4 DEF d
        <5> QED BY <1>0, <5>1
      <4>10. screen'.data = [i \in 1..Len(screen'.data) |-> i]
        BY <4>7, <4>8
      <4> QED BY <4>5, <4>7, <4>8, <4>9, <4>10 DEF f
    <3>5. (Unrefused' => Unrefused) /\ (Showing' => Showing)
      BY <1>1, <1>4, <1>5, <1>7 DEF Unrefused, Showing
    <3>6. ScreenInv'
      BY <1>4, <3>4, <3>5 DEF ScreenInv, Whole
    <3>7. FlowInv'
      <4> HIDE DEF e, n, a, b, s
      <4>1. ASSUME Unrefused
            PROVE  \E y, z \in Nat :
               /\ Leads(view.watch, Path', y, z)
               /\ Showing => y = Len(screen'.data)
               /\ stream # Nil /\ stream.watch = view.watch /\ Live(stream) => z = term.seq - Len(stream.buffer)
        BY <3>2, <3>3, <3>4, <4>1
      <4> QED BY <1>4, <1>7, <3>5, <4>1 DEF FlowInv
    <3> QED BY <3>6, <3>7
  <2> QED BY <2>1, <2>2
<1>14. CountInv'
  <2>1. AckedChars' = AckedChars /\ AckedSnapshots' = AckedSnapshots /\ AckedSnapshots \in Nat
    <3>1. AckedChars' = AckedChars /\ AckedSnapshots' = AckedSnapshots
      BY <1>1 DEF AckedChars, AckedSnapshots
    <3>2. AckedSnapshots \in Nat
      BY <1>0, AckedAre DEF AckedSnapshots
    <3> QED BY <3>1, <3>2
  <2>2. stream # Nil => stream.unacked + view'.unacked = stream'.unacked + view.unacked + Size(e)
    <3>1. stream # Nil => stream.unacked \in Nat
      BY <1>7, DropFacts DEF Streams
    <3> QED BY <1>0, <1>2, <1>4, <1>7, <3>1
  <2>3. AckedSnapshots' = AckedSnapshots + (IF Snaps(e) THEN 1 ELSE 0)
    BY <1>3, <2>1
  <2>4. stream # Nil /\ stream.watch = 0 /\ view.watch = 0 =>
           /\ stream'.floor = stream.floor /\ stream'.snapshotUnacked = stream.snapshotUnacked
           /\ stream.unacked + view'.unacked = stream'.unacked + view.unacked + Size(e)
           /\ AckedChars' = AckedChars
           /\ AckedSnapshots' = AckedSnapshots + (IF Snaps(e) THEN 1 ELSE 0)
           /\ \A r \in In(up') : r.kind = "ack" /\ r.snapshot # Nil =>
                r \in In(up) \/ (Snaps(e) /\ r.snapshot = e.seq)
    BY <1>1, <1>7, <2>1, <2>2, <2>3
  <2>5. e.kind = "data"
    BY <1>1
  <2> HIDE DEF e, n, a, b
  <2> QED BY <1>4, <1>7, <1>8, <2>4, <2>5, DropKeepsCounts
<1> HIDE DEF e, n
<1> QED BY <1>6, <1>11, <1>12, <1>13, <1>14, ArrivalKeeps

LEMMA EarlyKeeps ==
  ASSUME TerminalInv, ReceiveEarly
  PROVE  TerminalInv'
<1> DEFINE e == Head(wire)
           t == Tail(wire)
           g == <<e>>
           a == view.early
<1>0. TerminalTypes /\ wire \in Seq(FrameSet) /\ a \in Seq(FrameSet) /\ out \in Seq(FrameSet)
  BY DEF TerminalInv, TerminalTypes
<1>1. /\ wire # <<>> /\ e.kind \in {"data", "reset", "resize", "closed"} /\ view.state = "asking"
      /\ view' = [view EXCEPT !.early = Append(@, e)] /\ wire' = t
      /\ UNCHANGED <<screen, up, term, stream, serving, out, happened>>
  BY DEF ReceiveEarly, Receives, Unmoved
<1>2. e \in FrameSet /\ t \in Seq(FrameSet) /\ g \in Seq(FrameSet) /\ wire = g \o t
  BY <1>0, <1>1, HeadOf
<1>3. a \o g \in Seq(FrameSet) /\ Append(a, e) = a \o g /\ In(a \o g) = In(a) \cup {e}
  <2>1. a \o g \in Seq(FrameSet) /\ Append(a, e) = a \o g
    BY <1>0, <1>2
  <2>2. In(g) = {e}
    BY InOfOne, Zenon
  <2> HIDE DEF g, a
  <2>3. In(a \o g) = In(a) \cup In(g)
    BY <1>0, <1>2, InOfConcat
  <2> QED BY <2>1, <2>2, <2>3
<1>4. /\ view'.state = view.state /\ view'.watch = view.watch /\ view'.floor = view.floor
      /\ view'.unacked = view.unacked /\ view'.early = a \o g
      /\ view' \in [state : {"asking", "watching", "refused", "closed", "lost"}, watch : Nat, floor : Nat,
                    early : Seq(FrameSet), unacked : Nat]
  <2> DEFINE d == a \o g
  <2>1. d \in Seq(FrameSet) /\ view' = [view EXCEPT !.early = d]
    BY <1>1, <1>3
  <2> HIDE DEF d, g
  <2>2. /\ view'.state = view.state /\ view'.watch = view.watch /\ view'.floor = view.floor
        /\ view'.unacked = view.unacked /\ view'.early = d
        /\ view' \in [state : {"asking", "watching", "refused", "closed", "lost"}, watch : Nat, floor : Nat,
                      early : Seq(FrameSet), unacked : Nat]
    BY <1>0, <2>1 DEF TerminalTypes
  <2> QED BY <2>2 DEF d
<1>5. Path' = Path
  <2>1. Path' = ((a \o g) \o t) \o out
    BY <1>1, <1>4 DEF Path
  <2> HIDE DEF g, t, a
  <2>2. (a \o g) \o t = a \o (g \o t)
    BY <1>0, <1>2, FramesConcat, SMTT(30)
  <2>3. Path = (a \o wire) \o out
    BY DEF Path, a
  <2> QED BY <1>2, <2>1, <2>2, <2>3
<1>6. TerminalTypes'
  BY <1>0, <1>1, <1>2, <1>4 DEF TerminalTypes
<1>7. StateInv'
  <2>1. \A f \in In(view'.early) : f.kind \notin {"answer", "refused"}
    BY <1>1, <1>3, <1>4 DEF TerminalInv, StateInv
  <2> QED BY <1>1, <1>4, <2>1 DEF StateInv
<1>8. StreamInv' /\ FramesInv' /\ ClosedInv' /\ OrderInv'
  <2>1. StreamInv /\ FramesInv /\ ClosedInv /\ OrderInv
    BY DEF TerminalInv
  <2> HIDE DEF Path
  <2>2. StreamInv'
    BY <1>1, <2>1 DEF StreamInv
  <2>3. FramesInv'
    BY <1>1, <1>5, <2>1 DEF FramesInv
  <2>4. ClosedInv'
    BY <1>1, <1>4, <1>5, <2>1 DEF ClosedInv
  <2>5. OrderInv'
    BY <1>1, <1>4, <1>5, <2>1 DEF OrderInv
  <2> QED BY <2>2, <2>3, <2>4, <2>5
<1>9. AnswerInv' /\ OldInv' /\ FlowInv' /\ ScreenInv' /\ CountInv'
  <2>1. AnswerInv /\ OldInv /\ FlowInv /\ ScreenInv /\ CountInv
    BY DEF TerminalInv
  <2> HIDE DEF Path
  <2>2. AnswerInv'
    BY <1>1, <1>4, <1>5, <2>1 DEF AnswerInv
  <2>3. OldInv'
    BY <1>1, <1>4, <1>5, <2>1 DEF OldInv
  <2>4. FlowInv' /\ ScreenInv'
    BY <1>1, <1>4, <1>5, <2>1 DEF FlowInv, ScreenInv, Showing, Unrefused, Whole
  <2>5. CountInv'
    <3>1. AckedChars' = AckedChars /\ AckedSnapshots' = AckedSnapshots
      BY <1>1 DEF AckedChars, AckedSnapshots
    <3> QED BY <1>1, <1>4, <1>5, <2>1, <3>1 DEF CountInv
  <2> QED BY <2>2, <2>3, <2>4, <2>5
<1> QED BY <1>6, <1>7, <1>8, <1>9 DEF TerminalInv

-----------------------------------------------------------------------------
(* The requests of the browser, and its connection. *)

(* The views of TerminalTypes *)
Views == [state : {"asking", "watching", "refused", "closed", "lost"}, watch : Nat, floor : Nat,
          early : Seq(FrameSet), unacked : Nat]

LEMMA SendAckKeeps ==
  ASSUME TerminalInv, SendAck
  PROVE  TerminalInv'
<1> DEFINE r == Acks(view.unacked, Nil)
<1>0. TerminalTypes /\ view \in Views /\ view.unacked \in Nat /\ up \in Seq(Requests)
  BY DEF TerminalInv, TerminalTypes, Views
<1>1. /\ view.state = "watching" /\ view.unacked > 0 /\ up' = Append(up, r)
      /\ view' = [view EXCEPT !.unacked = 0]
      /\ UNCHANGED <<term, stream, serving, out, wire, screen, happened>>
  BY DEF SendAck
<1>2. /\ r \in Requests /\ r.kind = "ack" /\ r.chars = view.unacked /\ r.snapshot = Nil
      /\ RequestChars[r] = view.unacked /\ RequestSnapshots[r] = 0
  <2>1. r \in Requests /\ r.kind = "ack" /\ r.chars = view.unacked /\ r.snapshot = Nil
    BY <1>0 DEF Acks, Requests, AckRequests
  <2> HIDE DEF r
  <2> QED BY <2>1, RequestWeights
<1> HIDE DEF r
<1>3. /\ view' \in Views /\ view'.state = view.state /\ view'.watch = view.watch /\ view'.floor = view.floor
      /\ view'.early = view.early /\ view'.unacked = 0
  BY <1>0, <1>1 DEF Views
<1>4. /\ up' \in Seq(Requests) /\ up' = up \o <<r>> /\ In(up') = In(up) \cup {r}
      /\ Sum(RequestChars, up') = Sum(RequestChars, up) + view.unacked
      /\ Sum(RequestSnapshots, up') = Sum(RequestSnapshots, up) + 0
  BY <1>0, <1>1, <1>2, AcksAdded
<1>5. /\ \A q \in In(up') : q.kind = "watch" => q \in In(up)
      /\ \A i \in DOMAIN up' : up'[i].kind = "watch" => i \in DOMAIN up /\ up'[i] = up[i]
  <2>1. r.kind # "watch"
    BY <1>2
  <2>2. up' = up \/ \E q \in Requests : q.kind # "watch" /\ up' = Append(up, q)
    BY <1>1, <1>2, <2>1
  <2> QED BY <1>0, <2>2, UpGrows
<1>6. Path' = Path
  BY <1>1, <1>3 DEF Path
<1>7. TerminalTypes'
  BY <1>0, <1>1, <1>3, <1>4 DEF TerminalTypes, Views
<1>8. StreamInv' /\ FramesInv' /\ ClosedInv'
  BY <1>1, <1>3, <1>6 DEF TerminalInv, StreamInv, FramesInv, ClosedInv
<1>9. StateInv'
  BY <1>1, <1>3 DEF TerminalInv, StateInv
<1>10. OrderInv'
  BY <1>1, <1>3, <1>5, <1>6 DEF TerminalInv, OrderInv
<1>11. AnswerInv'
  BY <1>1, <1>3, <1>5, <1>6 DEF TerminalInv, AnswerInv
<1>12. OldInv' /\ FlowInv' /\ ScreenInv'
  BY <1>1, <1>3, <1>6 DEF TerminalInv, OldInv, FlowInv, ScreenInv, Showing, Unrefused, Whole
<1>13. CountInv'
  <2>1. \A q \in In(up') : q.kind # "watch"
    BY <1>1, <1>5 DEF TerminalInv, AnswerInv
  <2>2. /\ AckedChars = Sum(RequestChars, up) /\ AckedSnapshots = Sum(RequestSnapshots, up)
        /\ AckedChars' = Sum(RequestChars, up') /\ AckedSnapshots' = Sum(RequestSnapshots, up')
        /\ Sum(RequestChars, up) \in Nat /\ Sum(RequestSnapshots, up) \in Nat
    BY <1>0, <1>4, AckedAre DEF AckedChars, AckedSnapshots
  <2>3. AckedChars' = AckedChars + view.unacked /\ AckedSnapshots' = AckedSnapshots /\ AckedChars \in Nat
    BY <1>4, <2>2
  <2>4. ASSUME stream # Nil, stream.watch = 0, view.watch = 0
        PROVE  /\ stream.unacked = Chars(Path) + 0 + AckedChars'
               /\ Snapshots(Path) + AckedSnapshots' = IF stream.snapshotUnacked THEN 1 ELSE 0
               /\ \A f \in In(Path) : /\ f.kind = "data" => f.floor = stream.floor
                                      /\ Snaps(f) => f.seq = stream.floor
               /\ \A q \in In(up') : q.kind = "ack" /\ q.snapshot # Nil => q.snapshot = stream.floor
               /\ \A i \in DOMAIN Path : Snaps(Path[i]) =>
                    AckedChars' = 0 /\ \A j \in 1..i : Path[j].kind # "data"
    <3>1. /\ stream.unacked = Chars(Path) + view.unacked + AckedChars
          /\ Snapshots(Path) + AckedSnapshots = IF stream.snapshotUnacked THEN 1 ELSE 0
          /\ \A f \in In(Path) : /\ f.kind = "data" => f.floor = stream.floor
                                 /\ Snaps(f) => f.seq = stream.floor
          /\ \A q \in In(up) : q.kind = "ack" /\ q.snapshot # Nil => q.snapshot = stream.floor
          /\ \A i \in DOMAIN Path : Snaps(Path[i]) =>
               /\ view.unacked = 0 /\ AckedChars = 0
               /\ \A j \in 1..i : Path[j].kind # "data"
      BY <2>4 DEF TerminalInv, CountInv
    <3>2. Chars(Path) \in Nat
      BY <1>0, PathIs, CountsOfConcat
    <3>3. stream.unacked = Chars(Path) + 0 + AckedChars'
      <4> DEFINE c == Chars(Path)
                 k == AckedChars
      <4>1. c \in Nat /\ k \in Nat /\ stream.unacked = c + view.unacked + k /\ AckedChars' = k + view.unacked
        BY <2>3, <3>1, <3>2
      <4> HIDE DEF c, k
      <4>2. stream.unacked = c + 0 + AckedChars'
        BY <1>0, <4>1
      <4> QED BY <4>2 DEF c
    <3>4. \A q \in In(up') : q.kind = "ack" /\ q.snapshot # Nil => q.snapshot = stream.floor
      BY <1>2, <1>4, <3>1
    <3>5. \A i \in DOMAIN Path : ~Snaps(Path[i])
      BY <1>1, <3>1
    <3> HIDE DEF Path
    <3> QED BY <2>3, <3>1, <3>3, <3>4, <3>5
  <2> HIDE DEF Path
  <2> QED BY <1>1, <1>3, <1>6, <2>1, <2>4 DEF CountInv
<1> QED BY <1>7, <1>8, <1>9, <1>10, <1>11, <1>12, <1>13 DEF TerminalInv

-----------------------------------------------------------------------------
LEMMA LeadsThroughNothing ==
  ASSUME NEW w, NEW a \in Nat
  PROVE  Leads(w, <<>>, a, a)
<1>1. <<>> \in Seq(FrameSet) /\ \A f \in In(<< >>) : ~Of(w, f)
  BY NothingSent
<1> QED BY <1>1, LeadsNowhere

LEMMA NothingOnTheWay ==
  /\ \A p \in Seq(FrameSet) : <<>> \o p = p /\ p \o <<>> = p
  /\ DOMAIN <<>> = {} /\ In(<< >>) = {}
<1>1. \A p \in Seq(FrameSet) : <<>> \o p = p /\ p \o <<>> = p
  OBVIOUS
<1>2. DOMAIN <<>> = {}
  OBVIOUS
<1> QED BY <1>1, <1>2, InOfNothing

LEMMA NewViewIs ==
  ASSUME NEW w \in Nat
  PROVE  /\ NewView(w) \in Views /\ NewView(w).state = "asking" /\ NewView(w).watch = w /\ NewView(w).early = <<>>
         /\ NewView(w).unacked = 0
<1>1. ASSUME NEW e \in Seq(FrameSet)
      PROVE  [state |-> "asking", watch |-> w, floor |-> 0, early |-> e, unacked |-> 0] \in Views
  BY DEF Views
<1>2. NewView(w) \in Views
  BY <1>1, NothingSent, Zenon DEF NewView
<1> QED BY <1>2 DEF NewView

LEMMA DisconnectKeeps ==
  ASSUME TerminalInv, Disconnect
  PROVE  TerminalInv'
<1> DEFINE v == NewView(view.watch)
           st == IF view.state = "closed" THEN "closed" ELSE "lost"
<1>0. TerminalTypes /\ view.watch \in Nat /\ <<>> \in Seq(FrameSet)
  BY NothingSent DEF TerminalInv, TerminalTypes
<1>1. /\ view.state # "lost" /\ happened' = happened \cup {"drop"} /\ "drop" \in Events
      /\ stream' = Nil /\ serving' = Nil /\ out' = <<>> /\ wire' = <<>> /\ up' = <<>>
      /\ view' = [v EXCEPT !.state = st] /\ term' = term /\ screen' = screen
  BY DEF Disconnect, Happens
<1>2. v \in Views /\ v.state = "asking" /\ v.watch = view.watch /\ v.early = <<>> /\ v.unacked = 0
  BY <1>0, NewViewIs
<1> HIDE DEF v
<1>3. /\ view' \in Views /\ view'.state = st /\ view'.watch = view.watch /\ view'.early = <<>> /\ view'.unacked = 0
  BY <1>1, <1>2 DEF Views
<1>4. Path' = <<>> /\ In(Path') = {} /\ DOMAIN Path' = {} /\ In(up') = {} /\ DOMAIN up' = {}
  <2>1. Path' = (<<>> \o <<>>) \o <<>>
    BY <1>1, <1>3 DEF Path
  <2> QED BY <1>0, <1>1, <2>1, NothingOnTheWay
<1>5. up' \in Seq(Requests)
  BY <1>1
<1>6. TerminalTypes'
  BY <1>0, <1>1, <1>3, <1>5 DEF TerminalTypes, Views
<1>7. StreamInv' /\ FramesInv'
  BY <1>1, <1>4 DEF StreamInv, FramesInv
<1>8. ClosedInv'
  BY <1>1, <1>3, <1>4 DEF TerminalInv, ClosedInv
<1>9. StateInv'
  BY <1>1, <1>3, NothingOnTheWay DEF StateInv
<1>10. OrderInv' /\ AnswerInv' /\ OldInv'
  <2> HIDE DEF Path
  <2> QED BY <1>1, <1>3, <1>4 DEF OrderInv, AnswerInv, OldInv
<1>11. FlowInv' /\ ScreenInv'
  BY <1>1, <1>3 DEF FlowInv, ScreenInv, Showing
<1>12. CountInv'
  BY <1>1, <1>4 DEF CountInv
<1> QED BY <1>6, <1>7, <1>8, <1>9, <1>10, <1>11, <1>12 DEF TerminalInv

LEMMA AsksForIs ==
  ASSUME NEW w \in Nat
  PROVE  /\ AsksFor(w) \in Requests /\ AsksFor(w).kind = "watch" /\ AsksFor(w).watch = w
         /\ <<AsksFor(w)>> \in Seq(Requests) /\ In(<<AsksFor(w)>>) = {AsksFor(w)}
         /\ DOMAIN <<AsksFor(w)>> = {1}
<1>1. AsksFor(w) \in Requests /\ AsksFor(w).kind = "watch" /\ AsksFor(w).watch = w
  BY DEF AsksFor, Requests, WatchRequests
<1>2. \A r \in Requests : <<r>> \in Seq(Requests) /\ DOMAIN <<r>> = {1}
  OBVIOUS
<1> QED BY <1>1, <1>2, InOfOne, Zenon

(* A view that asks, on a connection on which nothing is. *)
LEMMA AskingIsKept ==
  ASSUME NEW w \in Nat, Path' = <<>>, up' = <<AsksFor(w)>>, view' = NewView(w), stream' = Nil, serving' = Nil,
         out' = <<>>, wire' = <<>>, (term \in [seq : Nat, era : Nat, geometry : Nat, open : BOOLEAN])',
         (screen \in [watch : Nat, data : Seq(Nat), era : Nat, geometry : Nat])', happened' \subseteq Events
  PROVE  TerminalInv'
<1>1. /\ view' \in Views /\ view'.state = "asking" /\ view'.watch = w /\ view'.early = <<>> /\ view'.unacked = 0
  BY NewViewIs
<1>2. /\ AsksFor(w).kind = "watch" /\ AsksFor(w).watch = w
      /\ up' \in Seq(Requests) /\ In(up') = {AsksFor(w)} /\ DOMAIN up' = {1}
  BY AsksForIs
<1>3. In(Path') = {} /\ DOMAIN Path' = {} /\ In(view'.early) = {} /\ <<>> \in Seq(FrameSet)
  BY <1>1, NothingOnTheWay, NothingSent
<1> HIDE DEF Path
<1>4. TerminalTypes'
  BY <1>1, <1>2, <1>3 DEF TerminalTypes, Views
<1>5. StreamInv' /\ FramesInv' /\ ClosedInv' /\ StateInv'
  BY <1>1, <1>3 DEF StreamInv, FramesInv, ClosedInv, StateInv
<1>6. OrderInv'
  <2>1. \A i, j \in DOMAIN up' : ~(i < j)
    BY <1>2
  <2> QED BY <1>1, <1>2, <1>3, <2>1 DEF OrderInv
<1>7. AnswerInv' /\ OldInv'
  BY <1>1, <1>3 DEF AnswerInv, OldInv
<1>8. FlowInv'
  <2>1. Leads(w, Path', 0, 0) /\ 0 \in Nat
    BY LeadsThroughNothing
  <2>2. ~Showing'
    BY <1>1 DEF Showing
  <2>3. \E a, b \in Nat :
      /\ Leads(view'.watch, Path', a, b)
      /\ Showing' => a = Len(screen'.data)
      /\ stream' # Nil /\ stream'.watch = view'.watch /\ Live(stream') => b = term'.seq - Len(stream'.buffer)
    <3>1. Leads(view'.watch, Path', 0, 0) /\ stream' = Nil
      BY <1>1, <2>1
    <3> WITNESS 0 \in Nat, 0 \in Nat
    <3> QED BY <2>2, <3>1
  <2> QED BY <2>3 DEF FlowInv
<1>9. ScreenInv'
  BY <1>1 DEF ScreenInv, Showing
<1>10. CountInv'
  BY <1>1, <1>2 DEF CountInv
<1> QED BY <1>4, <1>5, <1>6, <1>7, <1>8, <1>9, <1>10 DEF TerminalInv

LEMMA ReconnectKeeps ==
  ASSUME TerminalInv, Reconnect
  PROVE  TerminalInv'
<1>0. TerminalTypes /\ view.watch \in Nat
  BY DEF TerminalInv, TerminalTypes
<1>1. /\ stream' = Nil /\ serving' = Nil /\ out' = <<>> /\ wire' = <<>>
      /\ view' = NewView(view.watch) /\ up' = <<AsksFor(view.watch)>>
      /\ UNCHANGED <<term, screen, happened>>
  BY DEF Reconnect, TerminalInv, StateInv
<1>2. Path' = <<>>
  <2>1. view'.early = <<>>
    BY <1>0, <1>1, NewViewIs
  <2>2. Path' = (<<>> \o <<>>) \o <<>>
    BY <1>1, <2>1 DEF Path
  <2> QED BY <2>2, NothingOnTheWay, NothingSent
<1>3. /\ (term \in [seq : Nat, era : Nat, geometry : Nat, open : BOOLEAN])'
      /\ (screen \in [watch : Nat, data : Seq(Nat), era : Nat, geometry : Nat])' /\ happened' \subseteq Events
  BY <1>0, <1>1 DEF TerminalTypes
<1> QED BY <1>0, <1>1, <1>2, <1>3, AskingIsKept

-----------------------------------------------------------------------------
(* The user comes back to the terminal, and the host serves a watch. *)

LEMMA ReopenKeeps ==
  ASSUME TerminalInv, Reopen
  PROVE  TerminalInv'
<1> DEFINE w == view.watch + 1
           u == [kind |-> "unwatch"]
           r == AsksFor(w)
           p == wire \o out
<1>0. /\ TerminalTypes /\ view.watch \in Nat /\ w \in Nat /\ up \in Seq(Requests) /\ happened \subseteq Events
      /\ view.early \in Seq(FrameSet) /\ wire \in Seq(FrameSet) /\ out \in Seq(FrameSet)
      /\ Path \in Seq(FrameSet) /\ In(Path) \subseteq FrameSet
  BY PathIs, SMTT(30) DEF TerminalInv, TerminalTypes
<1>1. /\ view.state \in {"asking", "watching"} /\ happened \subseteq happened' /\ happened' \subseteq Events
      /\ up' = up \o <<u, r>> /\ view' = NewView(w)
      /\ UNCHANGED <<term, stream, serving, out, wire, screen>>
  BY <1>0 DEF Reopen, Happens
<1>2. /\ view' \in Views /\ view'.state = "asking" /\ view'.watch = w /\ view'.early = <<>> /\ view'.unacked = 0
  BY <1>0, <1>1, NewViewIs
<1>3. r \in Requests /\ r.kind = "watch" /\ r.watch = w /\ u \in Requests /\ u.kind = "unwatch"
  BY <1>0, AsksForIs DEF Requests
<1>4. w > view.watch /\ w # 0
  BY <1>0
<1> HIDE DEF w, u, r
<1>5. /\ up' \in Seq(Requests) /\ Len(up') = Len(up) + 2
      /\ \A i \in DOMAIN up' : \/ i \in DOMAIN up /\ up'[i] = up[i]
                               \/ i = Len(up) + 1 /\ up'[i] = u
                               \/ i = Len(up) + 2 /\ up'[i] = r
  BY <1>0, <1>1, <1>3, SMTT(30)
<1>6. \A q \in In(up') : q.kind = "watch" => q \in In(up) \/ q = r
  BY <1>3, <1>5 DEF In
<1>7. Path' = p /\ p \in Seq(FrameSet) /\ In(p) \subseteq In(Path)
  <2>1. Path' = (<<>> \o wire) \o out
    BY <1>1, <1>2 DEF Path
  <2>2. Path' = p /\ p \in Seq(FrameSet)
    BY <1>0, <2>1, NothingOnTheWay
  <2>3. In(p) = In(wire) \cup In(out)
    BY <1>0, InOfConcat
  <2>4. In(Path) = (In(view.early) \cup In(wire)) \cup In(out)
    <3> DEFINE a == view.early \o wire
    <3>1. a \in Seq(FrameSet) /\ In(a) = In(view.early) \cup In(wire)
      BY <1>0, InOfConcat
    <3> HIDE DEF a
    <3>2. In(a \o out) = In(a) \cup In(out)
      BY <1>0, <3>1, InOfConcat
    <3>3. Path = a \o out
      BY DEF Path, a
    <3> QED BY <3>1, <3>2, <3>3
  <2> QED BY <2>2, <2>3, <2>4
<1> HIDE DEF p, Path
<1>8. \A f \in In(p) : /\ f \in FrameSet /\ f \in In(Path)
                       /\ Carries(f) => f.watch < w
                       /\ ~Of(w, f) /\ ~IsAnswer(w, f)
  <2>1. ASSUME NEW f \in In(p) PROVE Carries(f) => f.watch \in Nat /\ f.watch <= view.watch
    BY <1>0, <1>7, <2>1, KindIs DEF TerminalInv, OrderInv
  <2>2. \A f \in In(p) : Carries(f) => f.watch < w
    BY <1>0, <1>4, <2>1
  <2>3. ASSUME NEW f \in In(p) PROVE ~Of(w, f) /\ ~IsAnswer(w, f)
    <3>1. Carries(f) => f.watch # w
      BY <1>0, <1>4, <2>1
    <3> QED BY <3>1 DEF Of, IsAnswer, Carries
  <2> QED BY <1>0, <1>7, <2>2, <2>3
<1>9. stream # Nil => stream.watch < w /\ stream.watch # w
  <2>1. stream # Nil => stream.watch \in Nat /\ stream.watch <= view.watch
    BY <1>0 DEF TerminalInv, OrderInv, TerminalTypes, Streams
  <2> QED BY <1>0, <1>4, <2>1
<1>10. TerminalTypes'
  BY <1>0, <1>1, <1>2, <1>5 DEF TerminalTypes, Views
<1>11. StreamInv' /\ FramesInv' /\ ClosedInv'
  BY <1>1, <1>2, <1>7 DEF TerminalInv, StreamInv, FramesInv, ClosedInv
<1>12. StateInv'
  BY <1>2, NothingOnTheWay DEF StateInv
<1>13. OrderInv'
  <2>1. \A f \in In(Path') : Carries(f) => f.watch <= view'.watch /\ (stream' # Nil => f.watch <= stream'.watch)
    <3>1. \A f \in In(p) : Carries(f) => f.watch \in Nat /\ (stream # Nil => f.watch <= stream.watch)
      BY <1>8, KindIs DEF TerminalInv, OrderInv
    <3>2. \A f \in In(p) : Carries(f) => f.watch <= w
      BY <1>0, <1>8, <3>1
    <3> QED BY <1>1, <1>2, <1>7, <3>1, <3>2
  <2>2. stream' # Nil => stream'.watch <= view'.watch
    <3>1. stream # Nil => stream.watch \in Nat /\ stream.watch <= view.watch
      BY <1>0 DEF TerminalInv, OrderInv, TerminalTypes, Streams
    <3> QED BY <1>0, <1>1, <1>2, <1>4, <3>1
  <2>3. ASSUME NEW q \in In(up'), q.kind = "watch"
        PROVE  /\ q.watch <= view'.watch
               /\ stream' # Nil => stream'.watch < q.watch
               /\ \A f \in In(Path') : Carries(f) => f.watch < q.watch
    <3>1. CASE q = r
      BY <1>0, <1>1, <1>2, <1>3, <1>7, <1>8, <1>9, <3>1
    <3>2. CASE q \in In(up)
      <4>1. q.watch \in Nat /\ q.watch <= view.watch
        BY <1>0, <2>3, <3>2, RequestIs, InIsTyped DEF TerminalInv, OrderInv
      <4>2. q.watch <= w
        BY <1>0, <1>4, <4>1
      <4> QED BY <1>1, <1>2, <1>7, <2>3, <3>2, <4>2 DEF TerminalInv, OrderInv
    <3> QED BY <1>6, <2>3, <3>1, <3>2
  <2>4. ASSUME NEW i \in DOMAIN up', NEW j \in DOMAIN up', i < j, up'[i].kind = "watch", up'[j].kind = "watch"
        PROVE  up'[i].watch < up'[j].watch
    <3>0. i \in 1..(Len(up) + 2) /\ j \in 1..(Len(up) + 2) /\ Len(up) \in Nat /\ DOMAIN up = 1..Len(up)
      BY <1>0, <1>5
    <3>1. CASE j \in DOMAIN up /\ up'[j] = up[j]
      <4>1. i \in DOMAIN up /\ up'[i] = up[i]
        BY <3>0, <3>1, <1>5, <2>4
      <4> QED BY <2>4, <3>1, <4>1 DEF TerminalInv, OrderInv
    <3>2. CASE j = Len(up) + 2 /\ up'[j] = r
      <4>1. i \in DOMAIN up /\ up'[i] = up[i]
        BY <3>0, <3>2, <1>3, <1>5, <2>4
      <4>2. up[i] \in In(up) /\ up[i].kind = "watch"
        BY <2>4, <4>1 DEF In
      <4>3. up[i].watch \in Nat /\ up[i].watch <= view.watch
        BY <1>0, <4>2, RequestIs, InIsTyped DEF TerminalInv, OrderInv
      <4>4. up[i].watch < w
        BY <1>0, <1>4, <4>3
      <4> QED BY <1>3, <3>2, <4>1, <4>4
    <3>3. CASE j = Len(up) + 1 /\ up'[j] = u
      BY <1>3, <2>4, <3>3
    <3> QED BY <1>5, <3>1, <3>2, <3>3
  <2> QED BY <2>1, <2>2, <2>3, <2>4 DEF OrderInv
<1>14. AnswerInv'
  <2>1. stream # Nil /\ Answering(stream) => \A f \in In(p) : ~Of(stream.watch, f)
    BY <1>7 DEF TerminalInv, AnswerInv
  <2>2. \A i \in DOMAIN p : ~Of(w, p[i]) /\ ~IsAnswer(w, p[i])
    BY <1>8 DEF In
  <2> QED BY <1>1, <1>2, <1>7, <1>9, <2>1, <2>2 DEF AnswerInv
<1>15. OldInv'
  BY <1>1, <1>2, <1>7 DEF TerminalInv, OldInv
<1>16. FlowInv' /\ ScreenInv'
  <2>1. Leads(w, p, 0, 0) /\ 0 \in Nat
    BY <1>7, <1>8, LeadsNowhere
  <2>2. ~Showing'
    BY <1>2 DEF Showing
  <2>3. \E a, b \in Nat :
      /\ Leads(view'.watch, Path', a, b)
      /\ Showing' => a = Len(screen'.data)
      /\ stream' # Nil /\ stream'.watch = view'.watch /\ Live(stream') => b = term'.seq - Len(stream'.buffer)
    <3>1. Leads(view'.watch, Path', 0, 0) /\ ~(stream' # Nil /\ stream'.watch = view'.watch)
      BY <1>1, <1>2, <1>7, <1>9, <2>1
    <3> WITNESS 0 \in Nat, 0 \in Nat
    <3> QED BY <2>2, <3>1
  <2> QED BY <2>2, <2>3 DEF FlowInv, ScreenInv
<1>17. CountInv'
  BY <1>2, <1>4 DEF CountInv
<1> QED BY <1>10, <1>11, <1>12, <1>13, <1>14, <1>15, <1>16, <1>17 DEF TerminalInv

-----------------------------------------------------------------------------
LEMMA WatchingStreamIs ==
  ASSUME NEW v \in Nat, term.seq \in Nat
  PROVE  LET s == TakeSnapshot(NewStream(v), "watch")
         IN /\ s \in Streams /\ StreamOK(s, term.seq) /\ s.watch = v /\ Answering(s)
            /\ s.taking # Nil /\ s.taking.seq = term.seq /\ s.unacked = 0 /\ ~s.snapshotUnacked
<1> DEFINE t == [kind |-> "watch", seq |-> term.seq, attempt |-> 1, step |-> 1]
           New(e) == [watch |-> v, floor |-> 0, taking |-> Nil, pending |-> e, overflowed |-> FALSE,
                      held |-> TRUE, releasing |-> FALSE, buffer |-> e, timer |-> FALSE, unacked |-> 0,
                      snapshotUnacked |-> FALSE, stale |-> FALSE, resyncing |-> FALSE]
           q == NewStream(v)
           Taken(e) == [q EXCEPT !.taking = t, !.held = TRUE, !.releasing = FALSE, !.buffer = e, !.timer = FALSE,
                                 !.pending = e, !.overflowed = FALSE]
           s == Taken(<<>>)
<1>1. t \in Takings /\ t # Nil /\ t.seq = term.seq /\ t.kind = "watch"
  BY TakingIs
<1>2. <<>> \in Seq(Nat)
  OBVIOUS
<1>3. q \in Streams
  <2>1. ASSUME NEW e \in Seq(Nat) PROVE New(e) \in Streams
    BY DEF Streams
  <2>2. q = New(<<>>)
    BY DEF NewStream
  <2> HIDE DEF q, New
  <2> QED BY <1>2, <2>1, <2>2
<1>4. q.watch = v /\ q.floor = 0 /\ q.unacked = 0 /\ q.snapshotUnacked = FALSE /\ q.stale = FALSE
  BY DEF NewStream
<1>5. TakeSnapshot(NewStream(v), "watch") = s
  BY DEF TakeSnapshot
<1> HIDE DEF t, q
<1>6. s \in Streams
  <2>1. ASSUME NEW e \in Seq(Nat) PROVE Taken(e) \in Streams
    BY <1>1, <1>3 DEF Streams
  <2> HIDE DEF Taken
  <2> QED BY <1>2, <2>1
<1>7. /\ s.watch = v /\ s.taking = t /\ s.unacked = 0 /\ s.snapshotUnacked = FALSE /\ s.floor = 0
      /\ s.buffer = <<>> /\ s.pending = <<>> /\ s.overflowed = FALSE /\ s.releasing = FALSE /\ s.stale = FALSE
  BY <1>3, <1>4 DEF Streams
<1>8. Runs(<<>>, term.seq) /\ Len(<<>>) = 0
  BY DEF Runs
<1> HIDE DEF s
<1>9. StreamOK(s, term.seq)
  BY <1>1, <1>7, <1>8 DEF StreamOK
<1> QED BY <1>1, <1>5, <1>6, <1>7, <1>9 DEF Answering

LEMMA WatchKeeps ==
  ASSUME TerminalInv, Watch
  PROVE  TerminalInv'
<1> DEFINE v == Head(up).watch
<1>0. /\ TerminalTypes /\ term.seq \in Nat /\ up \in Seq(Requests)
      /\ Path \in Seq(FrameSet) /\ In(Path) \subseteq FrameSet
  BY PathIs DEF TerminalInv, TerminalTypes
<1>1. /\ up # <<>> /\ Head(up).kind = "watch" /\ up' = Tail(up) /\ serving' = v
      /\ UNCHANGED <<term, wire, view, screen, happened>>
  BY DEF Watch, Takes, viewer
<1>2. /\ Head(up) \in In(up) /\ v \in Nat /\ up' \in Seq(Requests) /\ TailOfUp
  <2>1. Head(up) \in Requests /\ Head(up) \in In(up) /\ Tail(up) \in Seq(Requests)
    BY <1>0, <1>1, AcksTaken
  <2> QED BY <1>1, <2>1, RequestIs DEF TailOfUp
<1>3. /\ v <= view.watch /\ view.state \notin {"watching", "lost"}
      /\ \A f \in In(Path) : Carries(f) => f.watch < v
  BY <1>1, <1>2 DEF TerminalInv, OrderInv, AnswerInv, StateInv
<1>4. CASE ~term.open
  <2> DEFINE e == [kind |-> "refused", watch |-> v]
             fs == <<e>>
  <2>1. stream' = Nil /\ out' = out \o fs
    BY <1>4 DEF Watch, Becomes
  <2>2. e \in FrameSet /\ ~Carries(e)
    BY <1>2 DEF FrameSet, OtherFrames, Carries
  <2> HIDE DEF e
  <2>3. fs \in Seq(FrameSet) /\ In(fs) = {e}
    <3>1. \A g \in FrameSet : <<g>> \in Seq(FrameSet)
      OBVIOUS
    <3> QED BY <2>2, <3>1, InOfOne, Zenon
  <2> HIDE DEF fs
  <2>4. Path' = Path \o fs
    BY <1>0, <1>1, <2>1, <2>3, PathGrows
  <2>5. /\ out' \in Seq(FrameSet) /\ wire' \in Seq(FrameSet) /\ serving' \in Nat \cup {Nil}
        /\ term' \in [seq : Nat, era : Nat, geometry : Nat, open : BOOLEAN] /\ ~term'.open
        /\ term.seq <= term'.seq /\ happened \subseteq happened' /\ happened' \subseteq Events
    <3>1. out \in Seq(FrameSet) /\ wire \in Seq(FrameSet) /\ happened \subseteq Events
          /\ term \in [seq : Nat, era : Nat, geometry : Nat, open : BOOLEAN]
      BY <1>0 DEF TerminalTypes
    <3>2. out' \in Seq(FrameSet)
      BY <2>1, <2>3, <3>1
    <3> HIDE DEF v
    <3> QED BY <1>0, <1>1, <1>2, <1>4, <3>1, <3>2
  <2> HIDE DEF v
  <2> QED BY <1>1, <1>2, <1>3, <2>1, <2>2, <2>3, <2>4, <2>5, EndKeeps
<1>5. CASE term.open
  <2> DEFINE s == TakeSnapshot(NewStream(v), "watch")
  <2>1. stream' = s /\ out' = out \o <<>>
    BY <1>5 DEF Watch, Becomes
  <2>2. /\ s \in Streams /\ StreamOK(s, term.seq) /\ s.watch = v /\ Answering(s)
        /\ s.taking # Nil /\ s.taking.seq = term.seq /\ s.unacked = 0 /\ ~s.snapshotUnacked
    BY <1>0, <1>2, WatchingStreamIs
  <2> HIDE DEF s
  <2>3. out' = out
    BY <1>0, <2>1, OutIs
  <2>4. Path' = Path
    BY <1>1, <2>3 DEF Path
  <2>5. /\ In(up') \subseteq In(up)
        /\ \A i, j \in DOMAIN up' : i < j => \E k, l \in DOMAIN up : k < l /\ up'[i] = up[k] /\ up'[j] = up[l]
    BY <1>0, <1>2, UpShrinks
  <2>6. \A q \in In(up') : q.kind = "watch" => v < q.watch
    <3>1. ASSUME NEW i \in DOMAIN up' PROVE i + 1 \in DOMAIN up /\ up'[i] = up[i + 1] /\ 1 \in DOMAIN up /\ 1 < i + 1
                                             /\ up[1] = Head(up)
      BY <1>0, <1>1, <3>1
    <3>2. ASSUME NEW i \in DOMAIN up', up'[i].kind = "watch" PROVE v < up'[i].watch
      BY <1>1, <3>1, <3>2 DEF TerminalInv, OrderInv
    <3> QED BY <3>2 DEF In
  <2> HIDE DEF v, Path
  <2>7. TerminalTypes'
    BY <1>0, <1>1, <1>2, <2>1, <2>2, <2>3 DEF TerminalTypes
  <2>8. StreamInv' /\ FramesInv' /\ ClosedInv' /\ StateInv'
    BY <1>1, <1>3, <1>5, <2>1, <2>2, <2>3, <2>4 DEF TerminalInv, StreamInv, FramesInv, ClosedInv, StateInv
  <2>9. OrderInv'
    <3>1. \A f \in In(Path) : Carries(f) => f.watch <= view.watch /\ f.watch <= v
      <4>1. ASSUME NEW f \in In(Path), Carries(f) PROVE f.watch \in Nat /\ f.watch < v /\ f.watch <= view.watch
        BY <1>0, <1>3, <4>1, KindIs DEF TerminalInv, OrderInv
      <4>2. \A f \in In(Path) : Carries(f) => f.watch <= v
        BY <1>2, <4>1
      <4> QED BY <4>1, <4>2
    <3>2. \A q \in In(up') : q.kind = "watch" =>
            q.watch <= view.watch /\ v < q.watch /\ \A f \in In(Path) : Carries(f) => f.watch < q.watch
      BY <2>5, <2>6 DEF TerminalInv, OrderInv
    <3>3. \A i, j \in DOMAIN up' : i < j /\ up'[i].kind = "watch" /\ up'[j].kind = "watch" => up'[i].watch < up'[j].watch
      BY <2>5 DEF TerminalInv, OrderInv
    <3> QED BY <1>1, <1>3, <2>1, <2>2, <2>4, <3>1, <3>2, <3>3 DEF OrderInv
  <2>10. AnswerInv'
    <3>1. \A f \in In(Path) : ~Of(v, f)
      <4>1. ASSUME NEW f \in In(Path), Carries(f) PROVE f.watch # v
        <5>1. f.watch \in Nat /\ f.watch < v
          BY <1>0, <1>3, <4>1, KindIs
        <5> QED BY <1>2, <5>1
      <4> QED BY <4>1 DEF Of
    <3>2. view.state = "asking" =>
            /\ \A i \in DOMAIN Path : Of(view.watch, Path[i]) => \E j \in 1..i : IsAnswer(view.watch, Path[j])
            /\ \A i, j \in DOMAIN Path : IsAnswer(view.watch, Path[i]) /\ IsAnswer(view.watch, Path[j]) => i = j
      BY DEF TerminalInv, AnswerInv
    <3> QED BY <1>1, <1>3, <2>1, <2>2, <2>4, <3>1, <3>2 DEF AnswerInv
  <2>11. OldInv'
    <3>1. \A f \in In(Path) : f.kind = "data" => f.seq <= term.seq
      BY DEF TerminalInv, FramesInv, FrameOK
    <3> QED BY <1>1, <1>3, <2>1, <2>2, <2>4, <3>1 DEF TerminalInv, OldInv
  <2>12. FlowInv' /\ ScreenInv'
    <3>1. ~Live(s)
      BY <2>2 DEF Live
    <3> QED BY <1>1, <2>1, <2>4, <3>1 DEF TerminalInv, FlowInv, ScreenInv, Showing, Unrefused, Whole
  <2>13. CountInv'
    <3>1. ASSUME v = 0, view.watch = 0
          PROVE  /\ Chars(Path) = 0 /\ Snapshots(Path) = 0 /\ view.unacked = 0 /\ AckedChars' = 0 /\ AckedSnapshots' = 0
                 /\ \A f \in In(Path) : ~Snaps(f) /\ f.kind # "data"
                 /\ \A q \in In(up') : q.kind # "ack"
      <4>1. \A f \in In(Path) : ~Snaps(f) /\ f.kind # "data"
        <5>1. ASSUME NEW f \in In(Path), Carries(f) PROVE FALSE
          <6>1. f.watch \in Nat /\ f.watch < v
            BY <1>0, <1>3, <5>1, KindIs
          <6> QED BY <3>1, <6>1
        <5> QED BY <5>1 DEF Carries, Snaps
      <4>2. view.unacked = 0 /\ \A q \in In(up) : q.kind # "ack"
        BY <1>1, <1>2, <3>1 DEF TerminalInv, CountInv
      <4>3. \A q \in In(up') : q.kind # "ack"
        BY <2>5, <4>2
      <4>4. AckedChars' = 0 /\ AckedSnapshots' = 0
        <5>1. /\ AckedChars' = Sum(RequestChars, up') /\ AckedSnapshots' = Sum(RequestSnapshots, up')
          BY <1>2, AckedAre DEF AckedChars, AckedSnapshots
        <5> QED BY <1>2, <4>3, <5>1, AcksNothing
      <4> QED BY <1>0, <4>1, <4>2, <4>3, <4>4, CountsOfNothing
    <3>2. stream'.unacked = 0 /\ ~stream'.snapshotUnacked /\ stream'.watch = v
      BY <2>1, <2>2
    <3>3. \A i \in DOMAIN Path : Path[i] \in In(Path)
      BY DEF In
    <3>4. view.watch = 0 /\ (\E q \in In(up') : q.kind = "watch") =>
            view.unacked = 0 /\ \A q \in In(up') : q.kind # "ack"
      BY <2>5 DEF TerminalInv, CountInv
    <3> QED BY <1>1, <2>4, <3>1, <3>2, <3>3, <3>4 DEF CountInv
  <2> QED BY <2>7, <2>8, <2>9, <2>10, <2>11, <2>12, <2>13 DEF TerminalInv
<1> QED BY <1>4, <1>5

-----------------------------------------------------------------------------
(* The invariant holds, and with it what EndsAgree says. *)

LEMMA TerminalStarts ==
  ASSUME TerminalInit
  PROVE  TerminalInv
<1>1. /\ term \in [seq : Nat, era : Nat, geometry : Nat, open : BOOLEAN] /\ term.open /\ term.seq = 0
      /\ stream = Nil /\ serving = Nil /\ out = <<>> /\ wire = <<>> /\ up = <<AsksFor(0)>> /\ view = NewView(0)
      /\ happened = {}
  BY DEF TerminalInit
<1>2. screen \in [watch : Nat, data : Seq(Nat), era : Nat, geometry : Nat]
  <2>1. ASSUME NEW d \in Seq(Nat)
        PROVE  [watch |-> 0, data |-> d, era |-> 0, geometry |-> 0] \in [watch : Nat, data : Seq(Nat), era : Nat, geometry : Nat]
    OBVIOUS
  <2>2. <<>> \in Seq(Nat)
    OBVIOUS
  <2> QED BY <2>1, <2>2, Zenon DEF TerminalInit
<1>3. /\ view \in Views /\ view.state = "asking" /\ view.watch = 0 /\ view.early = <<>> /\ view.unacked = 0
  BY <1>1, NewViewIs
<1>4. /\ AsksFor(0).kind = "watch" /\ AsksFor(0).watch = 0
      /\ up \in Seq(Requests) /\ In(up) = {AsksFor(0)} /\ DOMAIN up = {1}
  BY <1>1, AsksForIs
<1>5. Path = <<>> /\ In(Path) = {} /\ DOMAIN Path = {} /\ In(view.early) = {} /\ <<>> \in Seq(FrameSet)
  <2>1. Path = (<<>> \o <<>>) \o <<>>
    BY <1>1, <1>3 DEF Path
  <2> QED BY <1>3, <2>1, NothingOnTheWay, NothingSent
<1> HIDE DEF Path
<1>6. TerminalTypes
  BY <1>1, <1>2, <1>3, <1>4, <1>5 DEF TerminalTypes, Views
<1>7. StreamInv /\ FramesInv /\ ClosedInv /\ StateInv
  BY <1>1, <1>3, <1>5 DEF StreamInv, FramesInv, ClosedInv, StateInv
<1>8. OrderInv
  <2>1. \A i, j \in DOMAIN up : ~(i < j)
    BY <1>4
  <2> QED BY <1>1, <1>3, <1>4, <1>5, <2>1 DEF OrderInv
<1>9. AnswerInv /\ OldInv
  BY <1>1, <1>3, <1>5 DEF AnswerInv, OldInv
<1>10. FlowInv /\ ScreenInv
  <2>1. Leads(0, Path, 0, 0) /\ 0 \in Nat
    BY <1>5, LeadsThroughNothing
  <2>2. ~Showing
    BY <1>3 DEF Showing
  <2> QED BY <1>1, <1>3, <2>1, <2>2 DEF FlowInv, ScreenInv
<1>11. CountInv
  BY <1>1, <1>3, <1>4 DEF CountInv
<1> QED BY <1>6, <1>7, <1>8, <1>9, <1>10, <1>11 DEF TerminalInv

LEMMA TerminalStutters ==
  ASSUME TerminalInv, UNCHANGED terminalVars
  PROVE  TerminalInv'
<1>1. UNCHANGED <<term, stream, serving, out, wire, up, view, screen, happened>>
  BY DEF terminalVars
<1>2. Path' = Path /\ AckedChars' = AckedChars /\ AckedSnapshots' = AckedSnapshots
  BY <1>1 DEF Path, AckedChars, AckedSnapshots
<1> HIDE DEF Path, AckedChars, AckedSnapshots
<1>3. TerminalTypes' /\ StreamInv' /\ FramesInv' /\ ClosedInv' /\ StateInv'
  BY <1>1, <1>2 DEF TerminalInv, TerminalTypes, StreamInv, FramesInv, ClosedInv, StateInv
<1>4. OrderInv' /\ AnswerInv' /\ OldInv'
  BY <1>1, <1>2 DEF TerminalInv, OrderInv, AnswerInv, OldInv
<1>5. FlowInv' /\ ScreenInv' /\ CountInv'
  BY <1>1, <1>2 DEF TerminalInv, FlowInv, ScreenInv, CountInv, Showing, Unrefused, Whole
<1> QED BY <1>3, <1>4, <1>5 DEF TerminalInv

(* What holds of a terminal, its stream, the frames and requests on their way and the viewer, at   *)
(* any moment: TerminalTypes with every part of TerminalInv.                                       *)
THEOREM TerminalInvariant == TerminalSpec => []TerminalInv
<1>1. TerminalInit => TerminalInv
  BY TerminalStarts
<1>2. TerminalInv /\ [TerminalNext]_terminalVars => TerminalInv'
  <2>1. SUFFICES ASSUME TerminalInv, [TerminalNext]_terminalVars PROVE TerminalInv'
    OBVIOUS
  <2>2. CASE Desktop
    BY <2>1, <2>2, DesktopKeeps, CloseTabKeeps DEF Desktop
  <2>3. CASE Host
    BY <2>1, <2>3, WatchKeeps, UnwatchKeeps, AckKeeps, StreamKeeps, SendKeeps DEF Host
  <2>4. CASE Oversize
    BY <2>1, <2>4, OversizeKeeps
  <2>5. CASE Receive
    BY <2>1, <2>5, AnswerKeeps, RefusalKeeps, EarlyKeeps, DataKeeps, ResetKeeps, ResizeReceivedKeeps, ClosedKeeps
       DEF Receive
  <2>6. CASE SendAck \/ Reopen
    BY <2>1, <2>6, SendAckKeeps, ReopenKeeps
  <2>7. CASE Disconnect \/ Reconnect
    BY <2>1, <2>7, DisconnectKeeps, ReconnectKeeps
  <2>8. CASE UNCHANGED terminalVars
    BY <2>1, <2>8, TerminalStutters
  <2> QED BY <2>1, <2>2, <2>3, <2>4, <2>5, <2>6, <2>7, <2>8 DEF TerminalNext, Browser
<1> QED BY <1>1, <1>2, PTL DEF TerminalSpec

(* Whatever the shell floods, the desktop clears or resizes, the connection loses and the user      *)
(* re-opens, the screen of a viewer shows a beginning of the output without a gap or a repetition,  *)
(* and what the host counts as unacknowledged is on its way, held or being acknowledged: EndsAgree. *)
THEOREM BothEndsAgree == TerminalSpec => []EndsAgree
<1>1. TerminalInv => EndsAgree
  <2>1. SUFFICES ASSUME TerminalInv PROVE EndsAgree
    OBVIOUS
  <2>2. ScreenIsWhole
    BY <2>1 DEF TerminalInv, ScreenInv, ScreenIsWhole, Showing, Unrefused
  <2>3. AcksMeetTheFloor
    <3> DEFINE a == view.early
               p == a \o wire
    <3>1. a \in Seq(FrameSet) /\ wire \in Seq(FrameSet) /\ out \in Seq(FrameSet) /\ p \in Seq(FrameSet)
      BY <2>1, PathIs DEF TerminalInv
    <3>2. /\ view.unacked \in Nat /\ AckedChars \in Nat /\ AckedSnapshots \in Nat
      <4>1. view.unacked \in Nat /\ up \in Seq(Requests)
        BY <2>1 DEF TerminalInv, TerminalTypes
      <4> QED BY <4>1, AckedAre DEF AckedChars, AckedSnapshots
    <3>3. Path = p \o out
      BY DEF Path
    <3> HIDE DEF p
    <3>4. /\ Chars(Path) = Chars(p) + Chars(out) /\ Snapshots(Path) = Snapshots(p) + Snapshots(out)
      BY <3>1, <3>3, CountsOfConcat
    <3>5. /\ Chars(p) = Chars(a) + Chars(wire) /\ Snapshots(p) = Snapshots(a) + Snapshots(wire)
      BY <3>1, CountsOfConcat DEF p
    <3>6. /\ Chars(a) \in Nat /\ Chars(wire) \in Nat /\ Chars(out) \in Nat
          /\ Snapshots(a) \in Nat /\ Snapshots(wire) \in Nat /\ Snapshots(out) \in Nat
      BY <3>1, CountsOfConcat
    <3>7. /\ Chars(Path) = Chars(out) + Chars(wire) + Chars(a)
          /\ Snapshots(Path) + AckedSnapshots = Snapshots(out) + Snapshots(wire) + Snapshots(a) + AckedSnapshots
      BY <3>2, <3>4, <3>5, <3>6
    <3>8. stream # Nil /\ stream.watch = 0 /\ view.watch = 0 =>
            /\ stream.unacked = Chars(Path) + view.unacked + AckedChars
            /\ Snapshots(Path) + AckedSnapshots = IF stream.snapshotUnacked THEN 1 ELSE 0
      BY <2>1 DEF TerminalInv, CountInv
    <3> HIDE DEF Path
    <3> QED BY <3>7, <3>8 DEF AcksMeetTheFloor
  <2> QED BY <2>2, <2>3 DEF EndsAgree
<1> QED BY <1>1, TerminalInvariant, PTL
=============================================================================
