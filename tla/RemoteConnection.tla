-------------------------- MODULE RemoteConnection --------------------------
(***************************************************************************)
(* The connection of one paired browser to the desktop through the relay:  *)
(* relay/src/web-client.ts and src/web/transport/relay-transport.ts (the   *)
(* browser), relay/src/hub.ts (the relay's hub) and                        *)
(* src/main/remote/host.ts (the desktop).  Each end has one socket to the  *)
(* hub at a time and replaces it when it is gone; over both runs an end-   *)
(* to-end session that a handshake sets up.  The hub tells each side when  *)
(* a socket of the other one closes.                                       *)
(*                                                                         *)
(* A message on a living socket arrives at once, a message on a dead one   *)
(* is lost, and each end and the hub find out about a dead socket at times *)
(* of their own.  Delays are those of the receiver: the host handles a     *)
(* browser's messages one after the other, each over awaits of its own.    *)
(* A hello, its handshake and the session are named by the browser's       *)
(* socket.  What the hub queues for an absent browser is left out: it is   *)
(* sealed under a session that ended with the browser's socket.            *)
(***************************************************************************)
EXTENDS Integers, FiniteSets, Sequences

CONSTANTS
  Sockets,       \* the browser's sockets; a name is used again when nothing refers to it
  HostSockets,   \* the desktop's sockets
  StaleCloses,   \* may the hub learn of a closed socket after the browser has opened the next?
  MaxFaults,     \* bound on broken sockets, refused tickets, wake-ups and late handshakes
  MaxRotations,  \* bound on rotations of the mirror key
  None

ASSUME ConnectionAssumption ==
  /\ Sockets \cap HostSockets = {} /\ None \notin Sockets \cup HostSockets
  /\ None \notin [id : Sockets, on : HostSockets]
  /\ StaleCloses \in BOOLEAN /\ {MaxFaults, MaxRotations} \subseteq Nat

VARIABLES
  \* the browser
  page,        \* ConnectionState of the transport
  stage,       \* where connect() stands
  retry,       \* the reconnect timer is set
  sock,        \* RelayClient.socket
  session,     \* RelayClient.session
  reply,       \* the hello that the handshake reply being finished answers
  early,       \* earlyFrames
  key,         \* the mirror key the browser holds
  \* the network and the hub
  dead,        \* sockets that are closed or cut off
  clients,     \* the browser's sockets the hub has
  hosts,       \* the desktop's sockets the hub has
  registered,  \* the relay's registry still lists the browser
  \* the desktop
  ws,          \* the host's socket
  incoming,    \* the chain of the browser's messages
  running,     \* messages being handled
  hsession,    \* the session of the browser, and the socket it was accepted on
  streamed,      \* the session a terminal is streamed to
  outgoing,    \* the ordered send of the session
  paired,      \* creds.clients lists the browser
  mirrorKey,   \* creds.mirrorKey
  rotating,    \* where rotateMirrorKey stands
  faults

browser == <<page, stage, retry, sock, session, reply, early, key>>
host == <<ws, incoming, running, hsession, streamed, outgoing, paired, mirrorKey, rotating>>
vars == <<browser, dead, clients, hosts, registered, host, faults>>

Up(s) == s # None /\ s \notin dead
Faulty == faults < MaxFaults /\ faults' = faults + 1

-----------------------------------------------------------------------------
(* What reaches the other side. *)

(* hub.ts fromClient, closed: the message goes to the desktop's sockets; enqueue of host.ts. *)
Arrives(kind, s) ==
  incoming' = IF ws \in hosts /\ Up(ws) THEN Append(incoming, [kind |-> kind, id |-> s, on |-> ws])
              ELSE incoming

(* hub.ts sends the browser host.gone: a handshake fails, and the socket is closed. *)
HostGone ==
  IF sock \in clients /\ Up(sock)
  THEN /\ dead' = dead \cup {sock}
       /\ stage' = IF stage = "waiting" THEN "mirror" ELSE stage
  ELSE UNCHANGED <<dead, stage>>

(* hub.ts fromHost: without a socket of the browser the host is told that it is gone. *)
ToBrowser(reaches) ==
  CASE ws \notin hosts \/ ~Up(ws) -> UNCHANGED <<browser, incoming>>
    [] ws \in hosts /\ Up(ws) /\ clients = {} ->
         Arrives("gone", None) /\ UNCHANGED browser
    [] OTHER ->
         IF sock \in clients /\ Up(sock) THEN reaches /\ UNCHANGED incoming
         ELSE UNCHANGED <<browser, incoming>>

(* onMessage "hs" *)
TakesReply(s) ==
  IF stage = "waiting"
  THEN stage' = "finishing" /\ reply' = s
       /\ UNCHANGED <<page, retry, sock, session, early, key>>
  ELSE UNCHANGED browser

(* Wrong variant: a frame before the session is established is dropped. *)
TakesFrameInSession(f) ==
  /\ key' = IF session = f.id /\ f.kind # "result" THEN f.key ELSE key
  /\ UNCHANGED <<page, stage, retry, sock, session, reply, early>>

(* onMessage "d", onSealed: a frame of another session does not open. *)
TakesFrame(f) ==
  IF session = None
  THEN early' = Append(early, f) /\ UNCHANGED <<page, stage, retry, sock, session, reply, key>>
  ELSE /\ key' = IF session = f.id /\ f.kind # "result" THEN f.key ELSE key
       /\ UNCHANGED <<page, stage, retry, sock, session, reply, early>>

-----------------------------------------------------------------------------
(* The browser. *)

(* connect() of the transport and disconnect() of the client, up to the request of a ticket *)
Connects ==
  /\ stage = "idle" /\ page # "revoked"
  /\ page' = "connecting" /\ stage' = "ticket"
  /\ dead' = IF sock = None THEN dead ELSE dead \cup {sock}
  /\ sock' = None /\ session' = None /\ early' = <<>>
  /\ UNCHANGED <<reply, key, clients, hosts, registered, host>>

RetryTimer ==
  /\ retry /\ retry' = FALSE
  /\ \/ Connects
     \/ /\ stage # "idle" \/ page = "revoked"
        /\ UNCHANGED <<page, stage, sock, session, reply, early, key, dead, clients, hosts,
                       registered, host>>
  /\ UNCHANGED faults

(* onWake: a page that was hidden for long connects anew, whatever it believes. *)
Wake == Connects /\ retry' = FALSE /\ Faulty

(* The relay no longer knows the pairing. *)
TicketDenied ==
  /\ stage = "ticket" /\ ~registered
  /\ stage' = "idle" /\ page' = "revoked"
  /\ UNCHANGED <<retry, sock, session, reply, early, key, dead, clients, hosts, registered, host, faults>>

TicketFails ==
  /\ stage = "ticket" /\ Faulty
  /\ stage' = "mirror"
  /\ UNCHANGED <<page, retry, sock, session, reply, early, key, dead, clients, hosts, registered, host>>

Named(s) ==
  \/ s \in clients \cup {sock, session, reply, streamed}
  \/ hsession # None /\ hsession.id = s
  \/ \E i \in DOMAIN early : early[i].id = s
  \/ \E i \in DOMAIN incoming : incoming[i].id = s
  \/ \E r \in running : r.id = s

(* A hello the desktop has still to answer, which it does long before the browser gives up on it *)
(* and tries again: the exceptions are bounded as faults.                                         *)
Unanswered == \/ \E i \in DOMAIN incoming : incoming[i].kind = "hs"
              \/ \E r \in running : r.kind = "hs"

(* A socket is opened, accepted by the hub, and says which desktop it is for. *)
Opens(s) ==
  /\ stage = "ticket" /\ registered /\ ~Named(s)
  /\ ~StaleCloses => clients = {}
  /\ IF Unanswered THEN Faulty ELSE UNCHANGED faults
  /\ stage' = "hello" /\ sock' = s
  /\ dead' = dead \ {s} /\ clients' = clients \cup {s}
  /\ UNCHANGED <<page, retry, session, reply, early, key, hosts, registered, host>>

(* The hello is made; it is sent if the socket is still the one it was made for. *)
Greets ==
  /\ stage = "hello"
  /\ \/ /\ sock = None
        /\ stage' = "mirror"
        /\ UNCHANGED <<dead, incoming>>
     \/ /\ sock \in dead
        /\ stage' \in {"waiting", "mirror"}
        /\ UNCHANGED <<dead, incoming>>
     \/ /\ Up(sock) /\ hosts # {}
        /\ stage' = "waiting"
        /\ Arrives("hs", sock)
        /\ UNCHANGED dead
     \/ /\ Up(sock) /\ hosts = {}
        /\ stage' = "mirror" /\ dead' = dead \cup {sock}
        /\ UNCHANGED incoming
  /\ UNCHANGED <<page, retry, sock, session, reply, early, key, clients, hosts, registered, ws, running,
                 hsession, streamed, outgoing, paired, mirrorKey, rotating, faults>>

(* 10 s without a reply *)
HandshakeTimesOut ==
  /\ stage = "waiting"
  /\ stage' = "mirror"
  /\ IF Unanswered THEN Faulty ELSE UNCHANGED faults
  /\ UNCHANGED <<page, retry, sock, session, reply, early, key, dead, clients, hosts, registered, host>>

EarlyKeys(s) == {early[i].key : i \in {j \in DOMAIN early : early[j].id = s /\ early[j].kind # "result"}}

(* clientFinish: the reply must be of this socket's hello. What was sealed early is opened now. *)
Finishes ==
  /\ stage = "finishing"
  /\ reply' = None
  /\ \/ /\ reply = sock
        /\ session' = sock /\ early' = <<>>
        /\ stage' = "idle" /\ page' = "online"
        /\ key' = IF EarlyKeys(sock) = {} THEN key
                  ELSE CHOOSE k \in EarlyKeys(sock) : \A l \in EarlyKeys(sock) : l <= k
     \/ /\ reply # sock
        /\ stage' = "mirror"
        /\ UNCHANGED <<page, session, early, key>>
  /\ UNCHANGED <<retry, sock, dead, clients, hosts, registered, host, faults>>

(* Wrong variant: the failed attempt relies on the close of its socket to try again. *)
MirroredOnly ==
  /\ stage = "mirror"
  /\ stage' = "idle" /\ page' = "offline"
  /\ UNCHANGED <<retry, sock, session, reply, early, key, dead, clients, hosts, registered, host, faults>>

(* The end of a failed connect(): the offline mirror is shown, and a retry is scheduled. *)
Mirrored ==
  /\ stage = "mirror"
  /\ stage' = "idle" /\ page' = "offline" /\ retry' = TRUE
  /\ UNCHANGED <<sock, session, reply, early, key, dead, clients, hosts, registered, host, faults>>

(* handleDrop: the browser notices that its socket is gone. *)
Drops ==
  /\ sock \in dead
  /\ sock' = None /\ session' = None
  /\ page' = "offline" /\ retry' = TRUE
  /\ UNCHANGED <<stage, reply, early, key, dead, clients, hosts, registered, host, faults>>

(* invoke of terminal:watch, one at a time *)
Asks ==
  /\ session # None
  /\ \A i \in DOMAIN incoming : incoming[i].kind # "watch"
  /\ \A r \in running : r.kind = "hs"
  /\ streamed # session
  /\ IF Up(sock) /\ hosts # {} THEN Arrives("watch", session) /\ UNCHANGED <<dead, stage>>
     ELSE UNCHANGED incoming /\ IF Up(sock) THEN HostGone ELSE UNCHANGED <<dead, stage>>
  /\ UNCHANGED <<page, retry, sock, session, reply, early, key, clients, hosts, registered, ws, running,
                 hsession, streamed, outgoing, paired, mirrorKey, rotating, faults>>

-----------------------------------------------------------------------------
(* The network, the hub and the registry. *)

Breaks(s) ==
  /\ s \in clients \cup hosts /\ Up(s) /\ Faulty
  /\ dead' = dead \cup {s}
  /\ UNCHANGED <<browser, clients, hosts, registered, host>>

(* closed: the desktop hears that the browser has gone. *)
HubLosesClient(s) ==
  /\ s \in clients \cap dead
  /\ clients' = clients \ {s}
  /\ Arrives("gone", None)
  /\ UNCHANGED <<browser, dead, hosts, registered, ws, running, hsession, streamed, outgoing, paired,
                 mirrorKey, rotating, faults>>

(* Wrong variant: nobody hears of it. *)
HubLosesHostQuietly(l) ==
  /\ l \in hosts \cap dead
  /\ hosts' = hosts \ {l}
  /\ UNCHANGED <<browser, dead, clients, registered, host, faults>>

(* closed: the browsers hear that the desktop has gone. *)
HubLosesHost(l) ==
  /\ l \in hosts \cap dead
  /\ hosts' = hosts \ {l}
  /\ HostGone
  /\ UNCHANGED <<page, retry, sock, session, reply, early, key, clients, registered, host, faults>>

(* The pairing is revoked at the relay, which closes the browser's sockets. *)
Revoke ==
  /\ registered /\ registered' = FALSE
  /\ dead' = dead \cup clients
  /\ UNCHANGED <<browser, clients, hosts, host, faults>>

-----------------------------------------------------------------------------
(* The desktop. *)

Forgets == hsession' = None /\ streamed' = None /\ outgoing' = <<>>

(* The close of the host's socket: every session over it ends. *)
HostDrops ==
  /\ ws \in dead
  /\ ws' = None /\ incoming' = <<>> /\ Forgets
  /\ UNCHANGED <<browser, dead, clients, hosts, registered, running, paired, mirrorKey, rotating, faults>>

HostConnects(l) ==
  /\ ws = None /\ l \notin hosts /\ \A r \in running : r.on # l
  /\ ws' = l /\ hosts' = hosts \cup {l} /\ dead' = dead \ {l}
  /\ UNCHANGED <<browser, clients, registered, incoming, running, hsession, streamed, outgoing, paired,
                 mirrorKey, rotating, faults>>

(* A message is handled when the one before it is, and what that one sent. *)
Ready ==
  /\ incoming # <<>> /\ incoming' = Tail(incoming)
  /\ \A r \in running : r.on # ws
  /\ \A i \in DOMAIN outgoing : outgoing[i].kind = "rekey"

Started == running' = running \cup {Head(incoming)}
HostRest == UNCHANGED <<browser, dead, clients, hosts, registered, ws, paired, mirrorKey, rotating, faults>>

(* onHandshake, onFrame: up to the first await *)
BeginsTask ==
  /\ Ready /\ Head(incoming).kind # "gone"
  /\ IF IF Head(incoming).kind = "hs" THEN paired
        ELSE hsession # None /\ hsession.id = Head(incoming).id
     THEN Started ELSE UNCHANGED running
  /\ UNCHANGED <<hsession, streamed, outgoing>>
  /\ HostRest

(* client.gone *)
ClientGone ==
  /\ Ready /\ Head(incoming).kind = "gone"
  /\ Forgets
  /\ UNCHANGED running
  /\ HostRest

(* Wrong variant: the handshake is not looked at again once the keys are derived. *)
AcceptsAnyway(r) ==
  /\ r \in running /\ r.kind = "hs" /\ ws # None
  /\ running' = running \ {r}
  /\ streamed' = None /\ hsession' = [id |-> r.id, on |-> r.on]
  /\ outgoing' = <<[kind |-> "key", id |-> r.id, key |-> mirrorKey]>>
  /\ ToBrowser(TakesReply(r.id))
  /\ UNCHANGED <<dead, clients, hosts, registered, ws, paired, mirrorKey, rotating, faults>>

(* onHandshake, behind hostAccept: the session is replaced, and its browser is sent the mirror key. *)
Accepts(r) ==
  /\ r \in running /\ r.kind = "hs"
  /\ running' = running \ {r}
  /\ IF ws = r.on /\ paired
     THEN /\ streamed' = None /\ hsession' = [id |-> r.id, on |-> r.on]
          /\ outgoing' = <<[kind |-> "key", id |-> r.id, key |-> mirrorKey]>>
          /\ ToBrowser(TakesReply(r.id))
     ELSE UNCHANGED <<browser, incoming, hsession, streamed, outgoing>>
  /\ UNCHANGED <<dead, clients, hosts, registered, ws, paired, mirrorKey, rotating, faults>>

(* onFrame, behind openFrame: the terminal is streamed from here on. *)
Watches(r) ==
  /\ r \in running /\ r.kind = "watch"
  /\ IF hsession # None /\ hsession.id = r.id
     THEN streamed' = r.id /\ running' = (running \ {r}) \cup {[r EXCEPT !.kind = "answer"]}
     ELSE running' = running \ {r} /\ UNCHANGED streamed
  /\ UNCHANGED <<incoming, hsession, outgoing>>
  /\ HostRest

(* The answer goes to the session the browser has by then. *)
Answers(r) ==
  /\ r \in running /\ r.kind = "answer"
  /\ running' = running \ {r}
  /\ outgoing' = IF hsession = None THEN outgoing
                 ELSE Append(outgoing, [kind |-> "result", id |-> hsession.id, key |-> 0])
  /\ UNCHANGED <<incoming, hsession, streamed>>
  /\ HostRest

(* sendTo: the next frame is sealed and sent. *)
Sends ==
  /\ outgoing # <<>> /\ outgoing' = Tail(outgoing)
  /\ ToBrowser(TakesFrame(Head(outgoing)))
  /\ UNCHANGED <<dead, clients, hosts, registered, ws, running, hsession, streamed, paired, mirrorKey,
                 rotating, faults>>

(* reconcile: a browser the relay no longer lists is forgotten, and the mirror key is changed. *)
Reconciles ==
  /\ ws \in hosts /\ Up(ws) /\ paired /\ ~registered /\ rotating = "idle"
  /\ paired' = FALSE /\ rotating' = "saving" /\ Forgets
  /\ UNCHANGED <<browser, dead, clients, hosts, registered, ws, incoming, running, mirrorKey, faults>>

(* Another browser lost its pairing. *)
OtherForgotten ==
  /\ rotating = "idle" /\ mirrorKey < MaxRotations
  /\ rotating' = "saving"
  /\ UNCHANGED <<browser, dead, clients, hosts, registered, ws, incoming, running, hsession, streamed,
                 outgoing, paired, mirrorKey, faults>>

(* rotateMirrorKey, up to its awaits *)
NewKey ==
  /\ rotating = "saving"
  /\ rotating' = "clearing" /\ mirrorKey' = mirrorKey + 1
  /\ UNCHANGED <<browser, dead, clients, hosts, registered, ws, incoming, running, hsession, streamed,
                 outgoing, paired, faults>>

(* rotateMirrorKey, behind them: the sessions of now are sent the key. *)
HandsOut ==
  /\ rotating = "clearing" /\ rotating' = "idle"
  /\ outgoing' = IF hsession = None THEN outgoing
                 ELSE Append(outgoing, [kind |-> "rekey", id |-> hsession.id, key |-> mirrorKey])
  /\ UNCHANGED <<browser, dead, clients, hosts, registered, ws, incoming, running, hsession, streamed,
                 paired, mirrorKey, faults>>

-----------------------------------------------------------------------------
Init ==
  /\ page = "restoring" /\ stage = "idle" /\ retry = TRUE
  /\ sock = None /\ session = None /\ reply = None /\ early = <<>> /\ key = 0
  /\ dead = {} /\ clients = {} /\ hosts = {} /\ registered = TRUE
  /\ ws = None /\ incoming = <<>> /\ running = {} /\ hsession = None /\ streamed = None
  /\ outgoing = <<>> /\ paired = TRUE /\ mirrorKey = 0 /\ rotating = "idle"
  /\ faults = 0

(* connect() and what it waits for *)
Connecting == \/ TicketDenied \/ (\E s \in Sockets : Opens(s)) \/ Greets \/ HandshakeTimesOut
              \/ Finishes \/ Mirrored
Handling == BeginsTask \/ ClientGone \/ \E r \in running : Accepts(r) \/ Watches(r) \/ Answers(r)
Rotating == NewKey \/ HandsOut

Next == \/ RetryTimer \/ Wake \/ TicketFails \/ Connecting \/ Drops \/ Asks
        \/ \E s \in Sockets \cup HostSockets : Breaks(s)
        \/ (\E s \in Sockets : HubLosesClient(s)) \/ (\E l \in HostSockets : HubLosesHost(l)) \/ Revoke
        \/ HostDrops \/ (\E l \in HostSockets : HostConnects(l))
        \/ Handling \/ Sends \/ Reconciles \/ OtherForgotten \/ Rotating

Spec == Init /\ [][Next]_vars

(* Every timer fires, every request, close event, message and derivation is answered in the end,   *)
(* also by an error. Nothing is assumed of the user, the registry and the network's faults.        *)
FairSpec ==
  /\ Spec
  /\ WF_vars(RetryTimer) /\ WF_vars(Connecting) /\ WF_vars(Drops)
  /\ \A s \in Sockets : WF_vars(HubLosesClient(s))
  /\ \A l \in HostSockets : WF_vars(HubLosesHost(l))
  /\ WF_vars(HostDrops) /\ WF_vars(\E l \in HostSockets : HostConnects(l))
  /\ WF_vars(Handling) /\ WF_vars(Sends) /\ WF_vars(Rotating)

-----------------------------------------------------------------------------
(* The desktop keeps a session only for a browser that is still paired, over the socket it was      *)
(* accepted on, and streams a terminal only to the session it has: keys are derived and frames      *)
(* opened over awaits, in which the socket, the session or the pairing may go (onHandshake,         *)
(* onFrame, dropClients).                                                                           *)
SessionsEnd ==
  /\ hsession # None => paired /\ hsession.on = ws
  /\ streamed # None => hsession # None /\ streamed = hsession.id

Quiescent ==
  /\ stage = "idle" /\ rotating = "idle"
  /\ incoming = <<>> /\ running = {} /\ outgoing = <<>>
  /\ dead \cap (clients \cup hosts \cup {sock, ws}) = {}

Served == page = "online" /\ hsession # None /\ hsession.id = session

(* A browser that shows the desktop online shares a session with it, once all that is under way is  *)
(* over and every closed socket is noticed: replies to older hellos, late client.gone and host.gone *)
(* messages and closes of replaced sockets never leave it online over a session nobody serves.      *)
OnlineIsServed == page = "online" /\ Quiescent => Served

(* ... and it then holds the key the mirror is sealed under (rotateMirrorKey, earlyFrames).         *)
HoldsCurrentKey == page = "online" /\ Quiescent => key = mirrorKey

(* Whatever breaks, a browser that is not revoked is connected again and stays so once faults end   *)
(* (scheduleReconnect on both sides, handleDrop, host.gone, the timeout of a handshake).            *)
ComesBack == <>[](page = "revoked" \/ Served)
=============================================================================
