-------------------------------- MODULE Hub --------------------------------
(***************************************************************************)
(* The Hub of internal/relay and the life of its clients: one handler      *)
(* goroutine per WebSocket (Handler, then Pump and readPump), its          *)
(* writePump, and the Hub's event loop, which alone changes the registry.  *)
(*                                                                         *)
(* A step is what happens under one lock or in one channel operation.  The *)
(* pairing of the devices does not change here: module Pairing is about    *)
(* that.  A queued frame is counted, not stored, since the send channel is *)
(* first-in first-out and what a client is told is known when the frame is *)
(* enqueued.  writePump may stop for good after a failed write or ping     *)
(* without closing the socket, so it drains the channel or does not.       *)
(***************************************************************************)
EXTENDS Naturals, Sequences

CONSTANTS
    DeviceID,
    NULL,
    Peer,          \* the link of each device: a device or NULL
    Conns,         \* bound: how many connections each device makes
    MaxFrames,     \* bound: how many binary frames each device sends
    ChanCap,       \* capacity of the Register and Unregister channels (64)
    SendBufferSize \* capacity of a client's send channel (256)

(* Links are symmetric: module DeviceStore shows that they stay so.        *)
ASSUME PeerAssumption ==
    /\ Peer \in [DeviceID -> DeviceID \cup {NULL}]
    /\ \A d \in DeviceID : Peer[d] # NULL => Peer[Peer[d]] = d
ASSUME BoundsAssumption ==
    /\ Conns \in [DeviceID -> Nat] /\ MaxFrames \in [DeviceID -> Nat]
    /\ ChanCap \in Nat /\ SendBufferSize \in Nat

(* A *Client: the n-th connection of a device.                             *)
Client == UNION {{d} \X (1..Conns[d]) : d \in DeviceID}
DeviceOf(c) == c[1]
PeerOf(c) == Peer[DeviceOf(c)]

ASSUME NullAssumption ==
    NULL \notin DeviceID \cup Client \cup [about : DeviceID, online : BOOLEAN]

VARIABLES
    clients,       \* h.clients: the current client of each device
    register,      \* channel h.Register
    unregister,    \* channel h.Unregister
    notice,        \* the peer_status the event loop is about to send
    pc,            \* where each handler goroutine is
    online,        \* what sendWelcome read about the peer
    target,        \* the client Route found
    carrying,      \* the frame Route is handing over
    closed,        \* c.closed
    queued,        \* frames in c.send
    told,          \* ghost: the last peer_status for the client, and its source
    frames,        \* ghost: binary frames read from each device so far
    arrived        \* ghost: the binary frames queued for each device, with
                   \* the connection they came from

hubVars == <<clients, register, unregister, notice>>
routeVars == <<target, carrying, frames, arrived>>
vars == <<hubVars, routeVars, pc, online, closed, queued, told>>

(* The positions of a handler, in program order.                           *)
Welcoming == {"welcome", "lookup", "status", "pump"}
Pumping == {"read", "route", "evict"}
Leaving == {"unregister", "close"}
Position == {"idle", "register", "done"} \cup Welcoming \cup Pumping \cup Leaving

Notice == [about : DeviceID, online : BOOLEAN]
Told == [online : BOOLEAN, by : {"nobody", "welcome", "hub", "dropped"}]
Arrival == Client \X Nat

TypeOK ==
    /\ clients \in [DeviceID -> Client \cup {NULL}]
    /\ register \in Seq(Client) /\ Len(register) <= ChanCap
    /\ unregister \in Seq(Client) /\ Len(unregister) <= ChanCap
    /\ notice \in Notice \cup {NULL}
    /\ pc \in [Client -> Position]
    /\ online \in [Client -> BOOLEAN]
    /\ target \in [Client -> Client \cup {NULL}]
    /\ carrying \in [Client -> Nat]
    /\ closed \in [Client -> BOOLEAN]
    /\ queued \in [Client -> 0..SendBufferSize]
    /\ told \in [Client -> Told]
    /\ frames \in [DeviceID -> Nat]
    /\ arrived \in [DeviceID -> Seq(Arrival)]

Init ==
    /\ clients = [d \in DeviceID |-> NULL]
    /\ register = <<>>
    /\ unregister = <<>>
    /\ notice = NULL
    /\ pc = [c \in Client |-> "idle"]
    /\ online = [c \in Client |-> FALSE]
    /\ target = [c \in Client |-> NULL]
    /\ carrying = [c \in Client |-> 0]
    /\ closed = [c \in Client |-> FALSE]
    /\ queued = [c \in Client |-> 0]
    /\ told = [c \in Client |-> [online |-> FALSE, by |-> "nobody"]]
    /\ frames = [d \in DeviceID |-> 0]
    /\ arrived = [d \in DeviceID |-> <<>>]

-----------------------------------------------------------------------------
(* Faulty variant: the channel is taken to be unbounded.                   *)
CanEnqueueUnbounded(c) == ~closed[c]

(* enqueue: fails, without blocking, on a closed client or a full buffer.  *)
CanEnqueue(c) == ~closed[c] /\ queued[c] < SendBufferSize
Push(c) == queued' = [queued EXCEPT ![c] = @ + 1]

(* sendJSON: a control frame that cannot be queued is dropped.             *)
SendJSON(c) == IF CanEnqueue(c) THEN Push(c) ELSE UNCHANGED queued

SendPeerStatus(c, isOnline, source) ==
    /\ SendJSON(c)
    /\ told' = [told EXCEPT ![c] =
                  [online |-> isOnline,
                   by |-> IF CanEnqueue(c) THEN source ELSE "dropped"]]

(* close, idempotent.  The socket goes first, so the frames left in the    *)
(* channel are never written.                                              *)
Close(c) ==
    /\ closed' = [closed EXCEPT ![c] = TRUE]
    /\ queued' = [queued EXCEPT ![c] = 0]

Goto(c, from, to) == pc[c] = from /\ pc' = [pc EXCEPT ![c] = to]

-----------------------------------------------------------------------------
(* Handler: authentication, upgrade and NewClient.                         *)
Connect(c) ==
    /\ \A n \in 1..(c[2] - 1) : pc[<<c[1], n>>] # "idle"
    /\ Goto(c, "idle", "register")
    /\ UNCHANGED <<hubVars, routeVars, online, closed, queued, told>>

(* hub.Register <- client                                                  *)
SendRegister(c) ==
    /\ Goto(c, "register", "welcome")
    /\ Len(register) < ChanCap
    /\ register' = Append(register, c)
    /\ UNCHANGED <<clients, unregister, notice, routeVars, online, closed,
                   queued, told>>

(* sendWelcome: the welcome message, then GetClient of the peer, then the  *)
(* peer_status with what GetClient returned.                               *)
SendWelcome(c) ==
    /\ Goto(c, "welcome", IF PeerOf(c) = NULL THEN "pump" ELSE "lookup")
    /\ SendJSON(c)
    /\ UNCHANGED <<hubVars, routeVars, online, closed, told>>

LookupPeer(c) ==
    /\ Goto(c, "lookup", "status")
    /\ online' = [online EXCEPT ![c] = clients[PeerOf(c)] # NULL]
    /\ UNCHANGED <<hubVars, routeVars, closed, queued, told>>

SendStatus(c) ==
    /\ Goto(c, "status", "pump")
    /\ SendPeerStatus(c, online[c], "welcome")
    /\ online' = [online EXCEPT ![c] = FALSE]
    /\ UNCHANGED <<hubVars, routeVars, closed>>

(* Pump: start writePump, enter readPump.                                  *)
StartPumps(c) ==
    /\ Goto(c, "pump", "read")
    /\ UNCHANGED <<hubVars, routeVars, online, closed, queued, told>>

-----------------------------------------------------------------------------
(* readPump reads a binary frame; Route looks the paired device up.  With  *)
(* no peer, or none online, the frame is dropped.                          *)
ReadBinary(c) ==
    /\ pc[c] = "read"
    /\ ~closed[c]
    /\ frames[DeviceOf(c)] < MaxFrames[DeviceOf(c)]
    /\ frames' = [frames EXCEPT ![DeviceOf(c)] = @ + 1]
    /\ IF PeerOf(c) # NULL /\ clients[PeerOf(c)] # NULL
       THEN /\ pc' = [pc EXCEPT ![c] = "route"]
            /\ target' = [target EXCEPT ![c] = clients[PeerOf(c)]]
            /\ carrying' = [carrying EXCEPT ![c] = frames[DeviceOf(c)] + 1]
       ELSE UNCHANGED <<pc, target, carrying>>
    /\ UNCHANGED <<hubVars, arrived, online, closed, queued, told>>

(* Faulty variant: Route retries a frame that was already queued.          *)
RouteDeliverAgain(c) ==
    /\ pc[c] = "route"
    /\ CanEnqueue(target[c])
    /\ Push(target[c])
    /\ arrived' = [arrived EXCEPT ![PeerOf(c)] = Append(@, <<c, carrying[c]>>)]
    /\ UNCHANGED <<hubVars, pc, online, closed, told, frames, target, carrying>>

(* Route hands the frame to the client it found ...                        *)
RouteDeliver(c) ==
    /\ Goto(c, "route", "read")
    /\ CanEnqueue(target[c])
    /\ Push(target[c])
    /\ arrived' = [arrived EXCEPT ![PeerOf(c)] = Append(@, <<c, carrying[c]>>)]
    /\ target' = [target EXCEPT ![c] = NULL]
    /\ carrying' = [carrying EXCEPT ![c] = 0]
    /\ UNCHANGED <<hubVars, online, closed, told, frames>>

(* ... or, if that client is closed or its buffer full, evicts it.         *)
RouteEvict(c) ==
    /\ Goto(c, "route", "evict")
    /\ ~CanEnqueue(target[c])
    /\ Close(target[c])
    /\ UNCHANGED <<hubVars, routeVars, online, told>>

SendEvicted(c) ==
    /\ Goto(c, "evict", "read")
    /\ Len(unregister) < ChanCap
    /\ unregister' = Append(unregister, target[c])
    /\ target' = [target EXCEPT ![c] = NULL]
    /\ carrying' = [carrying EXCEPT ![c] = 0]
    /\ UNCHANGED <<clients, register, notice, online, closed, queued, told,
                   frames, arrived>>

(* ReadMessage fails on a client that was closed ...                       *)
ReadError(c) ==
    /\ Goto(c, "read", "unregister")
    /\ closed[c]
    /\ UNCHANGED <<hubVars, routeVars, online, closed, queued, told>>

(* ... or because the network, the remote end, the read deadline, an       *)
(* oversized frame or a closeAfter frame took the socket down.             *)
SocketLost(c) ==
    /\ Goto(c, "read", "unregister")
    /\ ~closed[c]
    /\ UNCHANGED <<hubVars, routeVars, online, closed, queued, told>>

(* Pump's deferred function.                                               *)
SendUnregister(c) ==
    /\ Goto(c, "unregister", "close")
    /\ Len(unregister) < ChanCap
    /\ unregister' = Append(unregister, c)
    /\ UNCHANGED <<clients, register, notice, routeVars, online, closed, queued,
                   told>>

CloseSelf(c) ==
    /\ Goto(c, "close", "done")
    /\ Close(c)
    /\ UNCHANGED <<hubVars, routeVars, online, told>>

(* writePump writes the next frame.                                        *)
WriteFrame(c) ==
    /\ pc[c] \in Pumping \cup Leaving
    /\ queued[c] > 0
    /\ queued' = [queued EXCEPT ![c] = @ - 1]
    /\ UNCHANGED <<hubVars, routeVars, pc, online, closed, told>>

-----------------------------------------------------------------------------
(* Faulty variant: the client that is replaced is not closed.              *)
HubRegisterKeepsOld ==
    /\ notice = NULL
    /\ register # <<>>
    /\ LET c == Head(register) IN
        /\ clients' = [clients EXCEPT ![DeviceOf(c)] = c]
        /\ notice' = IF PeerOf(c) = NULL THEN NULL
                     ELSE [about |-> DeviceOf(c), online |-> TRUE]
    /\ register' = Tail(register)
    /\ UNCHANGED <<unregister, routeVars, pc, online, closed, queued, told>>

(* Run, case Register: replace and close the device's old client.          *)
HubRegister ==
    /\ notice = NULL
    /\ register # <<>>
    /\ LET c == Head(register)
           old == clients[DeviceOf(c)]
       IN  /\ IF old = NULL THEN UNCHANGED <<closed, queued>> ELSE Close(old)
           /\ clients' = [clients EXCEPT ![DeviceOf(c)] = c]
           /\ notice' = IF PeerOf(c) = NULL THEN NULL
                        ELSE [about |-> DeviceOf(c), online |-> TRUE]
    /\ register' = Tail(register)
    /\ UNCHANGED <<unregister, routeVars, pc, online, told>>

(* Faulty variant: the peer is told whichever client it was.               *)
HubUnregisterAny ==
    /\ notice = NULL
    /\ unregister # <<>>
    /\ LET c == Head(unregister) IN
        /\ clients' = IF clients[DeviceOf(c)] = c
                      THEN [clients EXCEPT ![DeviceOf(c)] = NULL]
                      ELSE clients
        /\ notice' = IF PeerOf(c) # NULL
                     THEN [about |-> DeviceOf(c), online |-> FALSE]
                     ELSE NULL
    /\ unregister' = Tail(unregister)
    /\ UNCHANGED <<register, routeVars, pc, online, closed, queued, told>>

(* Faulty variant: nobody is told that the device left.                    *)
HubUnregisterSilent ==
    /\ notice = NULL
    /\ unregister # <<>>
    /\ LET c == Head(unregister) IN
        clients' = IF clients[DeviceOf(c)] = c
                   THEN [clients EXCEPT ![DeviceOf(c)] = NULL]
                   ELSE clients
    /\ unregister' = Tail(unregister)
    /\ UNCHANGED <<register, notice, routeVars, pc, online, closed, queued, told>>

(* Run, case Unregister: only the device's current client leaves the       *)
(* registry and is reported offline.                                       *)
HubUnregister ==
    /\ notice = NULL
    /\ unregister # <<>>
    /\ LET c == Head(unregister)
           wasCurrent == clients[DeviceOf(c)] = c
       IN  /\ clients' = IF wasCurrent
                         THEN [clients EXCEPT ![DeviceOf(c)] = NULL]
                         ELSE clients
           /\ notice' = IF wasCurrent /\ PeerOf(c) # NULL
                        THEN [about |-> DeviceOf(c), online |-> FALSE]
                        ELSE NULL
    /\ unregister' = Tail(unregister)
    /\ UNCHANGED <<register, routeVars, pc, online, closed, queued, told>>

(* Faulty variant: the event loop waits for room in the peer's channel.    *)
HubNotifyBlocking ==
    /\ notice # NULL
    /\ LET c == clients[Peer[notice.about]] IN
        IF c = NULL
        THEN UNCHANGED <<queued, told>>
        ELSE CanEnqueue(c) /\ SendPeerStatus(c, notice.online, "hub")
    /\ notice' = NULL
    /\ UNCHANGED <<clients, register, unregister, routeVars, pc, online, closed>>

(* notifyPeerStatus, outside the lock: no-op if the peer is not connected. *)
HubNotify ==
    /\ notice # NULL
    /\ LET c == clients[Peer[notice.about]] IN
        IF c = NULL
        THEN UNCHANGED <<queued, told>>
        ELSE SendPeerStatus(c, notice.online, "hub")
    /\ notice' = NULL
    /\ UNCHANGED <<clients, register, unregister, routeVars, pc, online, closed>>

-----------------------------------------------------------------------------
HandlerStep(c) ==
    \/ SendRegister(c) \/ SendWelcome(c) \/ LookupPeer(c) \/ SendStatus(c)
    \/ StartPumps(c) \/ RouteDeliver(c) \/ RouteEvict(c) \/ SendEvicted(c)
    \/ ReadError(c) \/ SendUnregister(c) \/ CloseSelf(c)

Environment(c) ==
    Connect(c) \/ ReadBinary(c) \/ SocketLost(c) \/ WriteFrame(c)

Next ==
    \/ \E c \in Client : HandlerStep(c) \/ Environment(c)
    \/ HubRegister \/ HubUnregister \/ HubNotify

(* Goroutines that can run do run, and select picks among ready cases at   *)
(* random, so neither channel of the Hub is starved.                       *)
Fairness ==
    /\ \A c \in Client : WF_vars(HandlerStep(c))
    /\ WF_vars(HubNotify) /\ SF_vars(HubRegister) /\ SF_vars(HubUnregister)

Spec == Init /\ [][Next]_vars /\ Fairness

-----------------------------------------------------------------------------
Elements(s) == {s[i] : i \in DOMAIN s}

(* A reconnect never reports the device offline: when the Hub is about to  *)
(* say so, the device has no client, old or new (hub.go, case Unregister). *)
NoSpuriousOffline ==
    notice # NULL /\ ~notice.online => clients[notice.about] = NULL

(* A client that is being served can be reached: once its registration has *)
(* been processed, a client that was not closed is its device's current    *)
(* one, whatever reconnects and evictions go on.                           *)
ServedClientIsCurrent ==
    \A c \in Client :
        /\ pc[c] \in Welcoming \cup Pumping
        /\ ~closed[c]
        /\ c \notin Elements(register)
        => clients[DeviceOf(c)] = c

(* What the Hub itself last told a connected client about its peer is      *)
(* true, once the Hub has sent the notice of its last change.              *)
HubStatusAccurate ==
    \A d \in DeviceID :
        LET c == clients[d] IN
        /\ c # NULL
        /\ notice = NULL
        /\ told[c].by = "hub"
        => told[c].online = (clients[Peer[d]] # NULL)

(* The frames of a connection are queued for the peer in the order they    *)
(* were read and none twice, though the peer may reconnect in between      *)
(* (readPump, Route).  Nothing is promised between two connections of a    *)
(* device: the handler of the older may still be inside Route.             *)
FramesInOrder ==
    \A d \in DeviceID : \A i, j \in DOMAIN arrived[d] :
        i < j /\ arrived[d][i][1] = arrived[d][j][1]
            => arrived[d][i][2] < arrived[d][j][2]

(* Nobody waits forever on the Hub's channels, full as they may be, though *)
(* handlers that the Hub serves push to the channels it drains.            *)
NoHandlerStuck ==
    \A c \in Client :
        pc[c] \in {"register", "evict", "unregister"}
            ~> pc[c] \notin {"register", "evict", "unregister"}

(* A client that is closed, by an eviction or a reconnect, is torn down.   *)
ClosedTornDown == \A c \in Client : closed[c] ~> pc[c] = "done"

-----------------------------------------------------------------------------
(* What the documentation says and the code does not guarantee.            *)

(* Pump unregisters the client before it returns: a client whose handler   *)
(* has returned does not stay in the registry.                             *)
DoneIsUnregistered ==
    \A c \in Client : pc[c] = "done" ~> clients[DeviceOf(c)] # c

(* At rest, a connected client was last told the truth about its peer.     *)
AtRest ==
    /\ notice = NULL /\ register = <<>> /\ unregister = <<>>
    /\ \A c \in Client : pc[c] \in {"idle", "read", "done"}

StatusAccurateAtRest ==
    AtRest => \A d \in DeviceID :
        clients[d] # NULL /\ Peer[d] # NULL /\ told[clients[d]].by # "dropped"
            => told[clients[d]].online = (clients[Peer[d]] # NULL)
=============================================================================
