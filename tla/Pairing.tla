------------------------------ MODULE Pairing ------------------------------
(***************************************************************************)
(* In-band pairing: how the control messages of connected devices change   *)
(* the devices table (DeviceStore), the pending codes (PairCodes), the     *)
(* routing that each connected client keeps in memory (Client.pairedWith)  *)
(* and what the devices have been told.                                    *)
(*                                                                         *)
(* The handlers of different connections run concurrently and share the    *)
(* three; a step is one transaction, one critical section or one frame     *)
(* queued.  The Hub (module Hub) appears as the registry it keeps.         *)
(***************************************************************************)
EXTENDS Naturals, FiniteSets

CONSTANTS
    DeviceID,
    NULL,
    Code,
    MaxGrants,     \* bound: how many codes are requested
    Conns,         \* bound: how many connections each device makes
    Online,        \* the devices that are connected at the start
    Ops,           \* the operations besides connecting that the instance has
    Overlap,       \* the operations that may run at the same time
    ForeignKeys    \* whether SQLite enforces the references of the table

Operation ==
    {"connect", "disconnect", "pair", "unpair", "link", "delete", "expire"}

ASSUME OpsAssumption ==
    Ops \subseteq Operation /\ Overlap \subseteq Operation /\ ForeignKeys \in BOOLEAN
ASSUME BoundsAssumption ==
    /\ MaxGrants \in Nat
    /\ Conns \in [DeviceID -> Nat]
    /\ Online \subseteq {d \in DeviceID : Conns[d] > 0}

Client == UNION {{d} \X (1..Conns[d]) : d \in DeviceID}
DeviceOf(c) == c[1]

ASSUME NullAssumption ==
    NULL \notin DeviceID \cup Client \cup Nat \cup {"ahead", "passed"}

VARIABLES
    issued, devices, pairedWith, staticKey, expiresAt, halfDeleted,
    entries, grants, requester, lapsed, redeemed,
    clients,       \* h.clients
    waiting,       \* clients sent to h.Register and not yet registered
    closed,        \* clients the Hub replaced
    pc,            \* where each handler goroutine is
    peer,          \* Client.pairedWith
    seen,          \* device.PairedWith as Handler read it
    job,           \* what handlePairAccept or handleUnpair is doing
    told,          \* the peers each client was told it has
    linked         \* ghost: the pairs of devices ever linked in the table

(* The keys devices announce play no part here.                            *)
Store == INSTANCE DeviceStore WITH StaticKey <- {}
Codes == INSTANCE PairCodes

storeVars == <<issued, devices, pairedWith, staticKey, expiresAt, halfDeleted>>
codeVars == <<entries, grants, requester, lapsed, redeemed>>
hubVars == <<clients, waiting, closed>>
clientVars == <<pc, peer, seen, job, told>>
vars == <<storeVars, codeVars, hubVars, clientVars, linked>>

(* The positions of a handler: those of handlePairAccept and handleUnpair  *)
(* after the first are shared, the two differ in the job.                  *)
Working == {"db", "self", "tellself", "lookup", "peer", "tellpeer"}
Position == {"idle", "welcome", "ready", "done"} \cup Working

Job == [pairing : BOOLEAN,                   \* handlePairAccept or handleUnpair
        other : DeviceID \cup {NULL},        \* requesterID or peerID
        found : Client \cup {NULL}]          \* the client GetClient returned
NoJob == [pairing |-> FALSE, other |-> NULL, found |-> NULL]

TypeOK ==
    /\ Store!TypeOK
    /\ Codes!TypeOK
    /\ clients \in [DeviceID -> Client \cup {NULL}]
    /\ waiting \subseteq Client
    /\ closed \subseteq Client
    /\ pc \in [Client -> Position]
    /\ peer \in [Client -> DeviceID \cup {NULL}]
    /\ seen \in [Client -> DeviceID \cup {NULL}]
    /\ job \in [Client -> Job]
    /\ told \in [Client -> SUBSET DeviceID]
    /\ linked \subseteq SUBSET DeviceID

(* The devices are registered, those in Online connected and welcomed, and *)
(* none is paired yet.                                                     *)
Init ==
    /\ issued = DeviceID
    /\ devices = DeviceID
    /\ pairedWith = [d \in DeviceID |-> NULL]
    /\ staticKey = [d \in DeviceID |-> NULL]
    /\ expiresAt = [d \in DeviceID |-> "ahead"]
    /\ halfDeleted = {}
    /\ Codes!Init
    /\ clients = [d \in DeviceID |-> IF d \in Online THEN <<d, 1>> ELSE NULL]
    /\ waiting = {}
    /\ closed = {}
    /\ pc = [c \in Client |->
               IF DeviceOf(c) \in Online /\ c[2] = 1 THEN "ready" ELSE "idle"]
    /\ peer = [c \in Client |-> NULL]
    /\ seen = [c \in Client |-> NULL]
    /\ job = [c \in Client |-> NoJob]
    /\ told = [c \in Client |-> {}]
    /\ linked = {}

-----------------------------------------------------------------------------
(* The operations that have begun and not run their course.                *)
UnderWay ==
    {IF job[c].pairing THEN "pair" ELSE "unpair" : c \in {x \in Client : pc[x] \in Working}}
    \cup {"connect" : c \in {x \in Client : pc[x] = "welcome"} \cup waiting}
    \cup {"disconnect" : c \in {x \in Client : pc[x] = "done" /\ clients[DeviceOf(x)] = x}}
    \cup {"delete" : d \in halfDeleted}

AtRest == UnderWay = {}

MayStart(op) ==
    LET others == UnderWay IN others = {} \/ others \cup {op} \subseteq Overlap

Goto(c, from, to) == pc[c] = from /\ pc' = [pc EXCEPT ![c] = to]

(* A handler reads its next control frame.                                 *)
Reads(c, op) ==
    op \in Ops /\ pc[c] = "ready" /\ c \notin closed /\ MayStart(op)
(* Handler: authenticate, read the row, NewClient, and send to h.Register. *)
Connect(c) ==
    /\ Goto(c, "idle", "welcome")
    /\ \A n \in 1..(c[2] - 1) : pc[<<c[1], n>>] # "idle"
    /\ MayStart("connect")
    /\ DeviceOf(c) \in devices
    /\ expiresAt[DeviceOf(c)] # "passed"
    /\ seen' = [seen EXCEPT ![c] = pairedWith[DeviceOf(c)]]
    /\ peer' = [peer EXCEPT ![c] = pairedWith[DeviceOf(c)]]
    /\ waiting' = waiting \cup {c}
    /\ UNCHANGED <<storeVars, codeVars, clients, closed, job, told, linked>>

(* Faulty variant: an unpaired device is told of a peer without a name.    *)
SendWelcomeUnchecked(c) ==
    /\ Goto(c, "welcome", "ready")
    /\ told' = [told EXCEPT ![c] = @ \cup {seen[c]}]
    /\ seen' = [seen EXCEPT ![c] = NULL]
    /\ UNCHANGED <<storeVars, codeVars, hubVars, peer, job, linked>>

(* sendWelcome names the peer that was in the row Handler read.            *)
SendWelcome(c) ==
    /\ Goto(c, "welcome", "ready")
    /\ told' = [told EXCEPT ![c] = @ \cup ({seen[c]} \ {NULL})]
    /\ seen' = [seen EXCEPT ![c] = NULL]
    /\ UNCHANGED <<storeVars, codeVars, hubVars, peer, job, linked>>

(* The Hub registers a client, replacing and closing an older one ...      *)
HubRegister(c) ==
    /\ c \in waiting
    /\ waiting' = waiting \ {c}
    /\ closed' = closed \cup ({clients[DeviceOf(c)]} \ {NULL})
    /\ clients' = [clients EXCEPT ![DeviceOf(c)] = c]
    /\ UNCHANGED <<storeVars, codeVars, clientVars, linked>>

(* ... and drops a client whose handler has left.                          *)
HubUnregister(c) ==
    /\ pc[c] = "done"
    /\ clients[DeviceOf(c)] = c
    /\ clients' = [clients EXCEPT ![DeviceOf(c)] = NULL]
    /\ UNCHANGED <<storeVars, codeVars, waiting, closed, clientVars, linked>>

(* The socket is lost, or was closed by the Hub.                           *)
Disconnect(c) ==
    /\ Goto(c, "ready", "done")
    /\ c \in closed \/ ("disconnect" \in Ops /\ MayStart("disconnect"))
    /\ peer' = [peer EXCEPT ![c] = NULL]
    /\ told' = [told EXCEPT ![c] = {}]
    /\ UNCHANGED <<storeVars, codeVars, hubVars, seen, job, linked>>

-----------------------------------------------------------------------------
HandlePairRequest(c, code) ==
    /\ Reads(c, "pair")
    /\ Codes!Put(code, DeviceOf(c))
    /\ UNCHANGED <<storeVars, hubVars, clientVars, linked>>

(* Faulty variant: a device may redeem its own code.                       *)
HandlePairAcceptOwn(c, code) ==
    /\ entries[code] # NULL
    /\ Reads(c, "pair")
    /\ Codes!Take(code)
    /\ IF Codes!Redeemable(code)
       THEN /\ pc' = [pc EXCEPT ![c] = "db"]
            /\ job' = [job EXCEPT ![c] =
                         [pairing |-> TRUE, other |-> requester[entries[code]],
                          found |-> NULL]]
       ELSE UNCHANGED <<pc, job>>
    /\ UNCHANGED <<storeVars, hubVars, peer, seen, told, linked>>

(* handlePairAccept up to Take.  An unknown or expired code, or one's own, *)
(* is an error reply and nothing more.                                     *)
HandlePairAccept(c, code) ==
    LET requesterID == requester[entries[code]] IN
    /\ entries[code] # NULL
    /\ Reads(c, "pair")
    /\ Codes!Take(code)
    /\ IF Codes!Redeemable(code) /\ requesterID # DeviceOf(c)
       THEN /\ pc' = [pc EXCEPT ![c] = "db"]
            /\ job' = [job EXCEPT ![c] =
                         [pairing |-> TRUE, other |-> requesterID, found |-> NULL]]
       ELSE UNCHANGED <<pc, job>>
    /\ UNCHANGED <<storeVars, hubVars, peer, seen, told, linked>>

(* handleUnpair up to Peer.                                                *)
HandleUnpair(c) ==
    /\ Reads(c, "unpair")
    /\ pc' = [pc EXCEPT ![c] = "db"]
    /\ job' = [job EXCEPT ![c] =
                 [pairing |-> FALSE, other |-> peer[c], found |-> NULL]]
    /\ UNCHANGED <<storeVars, codeVars, hubVars, peer, seen, told, linked>>

(* The transaction: PairDevices ...                                        *)
Pair(c) ==
    /\ job[c].pairing
    /\ Goto(c, "db", "self")
    /\ Store!PairDevices(job[c].other, DeviceOf(c))
    /\ linked' = linked \cup {{job[c].other, DeviceOf(c)}}
    /\ UNCHANGED <<codeVars, hubVars, peer, seen, job, told>>

(* Faulty variant: the error of PairDevices is not looked at.              *)
PairFailsIgnored(c) ==
    /\ job[c].pairing
    /\ ~Store!CanPair(job[c].other, DeviceOf(c))
    /\ Goto(c, "db", "self")
    /\ UNCHANGED <<storeVars, codeVars, hubVars, peer, seen, job, told, linked>>

(* ... which fails with already_paired or invalid_code ...                 *)
PairFails(c) ==
    /\ job[c].pairing
    /\ ~Store!CanPair(job[c].other, DeviceOf(c))
    /\ Goto(c, "db", "ready")
    /\ job' = [job EXCEPT ![c] = NoJob]
    /\ UNCHANGED <<storeVars, codeVars, hubVars, peer, seen, told, linked>>

(* ... or UnpairDevice.                                                    *)
Unpair(c) ==
    /\ ~job[c].pairing
    /\ Goto(c, "db", "self")
    /\ Store!UnpairDevice(DeviceOf(c))
    /\ UNCHANGED <<codeVars, hubVars, peer, seen, job, told, linked>>

-----------------------------------------------------------------------------
(* setPeer and the pair_complete or unpaired message about device d.       *)
SetPeer(c, d, pairing) == peer' = [peer EXCEPT ![c] = IF pairing THEN d ELSE NULL]
Tell(c, d, pairing) ==
    told' = [told EXCEPT ![c] = IF pairing THEN @ \cup {d} ELSE @ \ {d}]

SetOwnPeer(c) ==
    /\ Goto(c, "self", "tellself")
    /\ SetPeer(c, job[c].other, job[c].pairing)
    /\ UNCHANGED <<storeVars, codeVars, hubVars, seen, job, told, linked>>

TellOwn(c) ==
    /\ Goto(c, "tellself", IF job[c].other = NULL THEN "ready" ELSE "lookup")
    /\ Tell(c, job[c].other, job[c].pairing)
    /\ UNCHANGED <<storeVars, codeVars, hubVars, peer, seen, job, linked>>

(* GetClient of the other device: if it is connected, the same for it.     *)
GetClient(c) ==
    LET other == clients[job[c].other] IN
    /\ Goto(c, "lookup", IF other = NULL THEN "ready" ELSE "peer")
    /\ job' = [job EXCEPT ![c] = IF other = NULL THEN NoJob ELSE [@ EXCEPT !.found = other]]
    /\ UNCHANGED <<storeVars, codeVars, hubVars, peer, seen, told, linked>>

(* Faulty variant: the requester's routing is not updated.                 *)
SetOtherPeerSkipped(c) ==
    /\ Goto(c, "peer", "tellpeer")
    /\ UNCHANGED <<storeVars, codeVars, hubVars, peer, seen, job, told, linked>>

SetOtherPeer(c) ==
    /\ Goto(c, "peer", "tellpeer")
    /\ SetPeer(job[c].found, DeviceOf(c), job[c].pairing)
    /\ UNCHANGED <<storeVars, codeVars, hubVars, seen, job, told, linked>>

TellOther(c) ==
    /\ Goto(c, "tellpeer", "ready")
    /\ Tell(job[c].found, DeviceOf(c), job[c].pairing)
    /\ job' = [job EXCEPT ![c] = NoJob]
    /\ UNCHANGED <<storeVars, codeVars, hubVars, peer, seen, linked>>

-----------------------------------------------------------------------------
(* The admin UI and the CLI change the table alone: nothing tells the Hub  *)
(* or the connected clients.                                               *)
AdminLink(idA, idB) ==
    /\ "link" \in Ops
    /\ MayStart("link")
    /\ Store!AdminPairDevices(idA, idB)
    /\ linked' = linked \cup {{idA, idB}}
    /\ UNCHANGED <<codeVars, hubVars, clientVars>>

AdminDelete(id) ==
    /\ "delete" \in Ops
    /\ (MayStart("delete") /\ Store!DeleteDeviceLinks(id)) \/ Store!DeleteDeviceRow(id)
    /\ UNCHANGED <<codeVars, hubVars, clientVars, linked>>

CodeExpires(g) ==
    /\ "expire" \in Ops
    /\ Codes!TTLElapses(g)
    /\ UNCHANGED <<storeVars, hubVars, clientVars, linked>>

TokenExpires(id) ==
    /\ "expire" \in Ops
    /\ Store!TokenTTLElapses(id)
    /\ UNCHANGED <<codeVars, hubVars, clientVars, linked>>

HandlerStep(c) ==
    \/ SendWelcome(c) \/ Pair(c) \/ PairFails(c) \/ Unpair(c) \/ SetOwnPeer(c)
    \/ TellOwn(c) \/ GetClient(c) \/ SetOtherPeer(c) \/ TellOther(c)

Next ==
    \/ \E c \in Client :
        \/ HandlerStep(c) \/ Connect(c) \/ Disconnect(c)
        \/ HubRegister(c) \/ HubUnregister(c) \/ HandleUnpair(c)
        \/ \E code \in Code : HandlePairRequest(c, code) \/ HandlePairAccept(c, code)
    \/ \E d \in DeviceID : AdminDelete(d) \/ TokenExpires(d)
    \/ \E d, e \in DeviceID : AdminLink(d, e)
    \/ \E g \in 1..MaxGrants : CodeExpires(g)

Spec == Init /\ [][Next]_vars

-----------------------------------------------------------------------------
(* A client only ever routes to, and is only ever told of, a device that   *)
(* the table has linked to its own: losers of a race for a device, stale   *)
(* codes and reconnects included (handlePairAccept, Handler).              *)
RoutesWereLinked ==
    \A c \in Client : \A d \in told[c] \cup ({peer[c]} \ {NULL}) :
        {d, DeviceOf(c)} \in linked

(* In-band pairing never pairs a device with itself: a code is refused to  *)
(* the device that asked for it, on whichever connection it comes back.    *)
NeverSelfPaired == \A c \in Client : peer[c] # DeviceOf(c) /\ DeviceOf(c) \notin told[c]

(* A code is single-use (docs/PROTOCOL.md section 5.3): however the same   *)
(* digits are drawn, taken, expire and are drawn again, Take hands out no  *)
(* grant twice.                                                            *)
CodesSingleUse == Codes!SingleUse

(* When no operation is under way, every connected client routes to the    *)
(* peer its row names and has been told of that peer and no other.         *)
AgreementAtRest ==
    AtRest => \A d \in devices :
        LET c == clients[d] IN
        c # NULL => peer[c] = pairedWith[d] /\ told[c] = {pairedWith[d]} \ {NULL}

-----------------------------------------------------------------------------
(* What the documentation says and the code does not guarantee.            *)

(* Unpairing is between two devices: while b's row links it to a third     *)
(* device, a's handleUnpair leaves b's routing alone.                      *)
UnpairSparesOthers ==
    [][\A c, o \in Client :
          /\ ~job[c].pairing /\ pc[c] = "peer" /\ pc'[c] = "tellpeer"
          /\ o = job[c].found
          /\ pairedWith[DeviceOf(o)] \notin {NULL, DeviceOf(c)}
          => peer'[o] = peer[o]]_vars
=============================================================================
