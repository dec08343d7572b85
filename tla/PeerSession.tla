---------------------------- MODULE PeerSession ----------------------------
(***************************************************************************)
(* Two paired devices of the Go SDK and the relay between them: peerConn   *)
(* (sdk/go/peer.go) with its active and pending Noise sessions, and the    *)
(* parts of Client (sdk/go/client.go) that drive it.                       *)
(*                                                                         *)
(* Only a client's readLoop handles frames, and it handles a handshake     *)
(* message in three steps: it feeds the session, queues the reply, and     *)
(* verifies and promotes.  Applications send from goroutines of their own, *)
(* in two steps: encrypting and queueing.  writeLoop writes to whatever    *)
(* connection there is, and what it writes to a dead one is lost; so is    *)
(* what the relay has for a device that is gone.  The behaviour starts     *)
(* when the server has sent pair_complete to both.                         *)
(*                                                                         *)
(* The relay is what module Hub shows it to be, in one step: who connects  *)
(* is told that the peer is online, and the peer is told too.  Offline     *)
(* notices change nothing in a client.  Saving a pin succeeds here; module *)
(* LocalState is about saving.                                             *)
(***************************************************************************)
EXTENDS NoiseSession, Sequences, FiniteSets

CONSTANTS
    Device,
    Smaller,       \* the device with the smaller device_id
    Acceptor,      \* the device that accepted the pairing code
    Pins,          \* what each peer store may hold for the peer at the start
    Announcements, \* what the server may announce to each as the peer's key
    MaxSends,      \* bound: how many messages each device encrypts
    MaxHeld,       \* bound: concurrent calls of Send on a device
    MaxLosses,     \* bound: connections lost
    MaxRestarts    \* bound: client processes restarted

(* A static key of the peer: the genuine one or another.                   *)
StaticKey == {"genuine", "other"}
KeyOrNull == StaticKey \cup {NULL}

ASSUME DeviceAssumption ==
    \E x, y \in Device : x # y /\ Device = {x, y}
ASSUME ChoiceAssumption ==
    /\ Smaller \in Device /\ Acceptor \in Device
    /\ Pins \in [Device -> SUBSET KeyOrNull]
    /\ Announcements \in [Device -> SUBSET KeyOrNull]
    /\ NULL \notin StaticKey
ASSUME BoundsAssumption ==
    MaxSends \in [Device -> Nat] /\ MaxHeld \in Nat /\ MaxLosses \in Nat /\ MaxRestarts \in Nat

(* Noise sessions, by device and number, and the frames on the wire.       *)
Id == Device \X Nat
IdOrNull == Id \cup {NULL}
Session ==
    [id : Id, initiator : BOOLEAN, status : {"handshaking", "ready", "failed"},
     gotMsg1 : BOOLEAN, remote : IdOrNull, sendN : Nat, recvN : Nat]
Handshake == [type : {"handshake"}, n : 1 .. 3, from : Id, to : IdOrNull]
Transport == [type : {"transport"}, key : IdOrNull \X IdOrNull, n : Nat, m : Nat]
Notice == [type : {"pair_complete", "peer_status"}]
Frame == Handshake \cup Transport \cup Notice

(* A peerConn, and what handleHandshakeEnvelope leaves to do.              *)
PeerConn ==
    [active : Session \cup {NULL}, pending : Session \cup {NULL},
     waiter : BOOLEAN, recent : BOOLEAN]
Work ==
    [reply : Handshake \cup {NULL}, done : BOOLEAN, err : BOOLEAN,
     slot : {"active", "pending"}]

ASSUME NullAssumption ==
    NULL \notin Id \cup Session \cup Handshake \cup PeerConn \cup Work

Other(d) == CHOOSE e \in Device : e # d

VARIABLES
    up,            \* is the client's connection alive?
    net,           \* frames on their way to each device
    sends,         \* channel c.sends
    held,          \* ciphertexts that Send has not queued yet
    peer,          \* the client's peerConn for the other device, or NULL
    busy,          \* what readLoop has still to do for a handshake message
    made,          \* Noise sessions each device created so far
    pin,           \* the key the device's PeerStore has for the peer
    announced,     \* the peer's key as the server announces it
    told,          \* what the pairing call learned of its first handshake
    sent,          \* ghost: messages encrypted by each device so far
    last,          \* ghost: the last message delivered to each application
    faults,        \* connections lost and processes restarted so far
    rough          \* ghost: did a fault hit a handshake under way, or come
                   \* within two seconds of the last one?

linkVars == <<up, net, sends>>
faultVars == <<faults, rough>>
appVars == <<held, sent>>
vars == <<linkVars, faultVars, appVars, peer, busy, made, pin, announced, told, last>>

PairComplete == [type |-> "pair_complete"]
PeerStatus == [type |-> "peer_status"]      \* online: true

(* newPeerConn.  recent: was an unsolicited msg1 taken up within the last  *)
(* unsolicitedMsg1MinInterval?                                             *)
NewPeerConn(waiter) ==
    [active |-> NULL, pending |-> NULL, waiter |-> waiter, recent |-> FALSE]

Init ==
    /\ up = [d \in Device |-> TRUE]
    /\ net = [d \in Device |-> <<PairComplete>>]
    /\ sends = [d \in Device |-> <<>>]
    /\ held = [d \in Device |-> {}]
    /\ peer = [d \in Device |-> NULL]
    /\ busy = [d \in Device |-> NULL]
    /\ made = [d \in Device |-> 0]
    /\ pin \in {f \in [Device -> KeyOrNull] : \A d \in Device : f[d] \in Pins[d]}
    /\ announced \in {f \in [Device -> KeyOrNull] :
                         \A d \in Device : f[d] \in Announcements[d]}
    /\ told = [d \in Device |-> "nothing"]
    /\ sent = [d \in Device |-> 0]
    /\ last = [d \in Device |-> 0]
    /\ faults = [losses |-> 0, restarts |-> 0]
    /\ rough = FALSE

-----------------------------------------------------------------------------
(* readLoop takes the next frame when it is done with the one before.      *)
Takes(d, type) ==
    /\ up[d] /\ busy[d] = NULL
    /\ net[d] # <<>> /\ Head(net[d]).type = type
    /\ net' = [net EXCEPT ![d] = Tail(@)]

Enqueue(d, frame) == sends' = [sends EXCEPT ![d] = Append(@, frame)]

NextSession(d, initiator) == NewSession(<<d, made[d] + 1>>, initiator)
Made(d) == made' = [made EXCEPT ![d] = @ + 1]

(* handlePairComplete: a new peerConn with its waiter; the accepting       *)
(* device starts the first handshake (startAsInitiator).                   *)
HandlePairComplete(d) ==
    /\ Takes(d, "pair_complete")
    /\ LET s == NextSession(d, TRUE)
       IN  IF d = Acceptor
           THEN /\ peer' = [peer EXCEPT ![d] = [NewPeerConn(TRUE) EXCEPT !.active = s]]
                /\ Made(d) /\ Enqueue(d, Msg(1, s.id, NULL))
           ELSE /\ peer' = [peer EXCEPT ![d] = NewPeerConn(TRUE)]
                /\ UNCHANGED <<made, sends>>
    /\ UNCHANGED <<up, faultVars, appVars, busy, pin, announced, told, last>>

(* handlePeerStatus, online: the device with the smaller ID starts a       *)
(* replacement handshake (startRekeyAsInitiator).  Two wrong forms come    *)
(* first: one that breaks before it makes, one that does nothing.          *)
StartRekeyInPlace(d) ==
    LET s == NextSession(d, TRUE)
    IN  /\ peer' = [peer EXCEPT ![d].active = s]
        /\ Made(d) /\ Enqueue(d, Msg(1, s.id, NULL))

NoRekey(d) == UNCHANGED <<peer, made, sends>>

StartRekey(d) ==
    LET s == NextSession(d, TRUE)
    IN  /\ peer' = [peer EXCEPT ![d].pending = s]
        /\ Made(d) /\ Enqueue(d, Msg(1, s.id, NULL))

HandlePeerStatus(d) ==
    /\ Takes(d, "peer_status")
    /\ IF d = Smaller /\ peer[d] # NULL
       THEN StartRekey(d)
       ELSE UNCHANGED <<peer, made, sends>>
    /\ UNCHANGED <<up, faultVars, appVars, busy, pin, announced, told, last>>

-----------------------------------------------------------------------------
(* peerConn.handleHandshakeEnvelope feeds a handshake message to a session *)
(* and leaves the rest to do.                                              *)
Fed(p, slot, s) ==
    IF slot = "active"
    THEN [p EXCEPT !.active = s]
    ELSE [p EXCEPT !.pending = s, !.recent = p.recent \/ p.pending = NULL]

Feed(d, s, slot) ==
    LET out == HandleHandshakeMessage(s, Head(net[d]))
    IN  /\ peer' = [peer EXCEPT ![d] = Fed(peer[d], slot, out.session)]
        /\ busy' = [busy EXCEPT ![d] =
               [reply |-> out.reply, done |-> out.done, err |-> out.err, slot |-> slot]]
        /\ UNCHANGED <<up, sends, faultVars, appVars, pin, announced, told, last>>

(* It is for the pending session, else for an active one that is not ready *)
(* (or has failed).                                                        *)
ContinueHandshake(d) ==
    /\ Takes(d, "handshake") /\ peer[d] # NULL
    /\ \/ peer[d].pending # NULL /\ Feed(d, peer[d].pending, "pending")
       \/ /\ peer[d].pending = NULL /\ peer[d].active # NULL /\ ~Ready(peer[d].active)
          /\ Feed(d, peer[d].active, "active")
    /\ UNCHANGED made

(* Else it starts a session as responder, the first or a replacement ...   *)
AnswerHandshake(d) ==
    /\ Takes(d, "handshake") /\ peer[d] # NULL /\ peer[d].pending = NULL
    /\ \/ peer[d].active = NULL /\ Feed(d, NextSession(d, FALSE), "active")
       \/ /\ Ready(peer[d].active) /\ ~peer[d].recent
          /\ Feed(d, NextSession(d, FALSE), "pending")
    /\ Made(d)

(* ... unless there is no peer, or the last replacement is too recent.     *)
DropHandshake(d) ==
    /\ Takes(d, "handshake")
    /\ peer[d] # NULL =>
           peer[d].pending = NULL /\ Ready(peer[d].active) /\ peer[d].recent
    /\ UNCHANGED <<up, sends, faultVars, appVars, peer, busy, made, pin, announced, told, last>>

(* Client.handleHandshakeEnvelope queues the reply ...                     *)
EnqueueReply(d) ==
    /\ busy[d] # NULL /\ busy[d].reply # NULL
    /\ Enqueue(d, busy[d].reply)
    /\ busy' = [busy EXCEPT ![d] = IF @.done THEN [@ EXCEPT !.reply = NULL] ELSE NULL]
    /\ UNCHANGED <<up, net, faultVars, appVars, peer, made, pin, announced, told, last>>

(* ... and, when the handshake is over, calls resolveHandshake.            *)
Verified(pinned, announcement) == pinned = "genuine" /\ announcement # "other"

(* verifyAndPin pins the key of a first handshake before it compares it    *)
(* with the announced one.                                                 *)
PinAfter(d) == IF busy[d].err \/ pin[d] # NULL THEN pin[d] ELSE "genuine"

Accepts(d) == ~busy[d].err /\ Verified(PinAfter(d), announced[d])

(* A replacement is promoted or abandoned, a first session kept or marked  *)
(* failed; the pairing call is told of the first handshake's end.          *)
ResolveWith(d, ok, abandoned, failed) ==
    /\ busy[d] # NULL /\ busy[d].reply = NULL
    /\ LET p == peer[d]
           rekey == busy[d].slot = "pending"
       IN  /\ peer' = [peer EXCEPT ![d] =
                  CASE rekey /\ ok -> [p EXCEPT !.active = p.pending, !.pending = NULL,
                                                !.waiter = FALSE]
                    [] rekey /\ ~ok -> [p EXCEPT !.pending = abandoned]
                    [] ~rekey /\ ok -> [p EXCEPT !.waiter = FALSE]
                    [] OTHER -> [p EXCEPT !.active = failed, !.waiter = FALSE]]
           /\ told' = IF p.waiter /\ (ok \/ ~rekey)
                      THEN [told EXCEPT ![d] = IF ok THEN "paired" ELSE "error"]
                      ELSE told
    /\ pin' = [pin EXCEPT ![d] = PinAfter(d)]
    /\ busy' = [busy EXCEPT ![d] = NULL]
    /\ UNCHANGED <<linkVars, faultVars, appVars, made, announced, last>>

(* Wrong forms: the replacement is not abandoned, the key is not verified, *)
(* a first session that failed to verify is left ready.                    *)
ResolveKeepsPending(d) ==
    ResolveWith(d, Accepts(d), peer[d].pending, Fail(peer[d].active))
ResolveUnverified(d) ==
    ResolveWith(d, ~busy[d].err, NULL, Fail(peer[d].active))
ResolveLeavesReady(d) ==
    ResolveWith(d, Accepts(d), NULL, peer[d].active)

ResolveHandshake(d) ==
    ResolveWith(d, Accepts(d), NULL, Fail(peer[d].active))

-----------------------------------------------------------------------------
(* Send encrypts under the active session ...                              *)
Encrypt(d) ==
    /\ peer[d] # NULL /\ Ready(peer[d].active)
    /\ sent[d] < MaxSends[d] /\ Cardinality(held[d]) < MaxHeld
    /\ sent' = [sent EXCEPT ![d] = @ + 1]
    /\ held' = [held EXCEPT ![d] = @ \cup {Ciphertext(peer[d].active, sent[d] + 1)}]
    /\ peer' = [peer EXCEPT ![d].active.sendN = @ + 1]
    /\ UNCHANGED <<linkVars, faultVars, busy, made, pin, announced, told, last>>

(* ... and queues the ciphertext, or gives up when its context is done.    *)
QueueOrGiveUp(d) ==
    \E f \in held[d] :
        /\ held' = [held EXCEPT ![d] = @ \ {f}]
        /\ Enqueue(d, f) \/ UNCHANGED sends
        /\ UNCHANGED <<up, net, faultVars, sent, peer, busy, made, pin, announced, told, last>>

(* handleTransportEnvelope: what cannot be decrypted, or finds the channel *)
(* of Messages() full, is dropped.                                         *)
HandleTransportEnvelope(d) ==
    /\ Takes(d, "transport")
    /\ LET f == Head(net[d])
       IN  IF peer[d] # NULL /\ Decrypts(peer[d].active, f)
           THEN /\ peer' = [peer EXCEPT ![d].active.recvN = @ + 1]
                /\ \/ last' = [last EXCEPT ![d] = f.m]
                   \/ UNCHANGED last
           ELSE UNCHANGED <<peer, last>>
    /\ UNCHANGED <<up, sends, faultVars, appVars, busy, made, pin, announced, told>>

-----------------------------------------------------------------------------
(* writeLoop, and the relay's forwarding.                                  *)
WriteFrame(d) ==
    /\ sends[d] # <<>>
    /\ sends' = [sends EXCEPT ![d] = Tail(@)]
    /\ net' = IF up[d] /\ up[Other(d)]
              THEN [net EXCEPT ![Other(d)] = Append(@, Head(sends[d]))]
              ELSE net
    /\ UNCHANGED <<up, faultVars, appVars, peer, busy, made, pin, announced, told, last>>

(* Two seconds pass since the last unsolicited msg1.                       *)
IntervalElapses(d) ==
    /\ peer[d] # NULL /\ peer[d].recent
    /\ peer' = [peer EXCEPT ![d].recent = FALSE]
    /\ UNCHANGED <<linkVars, faultVars, appVars, busy, made, pin, announced, told, last>>

(* No handshake is under way and the last one is long enough ago.          *)
Elements(s) == {s[i] : i \in DOMAIN s}
Calm ==
    \A d \in Device :
        /\ busy[d] = NULL
        /\ \A f \in Elements(net[d]) \cup Elements(sends[d]) : f.type = "transport"
        /\ peer[d] # NULL =>
               peer[d].pending = NULL /\ ~peer[d].recent /\ Ready(peer[d].active)

(* A connection is lost with all that is on its way to the device.         *)
Lose(d) ==
    /\ up[d] /\ faults.losses < MaxLosses
    /\ up' = [up EXCEPT ![d] = FALSE]
    /\ net' = [net EXCEPT ![d] = <<>>]
    /\ faults' = [faults EXCEPT !.losses = @ + 1]
    /\ rough' = (rough \/ ~Calm)
    /\ UNCHANGED <<sends, appVars, peer, busy, made, pin, announced, told, last>>

(* A client process ends and starts again: only the pin is on disk.        *)
Restart(d) ==
    /\ faults.restarts < MaxRestarts
    /\ up' = [up EXCEPT ![d] = FALSE]
    /\ net' = [net EXCEPT ![d] = <<>>]
    /\ sends' = [sends EXCEPT ![d] = <<>>]
    /\ held' = [held EXCEPT ![d] = {}]
    /\ peer' = [peer EXCEPT ![d] = NULL]
    /\ busy' = [busy EXCEPT ![d] = NULL]
    /\ told' = [told EXCEPT ![d] = "nothing"]
    /\ faults' = [faults EXCEPT !.restarts = @ + 1]
    /\ rough' = (rough \/ ~Calm)
    /\ UNCHANGED <<made, pin, announced, sent, last>>

(* dial: readLoop connects again.  applyWelcomePeers keeps a peerConn that *)
(* exists.                                                                 *)
Reconnect(d) ==
    /\ ~up[d] /\ busy[d] = NULL
    /\ up' = [up EXCEPT ![d] = TRUE]
    /\ peer' = [peer EXCEPT ![d] = IF @ = NULL THEN NewPeerConn(FALSE) ELSE @]
    /\ net' = IF up[Other(d)]
              THEN [e \in Device |-> Append(net[e], PeerStatus)]
              ELSE net
    /\ UNCHANGED <<sends, faultVars, appVars, busy, made, pin, announced, told, last>>

Next ==
    \E d \in Device :
        \/ HandlePairComplete(d) \/ HandlePeerStatus(d)
        \/ ContinueHandshake(d) \/ AnswerHandshake(d) \/ DropHandshake(d)
        \/ EnqueueReply(d) \/ ResolveHandshake(d) \/ HandleTransportEnvelope(d)
        \/ Encrypt(d) \/ QueueOrGiveUp(d) \/ WriteFrame(d) \/ IntervalElapses(d)
        \/ Lose(d) \/ Restart(d) \/ Reconnect(d)

(* A client's goroutines run, time passes and the server can be reached    *)
(* again: reconnectWithBackoff tries for ever.  Applications need not      *)
(* send, and nothing has to fail.                                          *)
ReadLoop(d) ==
    \/ HandlePairComplete(d) \/ HandlePeerStatus(d)
    \/ ContinueHandshake(d) \/ AnswerHandshake(d) \/ DropHandshake(d)
    \/ EnqueueReply(d) \/ ResolveHandshake(d) \/ HandleTransportEnvelope(d)
    \/ Reconnect(d)

Fairness ==
    \A d \in Device :
        /\ WF_vars(ReadLoop(d)) /\ WF_vars(WriteFrame(d)) /\ WF_vars(IntervalElapses(d))

Spec == Init /\ [][Next]_vars /\ Fairness

-----------------------------------------------------------------------------
(* What the variables hold.  A replacement is pending only while its       *)
(* handshake is under way (resolveHandshake promotes or abandons it), and  *)
(* Send holds so many ciphertexts at a time.                               *)
Typed ==
    /\ up \in [Device -> BOOLEAN]
    /\ net \in [Device -> Seq(Frame)]
    /\ sends \in [Device -> Seq(Handshake \cup Transport)]
    /\ peer \in [Device -> PeerConn \cup {NULL}]
    /\ busy \in [Device -> Work \cup {NULL}]
    /\ made \in [Device -> Nat] /\ sent \in [Device -> Nat] /\ last \in [Device -> Nat]
    /\ pin \in [Device -> KeyOrNull] /\ announced \in [Device -> KeyOrNull]
    /\ told \in [Device -> {"nothing", "paired", "error"}]
    /\ DOMAIN held = Device
    /\ \A d \in Device :
           /\ held[d] \subseteq Transport
           /\ peer[d] # NULL /\ peer[d].pending # NULL /\ busy[d] = NULL =>
                  peer[d].pending.status = "handshaking"
HeldBounded == \A d \in Device : IsFiniteSet(held[d]) /\ Cardinality(held[d]) <= MaxHeld
TypeOK == Typed /\ HeldBounded

(* A session that may be used: it is ready, and readLoop is not in the     *)
(* middle of verifying it.                                                 *)
Usable(d) ==
    /\ peer[d] # NULL /\ Ready(peer[d].active)
    /\ busy[d] # NULL => busy[d].slot # "active"

(* Make before break (resolveHandshake, promote, abandon): while its       *)
(* process lives, a device that has a usable session keeps one, whatever   *)
(* handshakes are started, crossed, lost or failed, and gives a session up *)
(* only for one whose key it has verified.                                 *)
MakeBeforeBreak ==
    [][\A d \in Device :
          Usable(d) /\ peer'[d] # NULL =>
              /\ Ready(peer'[d].active)
              /\ peer'[d].active.id # peer[d].active.id =>
                     Verified(pin'[d], announced[d])]_vars

(* A pairing call that reported success left its caller a session that can *)
(* be sent on at once, with the key the store has pinned (AcceptPair).     *)
PairedIsUsable ==
    \A d \in Device :
        told[d] = "paired" => Usable(d) /\ Verified(pin[d], announced[d])

(* A message reaches the application only from a peer whose key matches    *)
(* the pin and the announcement (verifyAndPin), although a first session   *)
(* is ready before it is verified.                                         *)
DeliveredMeansVerified ==
    \A d \in Device : last[d] # 0 => Verified(pin[d], announced[d])

(* Each direction is a lossy channel that neither reorders, repeats nor    *)
(* invents messages (encrypt, decrypt), across rekeys, reconnections,      *)
(* restarts and concurrent calls of Send.                                  *)
Channel ==
    INSTANCE LossyChannel WITH
        Receiver <- Device, sent <- [d \in Device |-> sent[Other(d)]]
RefinesChannel == Channel!Spec

(* Both ends are connected and have the same session.                      *)
Agreed ==
    /\ \A d \in Device : up[d] /\ peer[d] # NULL /\ Ready(peer[d].active)
    /\ \A d, e \in Device : Key(peer[d].active) = Key(peer[e].active)

Trusting == \A d \in Device : pin[d] # "other" /\ announced[d] # "other"

(* Once no more connections are lost, both ends settle on one session, if  *)
(* no fault hit a handshake under way or followed the last one within two  *)
(* seconds (handlePeerStatus re-handshakes on every reconnection).         *)
RekeyConverges == <>[](Trusting /\ ~rough => Agreed)

(* The same without that condition.                                        *)
RecoversFromLoss == <>[](Trusting => Agreed)
=============================================================================
