----------------------------- MODULE HubProofs -----------------------------
(***************************************************************************)
(* The safety of the Hub, for any number of devices, connections and       *)
(* frames and any channel capacities.                                      *)
(***************************************************************************)
EXTENDS Hub, TLAPS

(* The registry files a client under its own device.                       *)
OwnClients == \A d \in DeviceID : clients[d] # NULL => DeviceOf(clients[d]) = d

(* A client is registered once ...                                         *)
Once(s) == \A i, j \in DOMAIN s : s[i] = s[j] => i = j
RegisterOnce ==
    /\ Once(register)
    /\ \A c \in Elements(register) : pc[c] \notin {"idle", "register"}

(* ... and until then it is in no registry and hears nothing from the Hub. *)
Unregistered(c) == pc[c] \in {"idle", "register"} \/ c \in Elements(register)
UnregisteredUnknown ==
    \A c \in Client :
        Unregistered(c) => clients[DeviceOf(c)] # c /\ told[c].by # "hub"

(* Only a closed client, or one whose handler is leaving, is unregistered. *)
UnregisterLeaves ==
    \A c \in Elements(unregister) : closed[c] \/ pc[c] \in {"close", "done"}

(* Route holds a client while it routes, a closed one while it evicts.     *)
RouteTargets ==
    \A c \in Client :
        /\ pc[c] \in {"route", "evict"} => target[c] \in Client /\ PeerOf(c) # NULL
        /\ pc[c] = "evict" => closed[target[c]]

(* The notice the event loop is about to send is true, and has an          *)
(* addressee.                                                              *)
NoticeTrue ==
    notice # NULL =>
        /\ Peer[notice.about] # NULL
        /\ notice.online = (clients[notice.about] # NULL)

(* What the Hub told a current client is true, unless the correction is    *)
(* the notice about to be sent.                                            *)
HubToldTrue ==
    \A d \in DeviceID :
        clients[d] # NULL /\ told[clients[d]].by = "hub" =>
            /\ Peer[d] # NULL
            /\ \/ notice # NULL /\ notice.about = Peer[d]
               \/ told[clients[d]].online = (clients[Peer[d]] # NULL)

Registry == OwnClients /\ RegisterOnce /\ UnregisteredUnknown
Leavers == UnregisterLeaves /\ RouteTargets
Telling == NoticeTrue /\ HubToldTrue

IInv == TypeOK /\ Registry /\ Leavers /\ Telling /\ ServedClientIsCurrent

-----------------------------------------------------------------------------
(* A client belongs to a device.                                           *)
LEMMA ClientDevice == \A c \in Client : DeviceOf(c) \in DeviceID
  <1> TAKE c \in Client
  <1>1. PICK d \in DeviceID : c \in {d} \X (1..Conns[d])
    BY Zenon DEF Client
  <1>2. c[1] = d
    BY Zenon, <1>1
  <1> QED BY Zenon, <1>2 DEF DeviceOf

(* A linked device has a linked peer, and a notice is not NULL.            *)
LEMMA PeerLinked ==
    \A d, e \in DeviceID : Peer[d] = e => Peer[e] # NULL
  BY Zenon, PeerAssumption, NullAssumption

(* A notice is not the absent value.                                       *)
LEMMA NoticeNotNull ==
    ASSUME NEW d \in DeviceID, NEW isOnline \in BOOLEAN
    PROVE  [about |-> d, online |-> isOnline] # NULL
  BY NullAssumption

(* What a typed queue holds is typed.                                      *)
LEMMA ElementsType ==
    ASSUME NEW S, NEW s \in Seq(S)
    PROVE  Elements(s) \subseteq S
  BY DEF Elements

(* What a channel holds after a send and after a receive.                  *)
LEMMA ElementsAppend ==
    ASSUME NEW S, NEW s \in Seq(S), NEW e \in S
    PROVE  Elements(Append(s, e)) = Elements(s) \cup {e}
  <1> DEFINE t == Append(s, e)
  <1>1. Len(s) \in Nat /\ DOMAIN s = 1..Len(s) /\ DOMAIN t = 1..(Len(s) + 1)
    OBVIOUS
  <1>2. t[Len(s) + 1] = e /\ \A i \in 1..Len(s) : t[i] = s[i]
    OBVIOUS
  <1> HIDE DEF t
  <1>3. \A x \in Elements(t) : x \in Elements(s) \cup {e}
    BY <1>1, <1>2 DEF Elements
  <1>4. \A x \in Elements(s) \cup {e} : x \in Elements(t)
    BY <1>1, <1>2 DEF Elements
  <1>5. Elements(t) = Elements(s) \cup {e}
    BY Zenon, <1>3, <1>4
  <1> QED BY Zenon, <1>5 DEF t

(* Taking the head of a queue adds nothing to it.                          *)
LEMMA ElementsTail ==
    ASSUME NEW S, NEW s \in Seq(S), s # <<>>
    PROVE  /\ Head(s) \in Elements(s)
           /\ Elements(s) = {Head(s)} \cup Elements(Tail(s))
  <1>1. Len(s) \in Nat /\ Len(s) > 0
    OBVIOUS
  <1>2. \A i \in 1..Len(Tail(s)) : Tail(s)[i] = s[i + 1] /\ i + 1 \in 1..Len(s)
    BY <1>1
  <1>3. \A i \in 1..Len(s) : i # 1 => i - 1 \in 1..Len(Tail(s)) /\ Tail(s)[i - 1] = s[i]
    BY <1>1
  <1>4. Head(s) = s[1] /\ 1 \in 1..Len(s)
    BY <1>1
  <1>5. DOMAIN s = 1..Len(s) /\ DOMAIN Tail(s) = 1..Len(Tail(s))
    BY <1>1
  <1>6. ASSUME NEW x \in Elements(s) PROVE x \in {Head(s)} \cup Elements(Tail(s))
    <2>1. PICK i \in 1..Len(s) : x = s[i]
      BY Zenon, <1>5 DEF Elements
    <2>2. CASE i = 1
      BY Zenon, <1>4, <2>1, <2>2
    <2>3. CASE i # 1
      BY Zenon, <1>3, <1>5, <2>1, <2>3 DEF Elements
    <2> QED BY Zenon, <2>2, <2>3
  <1>7. \A x \in Elements(Tail(s)) : x \in Elements(s)
    BY Zenon, <1>2, <1>5 DEF Elements
  <1>8. Head(s) \in Elements(s)
    BY Zenon, <1>4, <1>5 DEF Elements
  <1> QED BY Zenon, <1>6, <1>7, <1>8

(* A client that is in no queue may join one.                              *)
LEMMA OnceAppend ==
    ASSUME NEW S, NEW s \in Seq(S), NEW e \in S, e \notin Elements(s), Once(s)
    PROVE  Once(Append(s, e))
  BY DEF Elements, Once

(* A client that leaves a queue is not queued twice.                       *)
LEMMA OnceTail ==
    ASSUME NEW S, NEW s \in Seq(S), s # <<>>, Once(s)
    PROVE  Head(s) \notin Elements(Tail(s)) /\ Once(Tail(s))
  <1>1. Len(s) \in Nat /\ Len(s) > 0 /\ Head(s) = s[1]
    OBVIOUS
  <1>2. \A i \in DOMAIN Tail(s) : Tail(s)[i] = s[i + 1] /\ i + 1 \in DOMAIN s /\ i \in Nat \ {0}
    BY <1>1
  <1>3. 1 \in DOMAIN s
    BY <1>1
  <1> QED BY <1>1, <1>2, <1>3 DEF Elements, Once

-----------------------------------------------------------------------------
(* The invariant holds when the Hub starts.                                *)
LEMMA InitEstablishes == Init => IInv
  <1> SUFFICES ASSUME Init PROVE IInv
    OBVIOUS
  <1> USE DEF Init
  <1>1. Elements(register) = {} /\ Elements(unregister) = {}
    BY DEF Elements
  <1>2. TypeOK
    BY BoundsAssumption DEF TypeOK, Position, Told, Notice
  <1>3. OwnClients /\ NoticeTrue /\ HubToldTrue
    BY Zenon DEF OwnClients, NoticeTrue, HubToldTrue
  <1>4. RegisterOnce /\ UnregisterLeaves /\ RouteTargets
    BY <1>1 DEF RegisterOnce, Once, UnregisterLeaves, RouteTargets
  <1>5. UnregisteredUnknown
    BY Zenon, ClientDevice, NullAssumption DEF UnregisteredUnknown
  <1>6. ServedClientIsCurrent
    BY Zenon DEF ServedClientIsCurrent, Welcoming, Pumping
  <1> QED BY Zenon, <1>2, <1>3, <1>4, <1>5, <1>6 DEF IInv, Registry, Leavers, Telling

(* The types of the send channel and of what a client was told.            *)
LEMMA PushType ==
    ASSUME TypeOK, NEW c \in Client, CanEnqueue(c), Push(c)
    PROVE  queued' \in [Client -> 0..SendBufferSize]
  <1>1. queued[c] + 1 \in 0..SendBufferSize
    BY BoundsAssumption DEF TypeOK, CanEnqueue
  <1> QED BY Zenon, <1>1 DEF TypeOK, Push

(* Closing a client keeps the types ...                                    *)
LEMMA CloseType ==
    ASSUME TypeOK, NEW c \in Client, Close(c)
    PROVE  /\ queued' \in [Client -> 0..SendBufferSize]
           /\ closed' \in [Client -> BOOLEAN]
  <1>1. 0 \in 0..SendBufferSize
    BY BoundsAssumption
  <1> QED BY Zenon, <1>1 DEF TypeOK, Close

(* ... and so does a non-blocking send to its channel ...                  *)
LEMMA SendType ==
    ASSUME TypeOK, NEW c \in Client, SendJSON(c)
    PROVE  queued' \in [Client -> 0..SendBufferSize]
  BY Zenon, PushType DEF SendJSON, TypeOK

(* ... a notice of its status ...                                          *)
LEMMA StatusType ==
    ASSUME TypeOK, NEW c \in Client, NEW isOnline \in BOOLEAN,
           NEW source \in {"welcome", "hub"}, SendPeerStatus(c, isOnline, source)
    PROVE  /\ queued' \in [Client -> 0..SendBufferSize]
           /\ told' \in [Client -> Told]
  <1>1. queued' \in [Client -> 0..SendBufferSize]
    BY Zenon, SendType DEF SendPeerStatus
  <1>2. [online |-> isOnline, by |-> IF CanEnqueue(c) THEN source ELSE "dropped"]
            \in Told
    BY Zenon DEF Told
  <1> QED BY Zenon, <1>1, <1>2 DEF TypeOK, SendPeerStatus

(* What the Hub receives is a client, and leaves a channel behind.         *)
LEMMA HeadType ==
    ASSUME NEW s \in Seq(Client), s # <<>>
    PROVE  /\ Head(s) \in Client /\ DeviceOf(Head(s)) \in DeviceID
           /\ Tail(s) \in Seq(Client) /\ Len(Tail(s)) = Len(s) - 1
  <1>1. /\ Head(s) \in Client
        /\ Tail(s) \in Seq(Client) /\ Len(Tail(s)) = Len(s) - 1
    OBVIOUS
  <1> QED BY Zenon, <1>1, ClientDevice

(* ... the receipt of a frame ...                                          *)
LEMMA ReceiveType ==
    ASSUME TypeOK
    PROVE  /\ HubRegister => /\ Head(register) \in Client
                             /\ DeviceOf(Head(register)) \in DeviceID
           /\ HubUnregister => /\ Head(unregister) \in Client
                               /\ DeviceOf(Head(unregister)) \in DeviceID
  <1>1. register \in Seq(Client) /\ unregister \in Seq(Client)
    BY Zenon DEF TypeOK
  <1>2. /\ HubRegister => register # <<>>
        /\ HubUnregister => unregister # <<>>
    BY Zenon DEF HubRegister, HubUnregister
  <1> QED BY Zenon, <1>1, <1>2, HeadType

(* The two places that send a peer_status.                                 *)
LEMMA SendStatusType ==
    ASSUME TypeOK, NEW c \in Client, SendStatus(c)
    PROVE  queued' \in [Client -> 0..SendBufferSize] /\ told' \in [Client -> Told]
  <1>1. online[c] \in BOOLEAN
    BY Zenon DEF TypeOK
  <1>2. SendPeerStatus(c, online[c], "welcome")
    BY Zenon DEF SendStatus
  <1> QED BY Zenon, <1>1, <1>2, StatusType

(* ... and the Hub's next notice.                                          *)
LEMMA HubNotifyType ==
    ASSUME TypeOK, NoticeTrue, HubNotify
    PROVE  queued' \in [Client -> 0..SendBufferSize] /\ told' \in [Client -> Told]
  <1> DEFINE c == clients[Peer[notice.about]]
  <1>1. notice \in Notice /\ notice.online \in BOOLEAN /\ notice.about \in DeviceID
    BY Zenon DEF TypeOK, HubNotify, Notice
  <1>2. Peer[notice.about] \in DeviceID
    BY Zenon, <1>1, PeerAssumption DEF HubNotify, NoticeTrue
  <1>3. c \in Client \cup {NULL}
    BY Zenon, <1>2 DEF TypeOK
  <1>4. CASE c = NULL
    <2>1. UNCHANGED <<queued, told>>
      BY Zenon, <1>4 DEF HubNotify
    <2> QED BY Zenon, <2>1 DEF TypeOK
  <1>5. CASE c # NULL
    <2>1. SendPeerStatus(c, notice.online, "hub")
      BY Zenon, <1>5 DEF HubNotify
    <2> HIDE DEF c
    <2> QED BY Zenon, <1>1, <1>3, <1>5, <2>1, StatusType
  <1> QED BY Zenon, <1>4, <1>5

(* TypeOK is preserved, given the client that Route holds and the          *)
(* addressee of the notice.                                                *)
LEMMA TypeStep == TypeOK /\ RouteTargets /\ NoticeTrue /\ [Next]_vars => TypeOK'
  <1> SUFFICES ASSUME TypeOK, RouteTargets, NoticeTrue, [Next]_vars PROVE TypeOK'
    OBVIOUS
  <1> USE BoundsAssumption, ClientDevice, NullAssumption, PeerAssumption
          DEF TypeOK, hubVars, routeVars, Goto, Position, Welcoming, Pumping, Leaving
  <1>1. ASSUME NEW c \in Client, Connect(c) PROVE TypeOK'
    BY Zenon, <1>1 DEF Connect
  <1>2. ASSUME NEW c \in Client, SendRegister(c) PROVE TypeOK'
    <2>1. /\ register' \in Seq(Client)
          /\ Len(register') <= ChanCap
      BY <1>2 DEF SendRegister
    <2>2. pc' \in [Client -> Position]
      BY Zenon, <1>2 DEF SendRegister
    <2> QED BY Zenon, <1>2, <2>1, <2>2 DEF SendRegister
  <1>3. ASSUME NEW c \in Client, SendWelcome(c) PROVE TypeOK'
    BY Zenon, <1>3, SendType DEF SendWelcome
  <1>4. ASSUME NEW c \in Client, LookupPeer(c) PROVE TypeOK'
    BY Zenon, <1>4 DEF LookupPeer
  <1>5. ASSUME NEW c \in Client, SendStatus(c) PROVE TypeOK'
    <2>3. /\ queued' \in [Client -> 0..SendBufferSize]
          /\ told' \in [Client -> Told]
      <3> HIDE DEF TypeOK
      <3> QED BY Zenon, <1>5, SendStatusType
    <2> QED BY Zenon, <1>5, <2>3 DEF SendStatus
  <1>6. ASSUME NEW c \in Client, StartPumps(c) PROVE TypeOK'
    BY Zenon, <1>6 DEF StartPumps
  <1>7. ASSUME NEW c \in Client, ReadBinary(c) PROVE TypeOK'
    <2>1. frames[DeviceOf(c)] \in Nat
      OBVIOUS
    <2> DEFINE d == DeviceOf(c)
    <2>5. frames' = [frames EXCEPT ![d] = frames[d] + 1]
      BY Zenon, <1>7 DEF ReadBinary
    <2>6. frames[d] + 1 \in Nat
      BY <2>1
    <2> HIDE DEF d
    <2>2. frames' \in [DeviceID -> Nat]
      BY Zenon, <2>5, <2>6
    <2>3. CASE PeerOf(c) # NULL /\ clients[PeerOf(c)] # NULL
      <3>1. clients[PeerOf(c)] \in Client
        BY Zenon, <2>3 DEF PeerOf
      <3>2. target' \in [Client -> Client \cup {NULL}]
        BY Zenon, <1>7, <2>3, <3>1 DEF ReadBinary
      <3>5. /\ carrying' = [carrying EXCEPT ![c] = frames[d] + 1]
            /\ pc' = [pc EXCEPT ![c] = "route"]
        BY Zenon, <1>7, <2>3 DEF ReadBinary, d
      <3>3. carrying' \in [Client -> Nat]
        BY Zenon, <2>6, <3>5
      <3>4. pc' \in [Client -> Position]
        BY Zenon, <3>5
      <3> QED BY Zenon, <1>7, <2>2, <3>2, <3>3, <3>4 DEF ReadBinary
    <2>4. CASE ~(PeerOf(c) # NULL /\ clients[PeerOf(c)] # NULL)
      BY Zenon, <1>7, <2>2, <2>4 DEF ReadBinary
    <2> QED BY Zenon, <2>3, <2>4
  <1>8. ASSUME NEW c \in Client, RouteDeliver(c) PROVE TypeOK'
    <2>1. target[c] \in Client
      BY Zenon, <1>8 DEF RouteDeliver, RouteTargets
    <2>2. queued' \in [Client -> 0..SendBufferSize]
      BY Zenon, <1>8, <2>1, PushType DEF RouteDeliver
    <2> DEFINE p == PeerOf(c)
    <2>5. arrived' = [arrived EXCEPT ![p] = Append(arrived[p], <<c, carrying[c]>>)]
      BY Zenon, <1>8 DEF RouteDeliver
    <2>6. <<c, carrying[c]>> \in Arrival
      BY Zenon DEF Arrival
    <2>7. p \in DeviceID
      BY <1>8 DEF RouteDeliver, RouteTargets, PeerOf
    <2>8. arrived[p] \in Seq(Arrival)
      BY Zenon, <2>7
    <2>9. Append(arrived[p], <<c, carrying[c]>>) \in Seq(Arrival)
      BY <2>6, <2>8
    <2> HIDE DEF p
    <2>3. arrived' \in [DeviceID -> Seq(Arrival)]
      BY Zenon, <2>5, <2>9
    <2>4. pc' \in [Client -> Position]
      BY Zenon, <1>8 DEF RouteDeliver
    <2> QED BY Zenon, <1>8, <2>2, <2>3, <2>4 DEF RouteDeliver
  <1>9. ASSUME NEW c \in Client, RouteEvict(c) PROVE TypeOK'
    <2>1. target[c] \in Client
      BY Zenon, <1>9 DEF RouteEvict, RouteTargets
    <2>2. /\ queued' \in [Client -> 0..SendBufferSize]
          /\ closed' \in [Client -> BOOLEAN]
      BY Zenon, <1>9, <2>1, CloseType DEF RouteEvict
    <2> QED BY Zenon, <1>9, <2>2 DEF RouteEvict
  <1>10. ASSUME NEW c \in Client, SendEvicted(c) PROVE TypeOK'
    <2>1. target[c] \in Client
      BY Zenon, <1>10 DEF SendEvicted, RouteTargets
    <2>2. unregister' \in Seq(Client) /\ Len(unregister') <= ChanCap
      BY <1>10, <2>1 DEF SendEvicted
    <2>3. pc' \in [Client -> Position]
      BY Zenon, <1>10 DEF SendEvicted
    <2>4. /\ target' \in [Client -> Client \cup {NULL}]
          /\ carrying' \in [Client -> Nat]
      BY Zenon, <1>10 DEF SendEvicted
    <2>5. UNCHANGED <<clients, register, notice, online, closed, queued, told,
                      frames, arrived>>
      BY Zenon, <1>10 DEF SendEvicted
    <2> QED BY Zenon, <2>2, <2>3, <2>4, <2>5
  <1>11. ASSUME NEW c \in Client, ReadError(c) \/ SocketLost(c) PROVE TypeOK'
    <2>1. CASE ReadError(c)
      BY <2>1, SMTT(30) DEF ReadError
    <2>2. CASE SocketLost(c)
      BY <2>2, SMTT(30) DEF SocketLost
    <2> QED BY Zenon, <1>11, <2>1, <2>2
  <1>12. ASSUME NEW c \in Client, SendUnregister(c) PROVE TypeOK'
    <2>1. /\ unregister' \in Seq(Client)
          /\ Len(unregister') <= ChanCap
      BY <1>12 DEF SendUnregister
    <2>2. pc' \in [Client -> Position]
      BY Zenon, <1>12 DEF SendUnregister
    <2> QED BY Zenon, <1>12, <2>1, <2>2 DEF SendUnregister
  <1>13. ASSUME NEW c \in Client, CloseSelf(c) PROVE TypeOK'
    BY Zenon, <1>13, CloseType DEF CloseSelf
  <1>14. ASSUME NEW c \in Client, WriteFrame(c) PROVE TypeOK'
    <2>1. queued[c] - 1 \in 0..SendBufferSize
      BY <1>14 DEF WriteFrame
    <2>2. queued' \in [Client -> 0..SendBufferSize]
      BY Zenon, <1>14, <2>1 DEF WriteFrame
    <2> QED BY Zenon, <1>14, <2>2 DEF WriteFrame
  <1>15. ASSUME HubRegister PROVE TypeOK'
    <2> DEFINE c == Head(register)
               old == clients[DeviceOf(c)]
    <2>1. c \in Client /\ DeviceOf(c) \in DeviceID
      <3> HIDE DEF TypeOK
      <3> QED BY Zenon, <1>15, ReceiveType
    <2>2. register' \in Seq(Client) /\ Len(register') <= ChanCap
      BY <1>15 DEF HubRegister
    <2>3. old \in Client \cup {NULL}
      BY Zenon, <2>1
    <2>4. /\ queued' \in [Client -> 0..SendBufferSize]
          /\ closed' \in [Client -> BOOLEAN]
      BY Zenon, <1>15, <2>3, CloseType DEF HubRegister
    <2>5. notice' \in Notice \cup {NULL}
      BY Zenon, <1>15, <2>1 DEF HubRegister, Notice
    <2>6. clients' \in [DeviceID -> Client \cup {NULL}]
      BY Zenon, <1>15, <2>1 DEF HubRegister
    <2> QED BY Zenon, <1>15, <2>2, <2>4, <2>5, <2>6 DEF HubRegister
  <1>16. ASSUME HubUnregister PROVE TypeOK'
    <2> DEFINE c == Head(unregister)
    <2>1. c \in Client /\ DeviceOf(c) \in DeviceID
      <3> HIDE DEF TypeOK
      <3> QED BY Zenon, <1>16, ReceiveType
    <2>2. unregister' \in Seq(Client) /\ Len(unregister') <= ChanCap
      BY <1>16 DEF HubUnregister
    <2>3. notice' \in Notice \cup {NULL}
      BY Zenon, <1>16, <2>1 DEF HubUnregister, Notice
    <2>4. clients' \in [DeviceID -> Client \cup {NULL}]
      BY Zenon, <1>16, <2>1 DEF HubUnregister
    <2> QED BY Zenon, <1>16, <2>2, <2>3, <2>4 DEF HubUnregister
  <1>17. ASSUME HubNotify PROVE TypeOK'
    <2>4. /\ queued' \in [Client -> 0..SendBufferSize]
          /\ told' \in [Client -> Told]
      <3> HIDE DEF TypeOK
      <3> QED BY Zenon, <1>17, HubNotifyType
    <2> QED BY Zenon, <1>17, <2>4 DEF HubNotify
  <1>18. ASSUME UNCHANGED vars PROVE TypeOK'
    BY Zenon, <1>18 DEF vars
  <1> QED
    BY Zenon, <1>1, <1>2, <1>3, <1>4, <1>5, <1>6, <1>7, <1>8, <1>9, <1>10, <1>11, <1>12,
       <1>13, <1>14, <1>15, <1>16, <1>17, <1>18 DEF Next, HandlerStep, Environment

-----------------------------------------------------------------------------
(* The registry: who is in it, and who is not in it yet.                   *)
LEMMA RegistryStep ==
    TypeOK /\ NoticeTrue /\ Registry /\ [Next]_vars
        => Registry'
  <1> SUFFICES ASSUME TypeOK, NoticeTrue, Registry, [Next]_vars PROVE Registry'
    OBVIOUS
  <1> USE ClientDevice, NullAssumption, PeerAssumption
          DEF hubVars, routeVars, Goto, TypeOK, Registry, OwnClients,
              RegisterOnce, UnregisteredUnknown, Unregistered
  <1>1. ASSUME NEW c \in Client, Connect(c) PROVE Registry'
    BY <1>1 DEF Connect
  <1>2. ASSUME NEW c \in Client, SendRegister(c) PROVE Registry'
    <2>1. Elements(register') = Elements(register) \cup {c} /\ c \notin Elements(register)
      BY <1>2, ElementsAppend DEF SendRegister
    <2>2. Once(register')
      BY Zenon, <1>2, <2>1, OnceAppend DEF SendRegister
    <2>3. \A x \in Elements(register') : pc'[x] \notin {"idle", "register"}
      BY <1>2, <2>1 DEF SendRegister
    <2>4. UnregisteredUnknown'
      BY Zenon, <1>2, <2>1 DEF SendRegister
    <2> QED BY Zenon, <1>2, <2>2, <2>3, <2>4 DEF SendRegister
  <1>3. ASSUME NEW c \in Client, SendWelcome(c) PROVE Registry'
    BY <1>3 DEF SendWelcome
  <1>4. ASSUME NEW c \in Client, LookupPeer(c) PROVE Registry'
    BY <1>4 DEF LookupPeer
  <1>5. ASSUME NEW c \in Client, SendStatus(c) PROVE Registry'
    <2>1. told'[c].by # "hub" /\ \A x \in Client \ {c} : told'[x] = told[x]
      BY Zenon, <1>5 DEF SendStatus, SendPeerStatus
    <2> QED BY <1>5, <2>1 DEF SendStatus
  <1>6. ASSUME NEW c \in Client, StartPumps(c) PROVE Registry'
    BY <1>6 DEF StartPumps
  <1>7. ASSUME NEW c \in Client, ReadBinary(c) PROVE Registry'
    <2>1. \A x \in Client : pc'[x] \in {"idle", "register"} <=> pc[x] \in {"idle", "register"}
      BY <1>7 DEF ReadBinary
    <2>2. UNCHANGED <<clients, register, told>>
      BY Zenon, <1>7 DEF ReadBinary
    <2>3. Elements(register) \subseteq Client
      BY Zenon, ElementsType
    <2> QED BY Zenon, <2>1, <2>2, <2>3
  <1>8. ASSUME NEW c \in Client, RouteDeliver(c) PROVE Registry'
    BY <1>8 DEF RouteDeliver
  <1>9. ASSUME NEW c \in Client, RouteEvict(c) PROVE Registry'
    BY <1>9 DEF RouteEvict
  <1>10. ASSUME NEW c \in Client, SendEvicted(c) PROVE Registry'
    BY <1>10 DEF SendEvicted
  <1>11. ASSUME NEW c \in Client, ReadError(c) PROVE Registry'
    BY <1>11 DEF ReadError
  <1>12. ASSUME NEW c \in Client, SocketLost(c) PROVE Registry'
    BY <1>12 DEF SocketLost
  <1>13. ASSUME NEW c \in Client, SendUnregister(c) PROVE Registry'
    BY <1>13 DEF SendUnregister
  <1>14. ASSUME NEW c \in Client, CloseSelf(c) PROVE Registry'
    BY <1>14 DEF CloseSelf
  <1>15. ASSUME NEW c \in Client, WriteFrame(c) PROVE Registry'
    BY Zenon, <1>15 DEF WriteFrame
  <1>16. ASSUME HubRegister PROVE Registry'
    <2> DEFINE c == Head(register)
               e == DeviceOf(c)
    <2>1. /\ Elements(register) = {c} \cup Elements(register')
          /\ c \notin Elements(register')
          /\ Once(register')
      BY Zenon, <1>16, ElementsTail, OnceTail DEF HubRegister
    <2>2. c \in Client /\ e \in DeviceID
      BY <1>16 DEF HubRegister
    <2>3. clients' = [clients EXCEPT ![e] = c] /\ UNCHANGED <<pc, told>>
      BY Zenon, <1>16 DEF HubRegister
    <2> HIDE DEF c
    <2>4. OwnClients'
      BY Zenon, <2>2, <2>3
    <2>5. RegisterOnce'
      BY Zenon, <2>1, <2>3
    <2>6. UnregisteredUnknown'
      <3> SUFFICES ASSUME NEW x \in Client, Unregistered(x)'
                   PROVE  clients'[DeviceOf(x)] # x /\ told'[x].by # "hub"
        OBVIOUS
      <3>1. Unregistered(x) /\ x # c
        BY Zenon, <2>1, <2>3
      <3> QED BY Zenon, <2>2, <2>3, <3>1
    <2> QED BY Zenon, <2>4, <2>5, <2>6
  <1>17. ASSUME HubUnregister PROVE Registry'
    <2> DEFINE e == DeviceOf(Head(unregister))
    <2>1. e \in DeviceID
      BY <1>17 DEF HubUnregister
    <2>2. \A d \in DeviceID : clients'[d] = clients[d] \/ clients'[d] = NULL
      BY Zenon, <1>17, <2>1 DEF HubUnregister
    <2>3. UNCHANGED <<register, pc, told>>
      BY Zenon, <1>17 DEF HubUnregister
    <2> QED BY Zenon, <2>2, <2>3
  <1>18. ASSUME HubNotify PROVE Registry'
    <2>1. UNCHANGED <<clients, register, pc>>
      BY Zenon, <1>18 DEF HubNotify
    <2>2. \A x \in Client : clients[DeviceOf(x)] # x => told'[x] = told[x]
      <3> DEFINE p == Peer[notice.about]
      <3>1. p \in DeviceID
        BY <1>18 DEF HubNotify, NoticeTrue, Notice
      <3>2. \A x \in Client : x # clients[p] => told'[x] = told[x]
        BY Zenon, <1>18 DEF HubNotify, SendPeerStatus
      <3>3. clients[p] # NULL => DeviceOf(clients[p]) = p
        BY Zenon, <3>1
      <3> HIDE DEF p
      <3> QED BY <3>2, <3>3
    <2> QED BY Zenon, <2>1, <2>2
  <1>19. ASSUME UNCHANGED vars PROVE Registry'
    BY Zenon, <1>19 DEF vars
  <1> QED
    BY Zenon, <1>1, <1>2, <1>3, <1>4, <1>5, <1>6, <1>7, <1>8, <1>9, <1>10,
       <1>11, <1>12, <1>13, <1>14, <1>15, <1>16, <1>17, <1>18, <1>19
       DEF Next, HandlerStep, Environment

(* Those who are to be unregistered.                                       *)
LEMMA LeaversStep ==
    TypeOK /\ Leavers /\ [Next]_vars
        => Leavers'
  <1> SUFFICES ASSUME TypeOK, Leavers, [Next]_vars PROVE Leavers'
    OBVIOUS
  <1> USE ClientDevice, NullAssumption, PeerAssumption
          DEF hubVars, routeVars, Goto, TypeOK, Leavers, UnregisterLeaves,
              RouteTargets
  <1>1. ASSUME NEW c \in Client, Connect(c) PROVE Leavers'
    BY <1>1 DEF Connect
  <1>2. ASSUME NEW c \in Client, SendRegister(c) PROVE Leavers'
    BY <1>2 DEF SendRegister
  <1>3. ASSUME NEW c \in Client, SendWelcome(c) PROVE Leavers'
    BY <1>3 DEF SendWelcome
  <1>4. ASSUME NEW c \in Client, LookupPeer(c) PROVE Leavers'
    BY <1>4 DEF LookupPeer
  <1>5. ASSUME NEW c \in Client, SendStatus(c) PROVE Leavers'
    BY <1>5 DEF SendStatus
  <1>6. ASSUME NEW c \in Client, StartPumps(c) PROVE Leavers'
    BY <1>6 DEF StartPumps
  <1>7. ASSUME NEW c \in Client, ReadBinary(c) PROVE Leavers'
    <2>1. CASE PeerOf(c) # NULL /\ clients[PeerOf(c)] # NULL
      <3>1. clients[PeerOf(c)] \in Client
        BY <2>1 DEF PeerOf
      <3>2. /\ target' = [target EXCEPT ![c] = clients[PeerOf(c)]]
            /\ pc' = [pc EXCEPT ![c] = "route"] /\ pc[c] = "read"
            /\ UNCHANGED <<unregister, closed>>
        BY Zenon, <1>7, <2>1 DEF ReadBinary
      <3>3. UnregisterLeaves'
        BY <3>2
      <3>4. \A x \in Client : x # c => pc'[x] = pc[x] /\ target'[x] = target[x]
        BY Zenon, <3>2
      <3>5. pc'[c] = "route" /\ target'[c] \in Client
        BY Zenon, <3>1, <3>2
      <3>6. RouteTargets'
        <4> SUFFICES ASSUME NEW x \in Client
                     PROVE  /\ pc'[x] \in {"route", "evict"} =>
                                  target'[x] \in Client /\ PeerOf(x) # NULL
                            /\ pc'[x] = "evict" => closed'[target'[x]]
          OBVIOUS
        <4>1. CASE x = c
          BY Zenon, <2>1, <3>5, <4>1
        <4>2. CASE x # c
          BY Zenon, <3>2, <3>4, <4>2
        <4> QED BY Zenon, <4>1, <4>2
      <3> QED BY Zenon, <3>3, <3>6
    <2>2. CASE ~(PeerOf(c) # NULL /\ clients[PeerOf(c)] # NULL)
      BY Zenon, <1>7, <2>2 DEF ReadBinary
    <2> QED BY Zenon, <2>1, <2>2
  <1>8. ASSUME NEW c \in Client, RouteDeliver(c) PROVE Leavers'
    BY <1>8 DEF RouteDeliver
  <1>9. ASSUME NEW c \in Client, RouteEvict(c) PROVE Leavers'
    <2>1. target[c] \in Client
      BY Zenon, <1>9 DEF RouteEvict
    <2>2. /\ closed' = [closed EXCEPT ![target[c]] = TRUE]
          /\ pc' = [pc EXCEPT ![c] = "evict"] /\ pc[c] = "route"
          /\ UNCHANGED <<unregister, target>>
      BY Zenon, <1>9 DEF RouteEvict, Close
    <2>3. closed'[target[c]] /\ \A x \in Client : closed[x] => closed'[x]
      BY Zenon, <2>1, <2>2
    <2>4. \A x \in Client : x # c => pc'[x] = pc[x]
      BY Zenon, <2>2
    <2>5. UnregisterLeaves'
      BY Zenon, <2>2, <2>3, ElementsType
    <2>6. RouteTargets'
      <3>1. target' = target /\ pc[c] = "route" /\ pc'[c] = "evict"
        BY Zenon, <2>2
      <3>2. PeerOf(c) # NULL
        BY Zenon, <3>1
      <3>3. \A x \in Client : x # c => pc'[x] = pc[x] /\ target'[x] = target[x]
        BY Zenon, <2>4, <3>1
      <3>4. \A x \in Client : pc[x] = "evict" => closed'[target[x]]
        BY Zenon, <2>3
      <3> SUFFICES ASSUME NEW x \in Client
                   PROVE  /\ pc'[x] \in {"route", "evict"} =>
                                target'[x] \in Client /\ PeerOf(x) # NULL
                          /\ pc'[x] = "evict" => closed'[target'[x]]
        OBVIOUS
      <3>5. CASE x = c
        BY Zenon, <2>1, <2>3, <3>1, <3>2, <3>5
      <3>6. CASE x # c
        BY Zenon, <3>1, <3>3, <3>4, <3>6
      <3> QED BY Zenon, <3>5, <3>6
    <2> QED BY Zenon, <2>5, <2>6
  <1>10. ASSUME NEW c \in Client, SendEvicted(c) PROVE Leavers'
    <2>1. target[c] \in Client /\ closed[target[c]]
      BY Zenon, <1>10 DEF SendEvicted
    <2>2. Elements(unregister') = Elements(unregister) \cup {target[c]}
      BY <1>10, <2>1, ElementsAppend DEF SendEvicted
    <2>3. /\ target' = [target EXCEPT ![c] = NULL]
          /\ pc' = [pc EXCEPT ![c] = "read"] /\ pc[c] = "evict"
          /\ closed' = closed
      BY Zenon, <1>10 DEF SendEvicted
    <2>4. /\ pc'[c] = "read"
          /\ \A x \in Client : x # c => pc'[x] = pc[x] /\ target'[x] = target[x]
      BY Zenon, <2>3
    <2>5. UnregisterLeaves'
      BY <2>1, <2>2, <2>3, <2>4, ElementsType
    <2>6. RouteTargets'
      BY Zenon, <2>3, <2>4
    <2> QED BY Zenon, <2>5, <2>6
  <1>11. ASSUME NEW c \in Client, ReadError(c) PROVE Leavers'
    BY <1>11 DEF ReadError
  <1>12. ASSUME NEW c \in Client, SocketLost(c) PROVE Leavers'
    BY <1>12 DEF SocketLost
  <1>13. ASSUME NEW c \in Client, SendUnregister(c) PROVE Leavers'
    <2>1. Elements(unregister') = Elements(unregister) \cup {c}
      BY <1>13, ElementsAppend DEF SendUnregister
    <2> QED BY <1>13, <2>1 DEF SendUnregister
  <1>14. ASSUME NEW c \in Client, CloseSelf(c) PROVE Leavers'
    BY <1>14 DEF CloseSelf, Close
  <1>15. ASSUME NEW c \in Client, WriteFrame(c) PROVE Leavers'
    BY Zenon, <1>15 DEF WriteFrame
  <1>16. ASSUME HubRegister PROVE Leavers'
    <2>1. UNCHANGED <<unregister, pc, target>>
      BY Zenon, <1>16 DEF HubRegister, routeVars
    <2> DEFINE old == clients[DeviceOf(Head(register))]
    <2>2. \A x \in Client : closed[x] => closed'[x]
      <3>1. closed' = closed \/ closed' = [closed EXCEPT ![old] = TRUE]
        BY Zenon, <1>16 DEF HubRegister, Close
      <3>2. closed \in [Client -> BOOLEAN]
        OBVIOUS
      <3> HIDE DEF old
      <3> QED BY ONLY Zenon, <3>1, <3>2
    <2>3. Elements(unregister) \subseteq Client
      BY Zenon, ElementsType
    <2>4. UnregisterLeaves'
      BY Zenon, <2>1, <2>2, <2>3
    <2>5. RouteTargets'
      BY Zenon, <2>1, <2>2
    <2> QED BY Zenon, <2>4, <2>5
  <1>17. ASSUME HubUnregister PROVE Leavers'
    <2>1. Elements(unregister') \subseteq Elements(unregister)
      BY <1>17, ElementsTail DEF HubUnregister
    <2> QED BY Zenon, <1>17, <2>1 DEF HubUnregister
  <1>18. ASSUME HubNotify PROVE Leavers'
    BY Zenon, <1>18 DEF HubNotify
  <1>19. ASSUME UNCHANGED vars PROVE Leavers'
    BY Zenon, <1>19 DEF vars
  <1> QED
    BY Zenon, <1>1, <1>2, <1>3, <1>4, <1>5, <1>6, <1>7, <1>8, <1>9, <1>10,
       <1>11, <1>12, <1>13, <1>14, <1>15, <1>16, <1>17, <1>18, <1>19
       DEF Next, HandlerStep, Environment

(* The clients that are served: the Hub takes only leavers out of the      *)
(* registry, and closes what it replaces.                                  *)
LEMMA ServedStep ==
    TypeOK /\ Leavers /\ ServedClientIsCurrent /\ [Next]_vars
        => ServedClientIsCurrent'
  <1> SUFFICES ASSUME TypeOK, Leavers, ServedClientIsCurrent, [Next]_vars PROVE ServedClientIsCurrent'
    OBVIOUS
  <1> USE ClientDevice, NullAssumption
          DEF hubVars, routeVars, Goto, TypeOK, Leavers, Welcoming, Pumping,
              ServedClientIsCurrent
  <1>1. ASSUME NEW c \in Client, Connect(c) PROVE ServedClientIsCurrent'
    BY Zenon, <1>1 DEF Connect
  <1>2. ASSUME NEW c \in Client, SendRegister(c) PROVE ServedClientIsCurrent'
    <2>1. Elements(register') = Elements(register) \cup {c}
      BY <1>2, ElementsAppend DEF SendRegister
    <2> QED BY Zenon, <1>2, <2>1 DEF SendRegister
  <1>3. ASSUME NEW c \in Client, SendWelcome(c) PROVE ServedClientIsCurrent'
    BY Zenon, <1>3 DEF SendWelcome
  <1>4. ASSUME NEW c \in Client, LookupPeer(c) PROVE ServedClientIsCurrent'
    BY Zenon, <1>4 DEF LookupPeer
  <1>5. ASSUME NEW c \in Client, SendStatus(c) PROVE ServedClientIsCurrent'
    BY Zenon, <1>5 DEF SendStatus
  <1>6. ASSUME NEW c \in Client, StartPumps(c) PROVE ServedClientIsCurrent'
    BY Zenon, <1>6 DEF StartPumps
  <1>7. ASSUME NEW c \in Client, ReadBinary(c) PROVE ServedClientIsCurrent'
    BY Zenon, <1>7 DEF ReadBinary
  <1>8. ASSUME NEW c \in Client, RouteDeliver(c) PROVE ServedClientIsCurrent'
    BY Zenon, <1>8 DEF RouteDeliver
  <1>9. ASSUME NEW c \in Client, RouteEvict(c) PROVE ServedClientIsCurrent'
    <2>1. target[c] \in Client
      BY Zenon, <1>9 DEF RouteEvict, RouteTargets
    <2> QED BY Zenon, <1>9, <2>1 DEF RouteEvict, Close
  <1>10. ASSUME NEW c \in Client, SendEvicted(c) PROVE ServedClientIsCurrent'
    BY Zenon, <1>10 DEF SendEvicted
  <1>11. ASSUME NEW c \in Client, ReadError(c) PROVE ServedClientIsCurrent'
    BY Zenon, <1>11 DEF ReadError
  <1>12. ASSUME NEW c \in Client, SocketLost(c) PROVE ServedClientIsCurrent'
    BY Zenon, <1>12 DEF SocketLost
  <1>13. ASSUME NEW c \in Client, SendUnregister(c) PROVE ServedClientIsCurrent'
    BY Zenon, <1>13 DEF SendUnregister
  <1>14. ASSUME NEW c \in Client, CloseSelf(c) PROVE ServedClientIsCurrent'
    BY Zenon, <1>14 DEF CloseSelf, Close
  <1>15. ASSUME NEW c \in Client, WriteFrame(c) PROVE ServedClientIsCurrent'
    BY Zenon, <1>15 DEF WriteFrame
  <1>16. ASSUME HubRegister PROVE ServedClientIsCurrent'
    <2> DEFINE c == Head(register)
               old == clients[DeviceOf(c)]
    <2>1. Elements(register) = {c} \cup Elements(register')
      BY Zenon, <1>16, ElementsTail DEF HubRegister
    <2>2. c \in Client /\ DeviceOf(c) \in DeviceID
      BY <1>16 DEF HubRegister
    <2>3. clients' = [clients EXCEPT ![DeviceOf(c)] = c] /\ UNCHANGED pc
      BY Zenon, <1>16 DEF HubRegister
    <2>4. /\ \A x \in Client : closed[x] => closed'[x]
          /\ \A x \in Client : x = old => closed'[x]
      BY Zenon, <1>16 DEF HubRegister, Close
    <2> HIDE DEF c
    <2> QED BY Zenon, <2>1, <2>2, <2>3, <2>4
  <1>17. ASSUME HubUnregister PROVE ServedClientIsCurrent'
    <2> DEFINE c == Head(unregister)
    <2>1. c \in Client /\ c \in Elements(unregister) /\ DeviceOf(c) \in DeviceID
      BY <1>17, ElementsTail DEF HubUnregister
    <2>2. closed[c] \/ pc[c] \in {"close", "done"}
      BY Zenon, <2>1 DEF UnregisterLeaves
    <2>3. UNCHANGED <<register, pc, closed>>
      BY Zenon, <1>17 DEF HubUnregister
    <2>4. \A d \in DeviceID : clients'[d] = clients[d] \/ clients[d] = c
      BY Zenon, <1>17, <2>1 DEF HubUnregister
    <2> HIDE DEF c
    <2> QED BY Zenon, <2>2, <2>3, <2>4
  <1>18. ASSUME HubNotify PROVE ServedClientIsCurrent'
    BY Zenon, <1>18 DEF HubNotify
  <1>19. ASSUME UNCHANGED vars PROVE ServedClientIsCurrent'
    BY Zenon, <1>19 DEF vars
  <1> QED
    BY Zenon, <1>1, <1>2, <1>3, <1>4, <1>5, <1>6, <1>7, <1>8, <1>9, <1>10,
       <1>11, <1>12, <1>13, <1>14, <1>15, <1>16, <1>17, <1>18, <1>19
       DEF Next, HandlerStep, Environment

(* What the Hub says: a change of the registry and the notice about it are *)
(* one step, and no other change comes before the notice is sent.          *)
LEMMA ToldStep ==
    TypeOK /\ Registry /\ Telling /\ [Next]_vars
        => Telling'
  <1> SUFFICES ASSUME TypeOK, Registry, Telling, [Next]_vars PROVE Telling'
    OBVIOUS
  <1> USE ClientDevice, NullAssumption, PeerAssumption
          DEF hubVars, routeVars, Goto, TypeOK, Registry, Telling, NoticeTrue,
              HubToldTrue
  <1>1. ASSUME NEW c \in Client, Connect(c) PROVE Telling'
    BY Zenon, <1>1 DEF Connect
  <1>2. ASSUME NEW c \in Client, SendRegister(c) PROVE Telling'
    BY Zenon, <1>2 DEF SendRegister
  <1>3. ASSUME NEW c \in Client, SendWelcome(c) PROVE Telling'
    BY Zenon, <1>3 DEF SendWelcome
  <1>4. ASSUME NEW c \in Client, LookupPeer(c) PROVE Telling'
    BY Zenon, <1>4 DEF LookupPeer
  <1>5. ASSUME NEW c \in Client, SendStatus(c) PROVE Telling'
    <2>1. told'[c].by # "hub" /\ \A x \in Client \ {c} : told'[x] = told[x]
      BY Zenon, <1>5 DEF SendStatus, SendPeerStatus
    <2>2. UNCHANGED <<clients, notice>>
      BY Zenon, <1>5 DEF SendStatus
    <2>3. \A d \in DeviceID : clients[d] # NULL => clients[d] \in Client
      OBVIOUS
    <2>4. \A d \in DeviceID :
            clients[d] # NULL /\ told'[clients[d]].by = "hub"
                => told'[clients[d]] = told[clients[d]]
      BY Zenon, <2>1, <2>3
    <2> QED BY <2>2, <2>4
  <1>6. ASSUME NEW c \in Client, StartPumps(c) PROVE Telling'
    BY Zenon, <1>6 DEF StartPumps
  <1>7. ASSUME NEW c \in Client, ReadBinary(c) PROVE Telling'
    BY Zenon, <1>7 DEF ReadBinary
  <1>8. ASSUME NEW c \in Client, RouteDeliver(c) PROVE Telling'
    BY Zenon, <1>8 DEF RouteDeliver
  <1>9. ASSUME NEW c \in Client, RouteEvict(c) PROVE Telling'
    BY Zenon, <1>9 DEF RouteEvict
  <1>10. ASSUME NEW c \in Client, SendEvicted(c) PROVE Telling'
    BY Zenon, <1>10 DEF SendEvicted
  <1>11. ASSUME NEW c \in Client, ReadError(c) PROVE Telling'
    BY Zenon, <1>11 DEF ReadError
  <1>12. ASSUME NEW c \in Client, SocketLost(c) PROVE Telling'
    BY Zenon, <1>12 DEF SocketLost
  <1>13. ASSUME NEW c \in Client, SendUnregister(c) PROVE Telling'
    BY Zenon, <1>13 DEF SendUnregister
  <1>14. ASSUME NEW c \in Client, CloseSelf(c) PROVE Telling'
    BY Zenon, <1>14 DEF CloseSelf
  <1>15. ASSUME NEW c \in Client, WriteFrame(c) PROVE Telling'
    BY Zenon, <1>15 DEF WriteFrame
  <1>16. ASSUME HubRegister PROVE Telling'
    <2> DEFINE c == Head(register)
               e == DeviceOf(c)
    <2>5. c \in Client /\ e \in DeviceID
      <3> HIDE DEF TypeOK
      <3> QED BY Zenon, <1>16, ReceiveType
    <2>6. c \in Elements(register)
      BY Zenon, <1>16, ElementsTail DEF HubRegister
    <2>1. c \in Client /\ e \in DeviceID /\ told[c].by # "hub"
      BY Zenon, <2>5, <2>6 DEF UnregisteredUnknown, Unregistered
    <2>2. /\ clients' = [clients EXCEPT ![e] = c] /\ UNCHANGED told
          /\ notice = NULL
          /\ notice' = IF Peer[e] = NULL THEN NULL ELSE [about |-> e, online |-> TRUE]
      BY Zenon, <1>16 DEF HubRegister, PeerOf
    <2> HIDE DEF c, e
    <2>3. NoticeTrue'
      BY Zenon, <2>1, <2>2
    <2>4. HubToldTrue'
      <3> SUFFICES ASSUME NEW d \in DeviceID, clients'[d] # NULL,
                          told'[clients'[d]].by = "hub"
                   PROVE  /\ Peer[d] # NULL
                          /\ \/ notice' # NULL /\ notice'.about = Peer[d]
                             \/ told'[clients'[d]].online = (clients'[Peer[d]] # NULL)
        OBVIOUS
      <3>1. d # e /\ clients'[d] = clients[d]
        BY Zenon, <2>1, <2>2
      <3>2. Peer[d] \in DeviceID /\ told[clients[d]].online = (clients[Peer[d]] # NULL)
        BY <2>2, <3>1
      <3>3. CASE Peer[d] = e
        <4>1. Peer[e] # NULL
          BY Zenon, <2>1, <3>3, PeerLinked
        <4>2. notice' = [about |-> e, online |-> TRUE] /\ notice' # NULL
          BY Zenon, <2>1, <2>2, <4>1, NoticeNotNull
        <4> QED BY Zenon, <3>2, <3>3, <4>2
      <3>4. CASE Peer[d] # e
        <4>1. clients'[Peer[d]] = clients[Peer[d]]
          BY Zenon, <2>1, <2>2, <3>2, <3>4
        <4> QED BY Zenon, <2>2, <3>1, <3>2, <4>1
      <3> QED BY Zenon, <3>3, <3>4
    <2> QED BY Zenon, <2>3, <2>4
  <1>17. ASSUME HubUnregister PROVE Telling'
    <2> DEFINE e == DeviceOf(Head(unregister))
    <2>1. e \in DeviceID
      <3>1. Head(unregister) \in Client
        BY Zenon, <1>17, ElementsTail, ElementsType DEF HubUnregister
      <3> QED BY Zenon, <3>1
    <2>2. notice = NULL /\ UNCHANGED told
      BY Zenon, <1>17 DEF HubUnregister
    <2>3. CASE clients[e] # Head(unregister)
      <3>1. UNCHANGED <<clients, notice>>
        BY Zenon, <1>17, <2>3 DEF HubUnregister
      <3> QED BY Zenon, <2>2, <3>1
    <2>4. CASE clients[e] = Head(unregister)
      <3>1. /\ clients' = [clients EXCEPT ![e] = NULL]
            /\ notice' = IF Peer[e] # NULL THEN [about |-> e, online |-> FALSE] ELSE NULL
        BY Zenon, <1>17, <2>4 DEF HubUnregister, PeerOf
      <3> HIDE DEF e
      <3>2. NoticeTrue'
        BY Zenon, <2>1, <3>1
      <3>3. HubToldTrue'
        <4> SUFFICES ASSUME NEW d \in DeviceID, clients'[d] # NULL,
                            told'[clients'[d]].by = "hub"
                     PROVE  /\ Peer[d] # NULL
                            /\ \/ notice' # NULL /\ notice'.about = Peer[d]
                               \/ told'[clients'[d]].online = (clients'[Peer[d]] # NULL)
          OBVIOUS
        <4>1. d # e /\ clients'[d] = clients[d]
          BY Zenon, <2>1, <3>1
        <4>2. Peer[d] \in DeviceID /\ told[clients[d]].online = (clients[Peer[d]] # NULL)
          BY <2>2, <4>1
        <4>3. CASE Peer[d] = e
          <5>1. Peer[e] # NULL
            BY Zenon, <2>1, <4>3, PeerLinked
          <5>2. notice' = [about |-> e, online |-> FALSE] /\ notice' # NULL
            BY Zenon, <2>1, <3>1, <5>1, NoticeNotNull
          <5> QED BY Zenon, <4>2, <4>3, <5>2
        <4>4. CASE Peer[d] # e
          <5>1. clients'[Peer[d]] = clients[Peer[d]]
            BY Zenon, <2>1, <3>1, <4>2, <4>4
          <5> QED BY Zenon, <2>2, <4>1, <4>2, <5>1
        <4> QED BY Zenon, <4>3, <4>4
      <3> QED BY Zenon, <3>2, <3>3
    <2> QED BY Zenon, <2>3, <2>4
  <1>18. ASSUME HubNotify PROVE Telling'
    <2> DEFINE e == notice.about
               p == Peer[e]
               c == clients[p]
    <2>1. /\ e \in DeviceID /\ p \in DeviceID /\ Peer[p] = e
          /\ notice.online = (clients[e] # NULL)
      BY <1>18 DEF HubNotify, Notice
    <2>2. notice' = NULL /\ notice # NULL /\ UNCHANGED clients
      BY Zenon, <1>18 DEF HubNotify
    <2>3. \A x \in Client : x # c => told'[x] = told[x]
      BY Zenon, <1>18 DEF HubNotify, SendPeerStatus
    <2>4. c # NULL => c \in Client
      BY Zenon, <2>1
    <2>5. c # NULL => \E by \in {"hub", "dropped"} :
              told' = [told EXCEPT ![c] = [online |-> notice.online, by |-> by]]
      BY Zenon, <1>18 DEF HubNotify, SendPeerStatus
    <2>6. DOMAIN told = Client
      OBVIOUS
    <2>7. c # NULL /\ told'[c].by = "hub" => told'[c].online = notice.online
      <3> HIDE DEF c
      <3> QED BY ONLY <2>4, <2>5, <2>6
    <2>8. c # NULL => DeviceOf(c) = p
      BY Zenon, <2>1 DEF OwnClients
    <2> HIDE DEF e
    <2>9. \A d \in DeviceID : clients[d] # NULL /\ d # p => clients[d] # c /\ Peer[d] # e
      BY Zenon, <2>1, <2>8 DEF OwnClients
    <2>10. HubToldTrue'
      <3> SUFFICES ASSUME NEW d \in DeviceID, clients[d] # NULL,
                          told'[clients[d]].by = "hub"
                   PROVE  /\ Peer[d] # NULL
                          /\ told'[clients[d]].online = (clients[Peer[d]] # NULL)
        BY Zenon, <2>2
      <3>1. CASE d = p
        BY Zenon, <2>1, <2>7, <3>1
      <3>2. CASE d # p
        <4>1. clients[d] # c /\ Peer[d] # e
          BY Zenon, <2>9, <3>2
        <4>2. told'[clients[d]] = told[clients[d]]
          BY <2>3, <4>1
        <4> QED BY Zenon, <4>1, <4>2 DEF e
      <3> QED BY Zenon, <3>1, <3>2
    <2> QED BY Zenon, <2>2, <2>10
  <1>19. ASSUME UNCHANGED vars PROVE Telling'
    BY Zenon, <1>19 DEF vars
  <1> QED
    BY Zenon, <1>1, <1>2, <1>3, <1>4, <1>5, <1>6, <1>7, <1>8, <1>9, <1>10,
       <1>11, <1>12, <1>13, <1>14, <1>15, <1>16, <1>17, <1>18, <1>19
       DEF Next, HandlerStep, Environment

-----------------------------------------------------------------------------
(* The inductive invariant holds of every behaviour of the Hub.            *)
THEOREM HubInvariant == Spec => []IInv
  <1>1. IInv /\ [Next]_vars => IInv'
    BY Zenon, TypeStep, RegistryStep, LeaversStep, ServedStep, ToldStep
       DEF IInv, Leavers, Telling
  <1> QED BY <1>1, InitEstablishes, PTL DEF Spec

(* The Hub's channels, registry and clients keep their types, and its      *)
(* channels their capacities.                                              *)
THEOREM HubTypeOK == Spec => []TypeOK
  <1>1. IInv => TypeOK
    BY Zenon DEF IInv
  <1> QED BY <1>1, HubInvariant, PTL

(* A reconnecting device is never reported offline (hub.go, Unregister).   *)
THEOREM HubNoSpuriousOffline == Spec => []NoSpuriousOffline
  <1>1. IInv => NoSpuriousOffline
    BY Zenon DEF IInv, Telling, NoticeTrue, NoSpuriousOffline
  <1> QED BY <1>1, HubInvariant, PTL

(* A registered client that was not closed stays its device's current one  *)
(* until its handler leaves, so Route reaches it.                          *)
THEOREM HubServedClientIsCurrent == Spec => []ServedClientIsCurrent
  <1>1. IInv => ServedClientIsCurrent
    BY Zenon DEF IInv
  <1> QED BY <1>1, HubInvariant, PTL

(* The last peer_status of the Hub to a connected client is true once the  *)
(* notice of the Hub's last change is sent (hub.go, notifyPeerStatus).     *)
THEOREM HubStatusTrue == Spec => []HubStatusAccurate
  <1>1. IInv => HubStatusAccurate
    BY Zenon DEF IInv, Telling, HubToldTrue, HubStatusAccurate
  <1> QED BY <1>1, HubInvariant, PTL

-----------------------------------------------------------------------------
(* The order of frames.  What was queued for a device had been read from   *)
(* its sender, and the frame that Route carries is later than everything   *)
(* queued from the same connection.                                        *)
ArrivedRead ==
    \A d \in DeviceID : \A i \in DOMAIN arrived[d] :
        arrived[d][i][2] <= frames[DeviceOf(arrived[d][i][1])]
CarriedLast ==
    \A c \in Client :
        pc[c] = "route" =>
            /\ carrying[c] <= frames[DeviceOf(c)]
            /\ \A i \in DOMAIN arrived[PeerOf(c)] :
                   arrived[PeerOf(c)][i][1] = c => arrived[PeerOf(c)][i][2] < carrying[c]

FramesInv == ArrivedRead /\ CarriedLast /\ FramesInOrder

(* Nothing has been read at the start.                                     *)
LEMMA FramesInit == Init => FramesInv
BY DEF Init, FramesInv, ArrivedRead, CarriedLast, FramesInOrder

(* A step that reads no frame and queues none starts no Route either.      *)
LEMMA FramesIdle ==
    ASSUME FramesInv, TypeOK, RouteTargets, UNCHANGED <<frames, arrived>>,
           \A c \in Client : pc'[c] = "route" => pc[c] = "route" /\ carrying'[c] = carrying[c]
    PROVE  FramesInv'
<1>1. ArrivedRead' /\ FramesInOrder'
  BY Zenon DEF FramesInv, ArrivedRead, FramesInOrder
<1>2. CarriedLast'
  BY Zenon DEF FramesInv, CarriedLast
<1> QED BY Zenon, <1>1, <1>2 DEF FramesInv

(* readPump reads a frame: it is later than what was queued.               *)
LEMMA FramesRead ==
    ASSUME FramesInv, TypeOK, NEW c \in Client, ReadBinary(c)
    PROVE  FramesInv'
<1> DEFINE d == DeviceOf(c)
<1>1. d \in DeviceID /\ frames[d] \in Nat /\ frames \in [DeviceID -> Nat]
  BY Zenon, ClientDevice DEF TypeOK
<1>2. frames' = [frames EXCEPT ![d] = frames[d] + 1] /\ arrived' = arrived
  BY Zenon DEF ReadBinary
<1>3. \A x \in Client : DeviceOf(x) \in DeviceID /\ frames[DeviceOf(x)] \in Nat
                        /\ carrying[x] \in Nat
  BY Zenon, ClientDevice DEF TypeOK
<1>4. \A e \in DeviceID : \A i \in DOMAIN arrived[e] :
          arrived[e][i][1] \in Client /\ arrived[e][i][2] \in Nat
  BY DEF TypeOK, Arrival
<1>5. \A x \in Client : frames[DeviceOf(x)] <= frames'[DeviceOf(x)]
  BY <1>1, <1>2, <1>3
<1>6. ArrivedRead'
  <2> SUFFICES ASSUME NEW e \in DeviceID, NEW i \in DOMAIN arrived[e]
               PROVE  arrived[e][i][2] <= frames'[DeviceOf(arrived[e][i][1])]
    BY Zenon, <1>2 DEF ArrivedRead
  <2> DEFINE x == arrived[e][i][1]
             n == arrived[e][i][2]
  <2>1. x \in Client /\ n \in Nat /\ n <= frames[DeviceOf(x)]
    BY Zenon, <1>4 DEF FramesInv, ArrivedRead
  <2>2. frames[DeviceOf(x)] <= frames'[DeviceOf(x)] /\ frames[DeviceOf(x)] \in Nat
        /\ frames'[DeviceOf(x)] \in Nat
    BY <1>1, <1>2, <1>3, <1>5, <2>1
  <2> HIDE DEF x, n
  <2>3. n <= frames'[DeviceOf(x)]
    BY <2>1, <2>2
  <2> QED BY Zenon, <2>3 DEF x, n
<1>7. CarriedLast'
  <2> SUFFICES ASSUME NEW x \in Client, pc'[x] = "route"
               PROVE  /\ carrying'[x] <= frames'[DeviceOf(x)]
                      /\ \A i \in DOMAIN arrived[PeerOf(x)] :
                             arrived[PeerOf(x)][i][1] = x =>
                                 arrived[PeerOf(x)][i][2] < carrying'[x]
    BY Zenon, <1>2 DEF CarriedLast
  <2>1. CASE x = c
    <3>1. /\ pc[c] = "read" /\ PeerOf(c) # NULL
          /\ carrying' = [carrying EXCEPT ![c] = frames[d] + 1]
      BY Zenon, <2>1 DEF ReadBinary, TypeOK
    <3>2. carrying'[c] = frames[d] + 1 /\ frames'[d] = frames[d] + 1
      BY Zenon, <1>1, <1>2, <3>1 DEF TypeOK
    <3>3. PeerOf(c) \in DeviceID
      BY Zenon, <1>1, <3>1, PeerAssumption DEF PeerOf
    <3>4. ASSUME NEW i \in DOMAIN arrived[PeerOf(c)], arrived[PeerOf(c)][i][1] = c
          PROVE  arrived[PeerOf(c)][i][2] < frames[d] + 1
      <4>1. arrived[PeerOf(c)][i][2] <= frames[d]
        BY Zenon, <3>3, <3>4 DEF FramesInv, ArrivedRead
      <4> QED BY <1>1, <1>4, <3>3, <4>1
    <3> QED BY <1>1, <2>1, <3>2, <3>4
  <2>2. CASE x # c
    <3>1. pc[x] = "route" /\ carrying'[x] = carrying[x]
      BY Zenon, <2>2 DEF ReadBinary, TypeOK
    <3>2. carrying[x] <= frames[DeviceOf(x)]
      BY Zenon, <3>1 DEF FramesInv, CarriedLast
    <3>3. frames'[DeviceOf(x)] \in Nat
      BY <1>1, <1>2, <1>3
    <3> QED BY <1>3, <1>5, <3>1, <3>2, <3>3 DEF FramesInv, CarriedLast
  <2> QED BY Zenon, <2>1, <2>2
<1>8. FramesInOrder'
  BY Zenon, <1>2 DEF FramesInv, FramesInOrder
<1> QED BY Zenon, <1>6, <1>7, <1>8 DEF FramesInv

(* Route queues the frame it carries behind the earlier ones.              *)
LEMMA FramesDeliver ==
    ASSUME FramesInv, TypeOK, RouteTargets, NEW c \in Client, RouteDeliver(c)
    PROVE  FramesInv'
<1> DEFINE p == PeerOf(c)
           new == <<c, carrying[c]>>
           old == arrived[p]
<1>1. /\ p \in DeviceID /\ old \in Seq(Arrival) /\ new \in Arrival
      /\ new[1] = c /\ new[2] = carrying[c]
  BY Zenon, ClientDevice, PeerAssumption DEF RouteDeliver, Goto, RouteTargets, PeerOf, TypeOK,
     Arrival
<1>2. /\ arrived' = [arrived EXCEPT ![p] = Append(old, new)] /\ frames' = frames
      /\ pc[c] = "route"
  BY Zenon DEF RouteDeliver, Goto
<1>3. \A x \in Client : pc'[x] = "route" => x # c /\ pc[x] = "route" /\ carrying'[x] = carrying[x]
  BY Zenon DEF RouteDeliver, Goto, TypeOK
<1>4. /\ carrying[c] <= frames[DeviceOf(c)]
      /\ \A i \in DOMAIN old : old[i][1] = c => old[i][2] < carrying[c]
  BY Zenon, <1>2 DEF FramesInv, CarriedLast
<1>5. /\ arrived'[p] = Append(old, new)
      /\ \A e \in DeviceID : e # p => arrived'[e] = arrived[e]
  BY Zenon, <1>1, <1>2 DEF TypeOK
<1> HIDE DEF p, new, old
<1>6. \A i \in DOMAIN Append(old, new) :
          \/ i \in DOMAIN old /\ i <= Len(old) /\ Append(old, new)[i] = old[i]
          \/ i = Len(old) + 1 /\ Append(old, new)[i] = new
  BY <1>1
<1>7. ArrivedRead'
  <2>1. \A i \in DOMAIN old : old[i][2] <= frames[DeviceOf(old[i][1])]
    BY Zenon, <1>1 DEF FramesInv, ArrivedRead, old
  <2>2. \A i \in DOMAIN arrived'[p] : arrived'[p][i][2] <= frames[DeviceOf(arrived'[p][i][1])]
    BY Zenon, <1>1, <1>4, <1>5, <1>6, <2>1
  <2> QED BY Zenon, <1>2, <1>5, <2>2 DEF FramesInv, ArrivedRead
<1>8. CarriedLast'
  <2> SUFFICES ASSUME NEW x \in Client, pc'[x] = "route"
               PROVE  /\ carrying'[x] <= frames'[DeviceOf(x)]
                      /\ \A i \in DOMAIN arrived'[PeerOf(x)] :
                             arrived'[PeerOf(x)][i][1] = x =>
                                 arrived'[PeerOf(x)][i][2] < carrying'[x]
    BY Zenon DEF CarriedLast
  <2>1. x # c /\ pc[x] = "route" /\ carrying'[x] = carrying[x]
    BY Zenon, <1>3
  <2>2. /\ carrying[x] <= frames[DeviceOf(x)]
        /\ \A i \in DOMAIN arrived[PeerOf(x)] :
               arrived[PeerOf(x)][i][1] = x => arrived[PeerOf(x)][i][2] < carrying[x]
    BY Zenon, <2>1 DEF FramesInv, CarriedLast
  <2>3. PeerOf(x) \in DeviceID
    BY Zenon, <2>1, ClientDevice, PeerAssumption DEF RouteTargets, PeerOf
  <2>4. CASE PeerOf(x) = p
    BY <1>1, <1>2, <1>5, <1>6, <2>1, <2>2, <2>4 DEF old
  <2>5. CASE PeerOf(x) # p
    BY Zenon, <1>2, <1>5, <2>1, <2>2, <2>3, <2>5
  <2> QED BY Zenon, <2>4, <2>5
<1>9. FramesInOrder'
  <2> SUFFICES ASSUME NEW e \in DeviceID, NEW i \in DOMAIN arrived'[e],
                      NEW j \in DOMAIN arrived'[e], i < j,
                      arrived'[e][i][1] = arrived'[e][j][1]
               PROVE  arrived'[e][i][2] < arrived'[e][j][2]
    BY Zenon DEF FramesInOrder
  <2>1. CASE e # p
    BY Zenon, <1>5, <2>1 DEF FramesInv, FramesInOrder
  <2>2. CASE e = p
    <3>1. \A k, l \in DOMAIN old :
              k < l /\ old[k][1] = old[l][1] => old[k][2] < old[l][2]
      BY Zenon, <1>1 DEF FramesInv, FramesInOrder, old
    <3>2. i \in DOMAIN old /\ Append(old, new)[i] = old[i]
      BY <1>1, <1>5, <1>6, <2>2
    <3>3. CASE j \in DOMAIN old /\ Append(old, new)[j] = old[j]
      BY Zenon, <1>5, <2>2, <3>1, <3>2, <3>3
    <3>4. CASE Append(old, new)[j] = new
      BY Zenon, <1>1, <1>4, <1>5, <2>2, <3>2, <3>4
    <3> QED BY Zenon, <1>5, <1>6, <2>2, <3>3, <3>4
  <2> QED BY Zenon, <2>1, <2>2
<1> QED BY Zenon, <1>7, <1>8, <1>9 DEF FramesInv

(* Every step keeps the order of frames.                                   *)
LEMMA FramesStep == IInv /\ FramesInv /\ [Next]_vars => FramesInv'
<1> SUFFICES ASSUME IInv, FramesInv, [Next]_vars PROVE FramesInv'
  OBVIOUS
<1>1. TypeOK /\ RouteTargets
  BY Zenon DEF IInv, Leavers
<1>2. ASSUME NEW c \in Client, RouteDeliver(c) PROVE FramesInv'
  BY Zenon, <1>1, <1>2, FramesDeliver
<1>3. ASSUME NEW c \in Client, ReadBinary(c) PROVE FramesInv'
  BY Zenon, <1>1, <1>3, FramesRead
<1>4. ASSUME NEW c \in Client,
             \/ Connect(c) \/ SendRegister(c) \/ SendWelcome(c) \/ LookupPeer(c)
             \/ SendStatus(c) \/ StartPumps(c)
      PROVE  FramesInv'
  <2>1. /\ UNCHANGED <<frames, arrived, carrying>>
        /\ \A x \in Client : pc'[x] = "route" => pc[x] = "route"
    BY Zenon, <1>1, <1>4 DEF Connect, SendRegister, SendWelcome, LookupPeer, SendStatus, StartPumps,
                      Goto, routeVars, TypeOK
  <2> QED BY Zenon, <1>1, <2>1, FramesIdle
<1>5. ASSUME NEW c \in Client,
             \/ RouteEvict(c) \/ ReadError(c) \/ SocketLost(c) \/ SendUnregister(c)
             \/ CloseSelf(c) \/ WriteFrame(c)
      PROVE  FramesInv'
  <2>1. /\ UNCHANGED <<frames, arrived, carrying>>
        /\ \A x \in Client : pc'[x] = "route" => pc[x] = "route"
    BY Zenon, <1>1, <1>5 DEF RouteEvict, ReadError, SocketLost, SendUnregister, CloseSelf,
       WriteFrame,
                      Goto, routeVars, TypeOK
  <2> QED BY Zenon, <1>1, <2>1, FramesIdle
<1>6. ASSUME NEW c \in Client, SendEvicted(c) PROVE FramesInv'
  <2>1. /\ UNCHANGED <<frames, arrived>>
        /\ \A x \in Client : pc'[x] = "route" => pc[x] = "route" /\ carrying'[x] = carrying[x]
    BY Zenon, <1>1, <1>6 DEF SendEvicted, Goto, TypeOK
  <2> QED BY Zenon, <1>1, <2>1, FramesIdle
<1>7. CASE HubRegister \/ HubUnregister \/ HubNotify \/ UNCHANGED vars
  <2>1. UNCHANGED <<frames, arrived, carrying, pc>>
    BY Zenon, <1>7 DEF HubRegister, HubUnregister, HubNotify, routeVars, vars
  <2> QED BY Zenon, <1>1, <2>1, FramesIdle
<1> QED
  BY Zenon, <1>2, <1>3, <1>4, <1>5, <1>6, <1>7 DEF Next, HandlerStep, Environment

(* The frames of a connection reach the peer's queue in the order they     *)
(* were read and none twice, through evictions and reconnects of the peer  *)
(* (readPump, Route).                                                      *)
THEOREM HubFramesInOrder == Spec => []FramesInOrder
<1>1. FramesInv => FramesInOrder
  BY Zenon DEF FramesInv
<1> QED BY <1>1, HubInvariant, FramesInit, FramesStep, PTL DEF Spec
=============================================================================
