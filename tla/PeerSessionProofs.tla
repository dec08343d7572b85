------------------------- MODULE PeerSessionProofs --------------------------
(***************************************************************************)
(* The theorems about module PeerSession, for any pins and announcements,  *)
(* and any number of messages, losses and restarts: first the invariant,   *)
(* which every step of readLoop, of the applications, of the relay and of  *)
(* time keeps, and every fault. The second part is about two devices and   *)
(* what is under way between them, and shows that they implement           *)
(* LossyChannel. How many ciphertexts Send holds at a time is the only     *)
(* fact about the size of a set, and comes last.                           *)
(*                                                                         *)
(* The first invariant is about each device by itself. LinkInv:            *)
(* pair_complete comes once and first. WorkInv: what readLoop remembers    *)
(* between the steps for a handshake message fits the session that the     *)
(* message drove, although Send uses the sessions in between. TrustInv: a  *)
(* session that may be used has the key that was verified.                 *)
(***************************************************************************)
EXTENDS PeerSession, TLAPS

Link(d) ==
    /\ ~up[d] => net[d] = <<>>
    /\ \A i \in 1 .. Len(net[d]) :
           net[d][i].type = "pair_complete" => i = 1 /\ peer[d] = NULL /\ told[d] = "nothing"
LinkInv == \A d \in Device : Link(d)

(* The session that the handshake message in hand was for.                 *)
Driven(d) == IF busy[d].slot = "active" THEN peer[d].active ELSE peer[d].pending

Working(d) ==
    busy[d] # NULL =>
        /\ peer[d] # NULL /\ Driven(d) # NULL
        /\ busy[d].slot = "active" => peer[d].pending = NULL
        /\ busy[d].done /\ ~busy[d].err => Driven(d).status = "ready"
        /\ ~busy[d].done => Driven(d).status = "handshaking"
        /\ busy[d].reply = NULL => busy[d].done
WorkInv == \A d \in Device : Working(d)

Trust(d) ==
    /\ Usable(d) => Verified(pin[d], announced[d])
    /\ told[d] = "paired" => Usable(d)
    /\ last[d] # 0 => Verified(pin[d], announced[d])
TrustInv == \A d \in Device : Trust(d)

Inv == Typed /\ LinkInv /\ WorkInv /\ TrustInv

-----------------------------------------------------------------------------
(* What handleHandshakeMessage returns.                                    *)
LEMMA OutcomeOfMessage ==
    ASSUME NEW s \in Session, NEW m \in Handshake
    PROVE  LET out == HandleHandshakeMessage(s, m)
           IN  /\ out.session \in Session /\ out.reply \in Handshake \cup {NULL}
               /\ out.done \in BOOLEAN /\ out.err \in BOOLEAN
               /\ out.done /\ ~out.err => out.session.status = "ready"
               /\ ~out.done => out.session.status = "handshaking"
               /\ out.reply = NULL => out.done
<1> DEFINE out == HandleHandshakeMessage(s, m)
<1>1. CASE s.status # "handshaking"
  <2>1. /\ out.session = s /\ out.reply = NULL /\ out.done = TRUE
        /\ out.err = (out.session.status # "ready")
    BY Zenon, <1>1 DEF HandleHandshakeMessage, Outcome
  <2> QED BY <2>1, Zenon DEF Session
<1>2. CASE s.status = "handshaking" /\ ~Reads(s, m)
  <2>1. /\ out.session = [s EXCEPT !.status = "failed"]
        /\ out.reply = NULL /\ out.done = TRUE
        /\ out.err = (out.session.status # "ready")
    BY <1>2, Zenon DEF HandleHandshakeMessage, Outcome, Fail
  <2> QED BY <2>1, Zenon DEF Session
<1>3. CASE s.status = "handshaking" /\ Reads(s, m) /\ s.initiator
  <2>1. /\ out.session = [s EXCEPT !.status = "ready", !.remote = m.from]
        /\ out.reply = [type |-> "handshake", n |-> 3, from |-> s.id, to |-> m.from]
        /\ out.done = TRUE /\ out.err = (out.session.status # "ready")
    BY <1>3, Zenon DEF HandleHandshakeMessage, InitiatorStep, Outcome, Finish, Msg
  <2>2. out.reply \in Handshake
    BY <2>1 DEF Handshake, Session, IdOrNull
  <2> QED BY <2>1, <2>2, Zenon DEF Session, Handshake, IdOrNull
<1>4. CASE s.status = "handshaking" /\ Reads(s, m) /\ ~s.initiator /\ s.gotMsg1
  <2>1. /\ out.session = [s EXCEPT !.status = "ready", !.remote = m.from]
        /\ out.reply = NULL /\ out.done = TRUE
        /\ out.err = (out.session.status # "ready")
    BY <1>4, Zenon DEF HandleHandshakeMessage, ResponderStep, Outcome, Finish
  <2> QED BY <2>1, Zenon DEF Session, Handshake, IdOrNull
<1>5. CASE s.status = "handshaking" /\ Reads(s, m) /\ ~s.initiator /\ ~s.gotMsg1
  <2> DEFINE remote == IF m.n = 1 THEN m.from ELSE NULL
             t == [s EXCEPT !.gotMsg1 = TRUE, !.remote = remote]
             r == Msg(2, s.id, remote)
  <2>1. out = ResponderStep(s, m)
    BY Zenon, <1>5 DEF HandleHandshakeMessage
  <2>2. ResponderStep(s, m) = Outcome(t, r, FALSE)
    BY Zenon, <1>5 DEF ResponderStep
  <2>3. /\ out.session = t /\ out.reply = r /\ out.done = FALSE
        /\ out.err = (FALSE /\ t.status # "ready")
    BY <2>1, <2>2 DEF Outcome
  <2>4. remote \in IdOrNull
    BY Zenon DEF Handshake, IdOrNull
  <2> HIDE DEF remote, out
  <2>5. r \in Handshake
    BY <2>4 DEF Handshake, Session, Msg
  <2>6. t \in Session
    BY <2>4, Zenon DEF Session
  <2>7. out.reply \in Handshake /\ out.session \in Session
    BY Zenon, <2>3, <2>5, <2>6
  <2>8. out.reply # NULL
    BY Zenon, <2>7, NullAssumption
  <2> USE DEF out
  <2> QED BY <1>5, <2>3, <2>7, <2>8, Zenon DEF Session
<1> QED BY Zenon, <1>1, <1>2, <1>3, <1>4, <1>5 DEF Session

(* There are two devices.                                                  *)
LEMMA OtherDevice == \A d \in Device : Other(d) \in Device /\ Other(d) # d
BY Zenon, DeviceAssumption DEF Other

(* Taking a frame leaves no pair_complete behind.                          *)
LEMMA TakesLink ==
    ASSUME NEW d \in Device, NEW type, Typed, LinkInv, Takes(d, type), up' = up,
           \A e \in Device \ {d} : peer'[e] = peer[e] /\ told'[e] = told[e]
    PROVE  /\ LinkInv' /\ net' \in [Device -> Seq(Frame)]
           /\ Head(net[d]) \in Frame /\ Head(net[d]).type = type /\ Head(net[d]) = net[d][1]
           /\ 1 \in 1 .. Len(net[d])
<1>1. net[d] \in Seq(Frame) /\ net[d] # <<>> /\ up[d]
  BY Zenon DEF Typed, Takes
<1>2. /\ Head(net[d]) = net[d][1] /\ Head(net[d]) \in Frame /\ 1 \in 1 .. Len(net[d])
      /\ Tail(net[d]) \in Seq(Frame) /\ Len(Tail(net[d])) = Len(net[d]) - 1
      /\ \A i \in 1 .. Len(Tail(net[d])) :
             Tail(net[d])[i] = net[d][i + 1] /\ i + 1 \in 1 .. Len(net[d]) /\ i + 1 # 1
  BY <1>1
<1>3. net' = [net EXCEPT ![d] = Tail(@)] /\ net \in [Device -> Seq(Frame)]
  BY Zenon DEF Takes, Typed
<1>4. ASSUME NEW e \in Device PROVE Link(e)'
  <2>1. CASE e = d
    <3>1. net'[e] = Tail(net[d]) /\ up'[e]
      BY Zenon, <1>1, <1>3, <2>1
    <3>2. ASSUME NEW i \in 1 .. Len(net'[e]) PROVE net'[e][i].type # "pair_complete"
      BY <1>2, <3>1 DEF LinkInv, Link
    <3> QED BY Zenon, <3>1, <3>2 DEF Link
  <2>2. CASE e # d
    BY Zenon, <1>3, <2>2 DEF LinkInv, Link
  <2> QED BY Zenon, <2>1, <2>2
<1> QED BY Zenon, <1>2, <1>3, <1>4 DEF LinkInv, Takes

(* A handshake frame is a handshake message.                               *)
LEMMA HandshakeFrame ==
    \A f \in Frame : f.type = "handshake" => f \in Handshake
BY Zenon DEF Frame, Handshake, Transport, Notice

(* What newInitiatorSession and newResponderSession return.                *)
LEMMA NewSessions ==
    ASSUME NEW d \in Device, Typed, NEW initiator \in BOOLEAN
    PROVE  LET s == NextSession(d, initiator)
           IN  /\ s \in Session /\ s # NULL /\ s.status = "handshaking"
               /\ Msg(1, s.id, NULL) \in Handshake
<1> DEFINE s == NextSession(d, initiator)
<1>1. s = [id |-> <<d, made[d] + 1>>, initiator |-> initiator, status |-> "handshaking",
           gotMsg1 |-> FALSE, remote |-> NULL, sendN |-> 0, recvN |-> 0]
  BY Zenon DEF NextSession, NewSession
<1>2. <<d, made[d] + 1>> \in Id /\ NULL \in IdOrNull
  BY DEF Typed, Id, IdOrNull
<1>3. s \in Session
  BY <1>1, <1>2 DEF Session
<1>4. Msg(1, s.id, NULL) \in Handshake
  BY <1>1, <1>2 DEF Msg, Handshake
<1>5. s.status = "handshaking"
  BY <1>1
<1>6. s # NULL
  <2> HIDE DEF s
  <2> QED BY Zenon, <1>3, NullAssumption
<1> QED BY Zenon, <1>3, <1>4, <1>5, <1>6

(* Feeding a session keeps the invariant: what remains to do fits the      *)
(* session, and a session in use is left alone.                            *)
LEMMA FeedKeeps ==
    ASSUME NEW d \in Device, NEW s \in Session, NEW slot \in {"active", "pending"},
           Typed, WorkInv, TrustInv, Head(net[d]) \in Handshake,
           busy[d] = NULL, peer[d] # NULL, Feed(d, s, slot),
           slot = "active" => peer[d].pending = NULL /\ ~Ready(peer[d].active)
    PROVE  /\ peer' \in [Device -> PeerConn \cup {NULL}]
           /\ busy' \in [Device -> Work \cup {NULL}]
           /\ busy'[d] # NULL
           /\ \A e \in Device \ {d} : peer'[e] = peer[e] /\ busy'[e] = busy[e]
           /\ WorkInv' /\ TrustInv'
<1> DEFINE out == HandleHandshakeMessage(s, Head(net[d]))
           work == [reply |-> out.reply, done |-> out.done, err |-> out.err, slot |-> slot]
<1>1. /\ out.session \in Session /\ out.reply \in Handshake \cup {NULL}
      /\ out.done \in BOOLEAN /\ out.err \in BOOLEAN
      /\ out.done /\ ~out.err => out.session.status = "ready"
      /\ ~out.done => out.session.status = "handshaking"
      /\ out.reply = NULL => out.done
  BY Zenon, OutcomeOfMessage
<1>2. peer[d] \in PeerConn /\ busy \in [Device -> Work \cup {NULL}]
      /\ peer \in [Device -> PeerConn \cup {NULL}]
  BY Zenon DEF Typed
<1>3. /\ busy' = [busy EXCEPT ![d] = work]
      /\ peer' = [peer EXCEPT ![d] = Fed(peer[d], slot, out.session)]
      /\ UNCHANGED <<pin, announced, told, last>>
  BY Zenon DEF Feed
<1> HIDE DEF out
<1>4. work \in Work /\ work # NULL /\ out.session # NULL
  BY <1>1, NullAssumption DEF Work
<1> HIDE DEF work
<1>5. Fed(peer[d], slot, out.session) \in PeerConn
  <2>1. CASE slot = "active"
    BY Zenon, <1>1, <1>2, <2>1 DEF PeerConn, Fed
  <2>2. CASE slot = "pending"
    BY <1>1, <1>2, <2>2, Zenon DEF PeerConn, Fed
  <2> QED BY Zenon, <2>1, <2>2
<1>6. /\ peer'[d] = Fed(peer[d], slot, out.session)
      /\ peer'[d] \in PeerConn /\ peer'[d] # NULL
      /\ peer' \in [Device -> PeerConn \cup {NULL}]
      /\ busy'[d] = work /\ busy' \in [Device -> Work \cup {NULL}]
  BY Zenon, <1>2, <1>3, <1>4, <1>5, NullAssumption
<1>7. \A e \in Device \ {d} : peer'[e] = peer[e] /\ busy'[e] = busy[e]
  BY Zenon, <1>2, <1>3
<1>8. /\ slot = "active" => peer'[d].active = out.session /\ peer'[d].pending = peer[d].pending
      /\ slot = "pending" => peer'[d].pending = out.session /\ peer'[d].active = peer[d].active
  <2>1. CASE slot = "active"
    BY Zenon, <1>2, <1>6, <2>1 DEF PeerConn, Fed
  <2>2. CASE slot = "pending"
    BY Zenon, <1>2, <1>6, <2>2 DEF PeerConn, Fed
  <2> QED BY Zenon, <2>1, <2>2
<1>9. ASSUME NEW e \in Device PROVE Working(e)' /\ Trust(e)'
  <2>1. CASE e # d
    BY <1>3, <1>7, <2>1 DEF WorkInv, Working, Driven, TrustInv, Trust, Usable
  <2>2. CASE e = d
    <3>1. Working(d)'
      BY <1>1, <1>4, <1>6, <1>8, SMTT(30) DEF Working, Driven, work
    <3>2. Trust(d)'
      BY Zenon, <1>3, <1>4, <1>6, <1>8 DEF TrustInv, Trust, Usable, work
    <3> QED BY Zenon, <2>2, <3>1, <3>2
  <2> QED BY Zenon, <2>1, <2>2
<1> QED BY Zenon, <1>4, <1>6, <1>7, <1>9 DEF WorkInv, TrustInv

(* The pin only ever goes from none to the key that was verified.          *)
LEMMA PinKept ==
    ASSUME NEW d \in Device, Typed, NEW a, Verified(pin[d], a)
    PROVE  Verified(PinAfter(d), a)
BY Zenon, ChoiceAssumption DEF Verified, PinAfter, StaticKey

(* Queueing a frame keeps the type of c.sends.                             *)
LEMMA QueueTyped ==
    ASSUME NEW d \in Device, Typed, NEW f \in Handshake \cup Transport, Enqueue(d, f)
    PROVE  sends' \in [Device -> Seq(Handshake \cup Transport)]
<1> DEFINE S == Handshake \cup Transport
<1>1. sends \in [Device -> Seq(S)] /\ f \in S
  BY Zenon DEF Typed
<1> HIDE DEF S
<1>2. Append(sends[d], f) \in Seq(S)
  BY <1>1
<1>3. sends' \in [Device -> Seq(S)]
  BY Zenon, <1>1, <1>2 DEF Enqueue
<1> QED BY Zenon, <1>3 DEF S

(* Counting sessions keeps their type.                                     *)
LEMMA MadeTyped ==
    ASSUME NEW d \in Device, Typed, Made(d) PROVE made' \in [Device -> Nat]
BY SMTT(30) DEF Typed, Made

-----------------------------------------------------------------------------
(* Steps that use a session or let time pass: the sessions' states stay.   *)
LEMMA SameSessions ==
    ASSUME NEW d \in Device, Inv, NEW new \in PeerConn, peer[d] # NULL,
           peer' = [peer EXCEPT ![d] = new],
           new.pending = peer[d].pending, new.active = NULL <=> peer[d].active = NULL,
           peer[d].active # NULL => new.active.status = peer[d].active.status,
           UNCHANGED <<busy, told, pin, announced>>,
           \A e \in Device : last'[e] # last[e] => Verified(pin[e], announced[e])
    PROVE  /\ peer' \in [Device -> PeerConn \cup {NULL}]
           /\ \A e \in Device : peer'[e] = NULL <=> peer[e] = NULL
           /\ \A e \in Device :
                  peer'[e] # NULL /\ peer'[e].pending # NULL /\ busy'[e] = NULL =>
                      peer'[e].pending.status = "handshaking"
           /\ WorkInv' /\ TrustInv'
<1>1. /\ peer \in [Device -> PeerConn \cup {NULL}] /\ new # NULL
      /\ peer'[d] = new /\ peer' \in [Device -> PeerConn \cup {NULL}]
      /\ \A e \in Device \ {d} : peer'[e] = peer[e]
  BY Zenon, NullAssumption DEF Inv, Typed
<1>2. ASSUME NEW e \in Device PROVE Working(e)' /\ Trust(e)'
  <2>1. CASE e = d
    <3>1. Working(d)'
      BY <1>1 DEF Inv, WorkInv, Working, Driven
    <3>2. Usable(d)' <=> Usable(d)
      BY Zenon, <1>1 DEF Usable, Ready
    <3> QED BY Zenon, <2>1, <3>1, <3>2 DEF Inv, TrustInv, Trust
  <2>2. CASE e # d
    BY Zenon, <1>1, <2>2 DEF Inv, WorkInv, Working, Driven, TrustInv, Trust, Usable
  <2> QED BY Zenon, <2>1, <2>2
<1>3. \A e \in Device :
          peer'[e] # NULL /\ peer'[e].pending # NULL /\ busy'[e] = NULL =>
              peer'[e].pending.status = "handshaking"
  BY <1>1 DEF Inv, Typed
<1> QED BY Zenon, <1>1, <1>2, <1>3 DEF WorkInv, TrustInv

(* Counting a nonce leaves a ready session ready.                          *)
LEMMA CountedNonce ==
    ASSUME NEW p \in PeerConn, Ready(p.active)
    PROVE  /\ [p EXCEPT !.active.sendN = @ + 1] \in PeerConn
           /\ [p EXCEPT !.active.recvN = @ + 1] \in PeerConn
           /\ [p EXCEPT !.active.sendN = @ + 1].active # NULL
           /\ [p EXCEPT !.active.recvN = @ + 1].active # NULL
           /\ [p EXCEPT !.active.sendN = @ + 1].pending = p.pending
           /\ [p EXCEPT !.active.recvN = @ + 1].pending = p.pending
           /\ [p EXCEPT !.active.sendN = @ + 1].active.status = "ready"
           /\ [p EXCEPT !.active.recvN = @ + 1].active.status = "ready"
<1>1. p.active \in Session /\ p.active.status = "ready"
  BY Zenon DEF PeerConn, Ready
<1> DEFINE s == [p.active EXCEPT !.sendN = @ + 1]
           r == [p.active EXCEPT !.recvN = @ + 1]
<1>2. s \in Session /\ r \in Session /\ s.status = "ready" /\ r.status = "ready"
  BY <1>1 DEF Session
<1>3. s # NULL /\ r # NULL
  <2> HIDE DEF s, r
  <2> QED BY Zenon, <1>2, NullAssumption
<1>4. /\ [p EXCEPT !.active.sendN = @ + 1] = [p EXCEPT !.active = s]
      /\ [p EXCEPT !.active.recvN = @ + 1] = [p EXCEPT !.active = r]
  OBVIOUS
<1> HIDE DEF s, r
<1>5. /\ [p EXCEPT !.active = s] \in PeerConn /\ [p EXCEPT !.active = r] \in PeerConn
      /\ [p EXCEPT !.active = s].active = s /\ [p EXCEPT !.active = r].active = r
      /\ [p EXCEPT !.active = s].pending = p.pending
      /\ [p EXCEPT !.active = r].pending = p.pending
  BY Zenon, <1>2 DEF PeerConn
<1> QED BY <1>2, <1>3, <1>4, <1>5, Zenon

(* Frames that join a queue are not pair_complete.                         *)
LEMMA AppendLink ==
    ASSUME NEW s \in Seq(Frame), NEW f \in Frame, f.type # "pair_complete"
    PROVE  /\ Append(s, f) \in Seq(Frame)
           /\ \A i \in 1 .. Len(Append(s, f)) :
                  Append(s, f)[i].type = "pair_complete" =>
                      i \in 1 .. Len(s) /\ s[i].type = "pair_complete"
<1>1. /\ Append(s, f) \in Seq(Frame) /\ Len(Append(s, f)) = Len(s) + 1 /\ Len(s) \in Nat
      /\ Append(s, f)[Len(s) + 1] = f
      /\ \A i \in 1 .. Len(s) : Append(s, f)[i] = s[i]
  OBVIOUS
<1>2. ASSUME NEW i \in 1 .. Len(Append(s, f)), Append(s, f)[i].type = "pair_complete"
      PROVE  i \in 1 .. Len(s) /\ s[i].type = "pair_complete"
  <2>1. i # Len(s) + 1
    BY Zenon, <1>1, <1>2
  <2>2. i \in 1 .. Len(s)
    BY <1>1, <1>2, <2>1
  <2> QED BY Zenon, <1>1, <1>2, <2>2
<1> QED BY Zenon, <1>1, <1>2

-----------------------------------------------------------------------------
(* Nobody has a session at the start.                                      *)
LEMMA InitInv == Init => Inv
<1> SUFFICES ASSUME Init PROVE Inv
  OBVIOUS
<1>1. /\ PairComplete \in Frame /\ <<PairComplete>> \in Seq(Frame)
      /\ Len(<<PairComplete>>) = 1 /\ <<>> \in Seq(Handshake \cup Transport)
  BY DEF PairComplete, Frame, Notice
<1>3. /\ up = [d \in Device |-> TRUE] /\ net = [d \in Device |-> <<PairComplete>>]
      /\ sends = [d \in Device |-> <<>>] /\ held = [d \in Device |-> {}]
      /\ peer = [d \in Device |-> NULL] /\ busy = [d \in Device |-> NULL]
      /\ made = [d \in Device |-> 0] /\ told = [d \in Device |-> "nothing"]
      /\ sent = [d \in Device |-> 0] /\ last = [d \in Device |-> 0]
      /\ pin \in [Device -> KeyOrNull] /\ announced \in [Device -> KeyOrNull]
  BY Zenon DEF Init
<1>4. Typed
  BY Zenon, <1>1, <1>3 DEF Typed
<1>5. LinkInv /\ WorkInv /\ TrustInv
  BY <1>1, <1>3 DEF LinkInv, Link, WorkInv, Working, TrustInv, Trust, Usable
<1> QED BY Zenon, <1>4, <1>5 DEF Inv

(* Every step of every device keeps the invariant.                         *)
LEMMA NextInv == Inv /\ [Next]_vars => Inv'
<1> SUFFICES ASSUME Inv, [Next]_vars PROVE Inv'
  OBVIOUS
(* pair_complete makes the peerConn, and the acceptor starts a handshake.  *)
<1>1. ASSUME NEW d \in Device, HandlePairComplete(d) PROVE Inv'
  <2> USE <1>1
  <2> DEFINE s == NextSession(d, TRUE)
             conn == IF d = Acceptor THEN [NewPeerConn(TRUE) EXCEPT !.active = s]
                                     ELSE NewPeerConn(TRUE)
  <2>1. s \in Session /\ s # NULL /\ s.status = "handshaking" /\ Msg(1, s.id, NULL) \in Handshake
    BY NewSessions, Zenon DEF Inv
  <2>2. /\ Takes(d, "pair_complete") /\ peer' = [peer EXCEPT ![d] = conn]
        /\ UNCHANGED <<up, faultVars, appVars, busy, pin, announced, told, last>>
        /\ \/ made' = made /\ sends' = sends
           \/ Made(d) /\ Enqueue(d, Msg(1, s.id, NULL))
    BY Zenon DEF HandlePairComplete
  <2> HIDE DEF s
  <2>3. /\ conn \in PeerConn /\ conn # NULL /\ conn.pending = NULL /\ ~Ready(conn.active)
    <3>1. conn \in PeerConn /\ conn.pending = NULL /\ ~Ready(conn.active)
      BY <2>1, Zenon DEF NewPeerConn, PeerConn, Ready
    <3> QED BY <3>1, NullAssumption, Zenon
  <2> HIDE DEF conn
  <2>4. /\ peer'[d] = conn /\ peer' \in [Device -> PeerConn \cup {NULL}]
        /\ \A e \in Device \ {d} : peer'[e] = peer[e] /\ told'[e] = told[e]
    BY <2>2, <2>3, Zenon DEF Inv, Typed
  <2>5. /\ LinkInv' /\ net' \in [Device -> Seq(Frame)] /\ told[d] = "nothing"
    <3>1. /\ LinkInv' /\ net' \in [Device -> Seq(Frame)] /\ 1 \in 1 .. Len(net[d])
          /\ net[d][1].type = "pair_complete"
      BY <2>2, <2>4, TakesLink DEF Inv
    <3> QED BY Zenon, <3>1 DEF Inv, LinkInv, Link
  <2>6. made' \in [Device -> Nat] /\ sends' \in [Device -> Seq(Handshake \cup Transport)]
    BY <2>1, <2>2, QueueTyped, MadeTyped, Zenon DEF Inv, Typed
  <2>7. Typed'
    BY <2>2, <2>3, <2>4, <2>5, <2>6, Zenon DEF Inv, Typed, appVars
  <2>8. ASSUME NEW e \in Device PROVE Working(e)' /\ Trust(e)'
    <3>1. CASE e = d
      BY <2>2, <2>3, <2>4, <2>5, <3>1, Zenon DEF Takes, Working, Inv, TrustInv, Trust, Usable
    <3>2. CASE e # d
      BY <2>2, <2>4, <3>2, Zenon DEF Inv, WorkInv, Working, Driven, TrustInv, Trust, Usable
    <3> QED BY Zenon, <3>1, <3>2
  <2> QED BY Zenon, <2>5, <2>7, <2>8 DEF Inv, WorkInv, TrustInv
(* A replacement handshake starts in the pending slot.                     *)
<1>2. ASSUME NEW d \in Device, HandlePeerStatus(d) PROVE Inv'
  <2> USE <1>2
  <2> DEFINE s == NextSession(d, TRUE)
  <2>1. s \in Session /\ s # NULL /\ s.status = "handshaking" /\ Msg(1, s.id, NULL) \in Handshake
    BY NewSessions, Zenon DEF Inv
  <2>2. /\ Takes(d, "peer_status") /\ busy[d] = NULL
        /\ UNCHANGED <<up, faultVars, appVars, busy, pin, announced, told, last>>
        /\ \/ UNCHANGED <<peer, made, sends>>
           \/ /\ peer[d] # NULL /\ peer' = [peer EXCEPT ![d].pending = s]
              /\ Made(d) /\ Enqueue(d, Msg(1, s.id, NULL))
    BY Zenon DEF HandlePeerStatus, StartRekey, Takes
  <2> HIDE DEF s
  <2>3. /\ peer' \in [Device -> PeerConn \cup {NULL}]
        /\ \A e \in Device \ {d} : peer'[e] = peer[e] /\ told'[e] = told[e]
        /\ \/ peer'[d] = peer[d]
           \/ peer[d] # NULL /\ peer'[d] = [peer[d] EXCEPT !.pending = s]
    <3>1. CASE UNCHANGED peer
      BY Zenon, <2>2, <3>1 DEF Inv, Typed
    <3>2. CASE peer[d] # NULL /\ peer' = [peer EXCEPT ![d].pending = s]
      <4> DEFINE new == [peer[d] EXCEPT !.pending = s]
      <4>1. peer \in [Device -> PeerConn \cup {NULL}] /\ peer[d] \in PeerConn
        BY Zenon, <3>2 DEF Inv, Typed
      <4>2. new \in PeerConn
        BY Zenon, <2>1, <4>1 DEF PeerConn
      <4>3. peer' = [peer EXCEPT ![d] = new]
        BY Zenon, <3>2
      <4> HIDE DEF new
      <4>4. peer'[d] = new /\ peer' \in [Device -> PeerConn \cup {NULL}]
            /\ \A e \in Device \ {d} : peer'[e] = peer[e]
        BY Zenon, <4>1, <4>2, <4>3
      <4> QED BY Zenon, <2>2, <3>2, <4>4 DEF new
    <3> QED BY Zenon, <2>2, <3>1, <3>2
  <2>4. /\ peer'[d] = NULL <=> peer[d] = NULL
        /\ peer[d] # NULL =>
              /\ peer'[d].active = peer[d].active
              /\ (peer'[d].pending = peer[d].pending \/ peer'[d].pending = s)
    <3>1. peer[d] \in PeerConn \cup {NULL}
      BY Zenon DEF Inv, Typed
    <3>2. CASE peer'[d] = peer[d]
      BY Zenon, <3>2
    <3>3. CASE peer[d] # NULL /\ peer'[d] = [peer[d] EXCEPT !.pending = s]
      <4>1. peer'[d] \in PeerConn
        BY Zenon, <2>1, <3>1, <3>3 DEF PeerConn
      <4> QED BY Zenon, <3>1, <3>3, <4>1, NullAssumption DEF PeerConn
    <3> QED BY Zenon, <2>3, <3>2, <3>3
  <2>5. LinkInv' /\ net' \in [Device -> Seq(Frame)]
    BY Zenon, <2>2, <2>3, TakesLink DEF Inv
  <2>6. made' \in [Device -> Nat] /\ sends' \in [Device -> Seq(Handshake \cup Transport)]
    BY <2>1, <2>2, QueueTyped, MadeTyped, Zenon DEF Inv, Typed
  <2>7. Typed'
    <3>1. \A e \in Device :
              peer'[e] # NULL /\ peer'[e].pending # NULL /\ busy'[e] = NULL =>
                  peer'[e].pending.status = "handshaking"
      BY <2>1, <2>2, <2>3, <2>4 DEF Inv, Typed
    <3> QED BY Zenon, <2>2, <2>3, <2>5, <2>6, <3>1 DEF Inv, Typed, appVars
  <2>8. ASSUME NEW e \in Device PROVE Working(e)' /\ Trust(e)'
    <3>1. CASE e = d
      BY Zenon, <2>2, <2>4, <3>1 DEF Working, Inv, TrustInv, Trust, Usable
    <3>2. CASE e # d
      BY <2>2, <2>3, <3>2 DEF Inv, WorkInv, Working, Driven, TrustInv, Trust, Usable
    <3> QED BY Zenon, <3>1, <3>2
  <2> QED BY Zenon, <2>5, <2>7, <2>8 DEF Inv, WorkInv, TrustInv
(* A handshake message is fed to a session, old or new ...                 *)
<1>3. ASSUME NEW d \in Device, ContinueHandshake(d) \/ AnswerHandshake(d) PROVE Inv'
  <2> USE <1>3
  <2>1. /\ Takes(d, "handshake") /\ peer[d] # NULL /\ busy[d] = NULL
        /\ peer[d] \in PeerConn /\ Head(net[d]) \in Handshake
    <3>1. Takes(d, "handshake") /\ peer[d] # NULL
      BY Zenon DEF ContinueHandshake, AnswerHandshake
    <3>2. Head(net[d]) \in Frame /\ Head(net[d]).type = "handshake" /\ busy[d] = NULL
      BY <3>1 DEF Takes, Inv, Typed
    <3> QED BY Zenon, <3>1, <3>2, HandshakeFrame DEF Inv, Typed
  <2>2. made' \in [Device -> Nat]
    BY MadeTyped, Zenon DEF ContinueHandshake, AnswerHandshake, Inv, Typed
  <2>3. PICK s \in Session, slot \in {"active", "pending"} :
            /\ Feed(d, s, slot)
            /\ slot = "active" => peer[d].pending = NULL /\ ~Ready(peer[d].active)
    <3>1. CASE ContinueHandshake(d)
      BY Zenon, <2>1, <3>1 DEF ContinueHandshake, PeerConn
    <3>2. CASE AnswerHandshake(d)
      <4>1. NextSession(d, FALSE) \in Session
        BY NewSessions, Zenon DEF Inv
      <4> QED BY <3>2, <4>1, Zenon DEF AnswerHandshake, Ready
    <3> QED BY Zenon, <3>1, <3>2
  <2>4. /\ peer' \in [Device -> PeerConn \cup {NULL}] /\ busy' \in [Device -> Work \cup {NULL}]
        /\ busy'[d] # NULL
        /\ \A e \in Device \ {d} : peer'[e] = peer[e] /\ busy'[e] = busy[e]
        /\ WorkInv' /\ TrustInv'
    BY Zenon, <2>1, <2>3, FeedKeeps DEF Inv
  <2>5. UNCHANGED <<up, sends, faultVars, appVars, pin, announced, told, last>>
    BY Zenon, <2>3 DEF Feed
  <2>6. LinkInv' /\ net' \in [Device -> Seq(Frame)]
    BY <2>1, <2>4, <2>5, TakesLink, Zenon DEF Inv
  <2>7. \A e \in Device :
            peer'[e] # NULL /\ peer'[e].pending # NULL /\ busy'[e] = NULL =>
                peer'[e].pending.status = "handshaking"
    BY <2>4, Zenon DEF Inv, Typed
  <2>8. Typed'
    BY <2>2, <2>4, <2>5, <2>6, <2>7, Zenon DEF Inv, Typed, appVars
  <2> QED BY Zenon, <2>4, <2>6, <2>8 DEF Inv
(* ... or dropped.                                                         *)
<1>4. ASSUME NEW d \in Device, DropHandshake(d) PROVE Inv'
  <2> USE <1>4
  <2>1. /\ Takes(d, "handshake")
        /\ UNCHANGED <<up, sends, faultVars, appVars, peer, busy, made, pin, announced, told, last>>
    BY Zenon DEF DropHandshake
  <2>2. LinkInv' /\ net' \in [Device -> Seq(Frame)]
    BY Zenon, <2>1, TakesLink DEF Inv
  <2>3. Typed'
    BY <2>1, <2>2, Zenon DEF Inv, Typed, appVars
  <2>4. WorkInv' /\ TrustInv'
    BY <2>1, Zenon DEF Inv, WorkInv, Working, Driven, TrustInv, Trust, Usable
  <2> QED BY Zenon, <2>2, <2>3, <2>4 DEF Inv
(* After the reply is queued the session still fits what is left to do.    *)
<1>5. ASSUME NEW d \in Device, EnqueueReply(d) PROVE Inv'
  <2> USE <1>5
  <2> DEFINE left == IF busy[d].done THEN [busy[d] EXCEPT !.reply = NULL] ELSE NULL
  <2>1. /\ busy[d] \in Work /\ busy[d].reply \in Handshake /\ busy[d] # NULL
        /\ busy \in [Device -> Work \cup {NULL}] /\ Enqueue(d, busy[d].reply)
        /\ busy' = [busy EXCEPT ![d] = left]
        /\ UNCHANGED <<up, net, faultVars, appVars, peer, made, pin, announced, told, last>>
    BY Zenon DEF EnqueueReply, Inv, Typed, Work
  <2>2. left \in Work \cup {NULL}
    BY Zenon, <2>1 DEF Work
  <2>3. \/ busy[d].done /\ left # NULL /\ left.slot = busy[d].slot /\ left.done /\ left.err = busy[d].err
        \/ ~busy[d].done /\ left = NULL
    <3>1. CASE busy[d].done
      BY Zenon, <2>1, <2>2, <3>1, NullAssumption DEF Work
    <3> QED BY Zenon, <3>1
  <2> HIDE DEF left
  <2>4. /\ busy'[d] = left /\ busy' \in [Device -> Work \cup {NULL}]
        /\ \A e \in Device \ {d} : busy'[e] = busy[e]
    BY Zenon, <2>1, <2>2
  <2>5. sends' \in [Device -> Seq(Handshake \cup Transport)]
    BY Zenon, <2>1, QueueTyped DEF Inv
  <2>6. ASSUME NEW e \in Device PROVE Working(e)' /\ Trust(e)'
    <3>1. CASE e = d
      BY <2>1, <2>3, <2>4, <3>1, Zenon
      DEF Inv, WorkInv, Working, Driven, TrustInv, Trust, Usable, Ready, Work
    <3>2. CASE e # d
      BY <2>1, <2>4, <3>2, Zenon DEF Inv, WorkInv, Working, Driven, TrustInv, Trust, Usable
    <3> QED BY Zenon, <3>1, <3>2
  <2>7. LinkInv'
    BY <2>1, Zenon DEF Inv, LinkInv, Link
  <2>8. \A e \in Device :
            peer'[e] # NULL /\ peer'[e].pending # NULL /\ busy'[e] = NULL =>
                peer'[e].pending.status = "handshaking"
    BY <2>1, <2>3, <2>4, Zenon DEF Inv, Typed, WorkInv, Working, Driven, Work
  <2>9. Typed'
    BY <2>1, <2>4, <2>5, <2>8, Zenon DEF Inv, Typed, appVars
  <2> QED BY Zenon, <2>6, <2>7, <2>9 DEF Inv, WorkInv, TrustInv
(* Ending a handshake keeps the invariant: a session is used only when its *)
(* key is verified, and the pairing call is told so only then.             *)
<1>6. ASSUME NEW d \in Device, ResolveHandshake(d) PROVE Inv'
  <2> USE <1>6
  <2> DEFINE p == peer[d]
             w == busy[d]
             ok == Accepts(d)
             q == peer'[d]
  <2>1. /\ w \in Work /\ p \in PeerConn /\ w # NULL /\ p # NULL /\ w.reply = NULL /\ w.done
        /\ peer \in [Device -> PeerConn \cup {NULL}] /\ busy \in [Device -> Work \cup {NULL}]
        /\ pin \in [Device -> KeyOrNull] /\ told \in [Device -> {"nothing", "paired", "error"}]
    BY Zenon DEF Inv, Typed, WorkInv, Working, ResolveHandshake, ResolveWith
  <2>2. /\ w.slot = "pending" => p.pending \in Session
        /\ w.slot = "active" => p.active \in Session /\ p.pending = NULL
    BY Zenon, <2>1 DEF Inv, WorkInv, Working, Driven, PeerConn, Work
  <2>3. /\ pin' = [pin EXCEPT ![d] = PinAfter(d)] /\ busy' = [busy EXCEPT ![d] = NULL]
        /\ UNCHANGED <<linkVars, faultVars, appVars, made, announced, last>>
    BY Zenon DEF ResolveHandshake, ResolveWith
  <2>4. ok => Verified(PinAfter(d), announced[d]) /\ ~w.err
    BY Zenon DEF Accepts
  <2>5. PinAfter(d) \in KeyOrNull
    BY Zenon, <2>1 DEF PinAfter, KeyOrNull, StaticKey
  <2>6. /\ busy'[d] = NULL /\ pin'[d] = PinAfter(d)
        /\ busy' \in [Device -> Work \cup {NULL}] /\ pin' \in [Device -> KeyOrNull]
        /\ \A e \in Device \ {d} : busy'[e] = busy[e] /\ pin'[e] = pin[e]
    BY Zenon, <2>1, <2>3, <2>5
  <2> DEFINE Settled ==
               /\ q \in PeerConn /\ q # NULL /\ q.pending = NULL
               /\ peer' \in [Device -> PeerConn \cup {NULL}]
               /\ told' \in [Device -> {"nothing", "paired", "error"}]
               /\ \A e \in Device \ {d} : peer'[e] = peer[e] /\ told'[e] = told[e]
  <2>7. ok => Driven(d).status = "ready"
    BY Zenon, <2>1, <2>4 DEF Inv, WorkInv, Working
  <2>8. Verified(pin[d], announced[d]) => Verified(PinAfter(d), announced[d])
    BY Zenon, PinKept DEF Inv
  <2>9. announced' = announced /\ last' = last
    BY Zenon, <2>3
  <2> HIDE DEF ok
  <2>10. ASSUME w.slot = "pending" /\ ok PROVE Settled /\ Trust(d)'
    <3> DEFINE new == [p EXCEPT !.active = p.pending, !.pending = NULL, !.waiter = FALSE]
    <3>1. /\ peer' = [peer EXCEPT ![d] = new]
          /\ told' = IF p.waiter THEN [told EXCEPT ![d] = "paired"] ELSE told
      BY Zenon, <2>1, <2>10 DEF ResolveHandshake, ResolveWith, ok, PeerConn
    <3>2. new \in PeerConn /\ new.pending = NULL /\ new.active = p.pending
      BY <2>1, <2>2, <2>10, Zenon DEF PeerConn, Session, Fail
    <3>3. q = new /\ new # NULL
      BY Zenon, <2>1, <3>1, <3>2, NullAssumption
    <3> HIDE DEF new
    <3>4. Settled
      BY Zenon, <2>1, <3>1, <3>2, <3>3
    <3>5. Usable(d)'
      BY Zenon, <2>2, <2>6, <2>7, <2>10, <3>2, <3>3, NullAssumption DEF Usable, Ready, Driven
    <3>6. Trust(d)'
      BY Zenon, <2>4, <2>6, <2>9, <2>10, <3>5 DEF Trust
    <3> QED BY Zenon, <3>4, <3>6
  <2>11. ASSUME w.slot = "pending" /\ ~ok PROVE Settled /\ Trust(d)'
    <3> DEFINE new == [p EXCEPT !.pending = NULL]
    <3>1. /\ peer' = [peer EXCEPT ![d] = new]
          /\ told' = told
      BY Zenon, <2>1, <2>11 DEF ResolveHandshake, ResolveWith, ok, PeerConn
    <3>2. new \in PeerConn /\ new.pending = NULL /\ new.active = p.active
      BY Zenon, <2>1, <2>2, <2>11 DEF PeerConn, Session, Fail
    <3>3. q = new /\ new # NULL
      BY Zenon, <2>1, <3>1, <3>2, NullAssumption
    <3> HIDE DEF new
    <3>4. Settled
      BY Zenon, <2>1, <3>1, <3>2, <3>3
    <3>5. Trust(d)'
      BY Zenon, <2>1, <2>6, <2>11, <2>8, <2>9, <3>1, <3>2, <3>3 DEF Inv, TrustInv, Trust, Usable,
         Ready
    <3> QED BY Zenon, <3>4, <3>5
  <2>12. ASSUME w.slot = "active" /\ ok PROVE Settled /\ Trust(d)'
    <3> DEFINE new == [p EXCEPT !.waiter = FALSE]
    <3>1. /\ peer' = [peer EXCEPT ![d] = new]
          /\ told' = IF p.waiter THEN [told EXCEPT ![d] = "paired"] ELSE told
      BY Zenon, <2>1, <2>12 DEF ResolveHandshake, ResolveWith, ok, PeerConn
    <3>2. new \in PeerConn /\ new.pending = NULL /\ new.active = p.active
      BY <2>1, <2>2, <2>12, Zenon DEF PeerConn, Session, Fail
    <3>3. q = new /\ new # NULL
      BY <2>1, <3>1, <3>2, NullAssumption, Zenon
    <3> HIDE DEF new
    <3>4. Settled
      BY Zenon, <2>1, <3>1, <3>2, <3>3
    <3>5. Usable(d)'
      BY <2>2, <2>6, <2>7, <2>12, <3>2, <3>3, NullAssumption DEF Usable, Ready, Driven
    <3>6. Trust(d)'
      BY Zenon, <2>4, <2>6, <2>9, <2>12, <3>5 DEF Trust
    <3> QED BY Zenon, <3>4, <3>6
  <2>13. ASSUME w.slot = "active" /\ ~ok PROVE Settled /\ Trust(d)'
    <3> DEFINE new == [p EXCEPT !.active = Fail(p.active), !.waiter = FALSE]
    <3>1. /\ peer' = [peer EXCEPT ![d] = new]
          /\ told' = IF p.waiter THEN [told EXCEPT ![d] = "error"] ELSE told
      BY Zenon, <2>1, <2>13 DEF ResolveHandshake, ResolveWith, ok, PeerConn
    <3>2. new \in PeerConn /\ new.pending = NULL /\ new.active.status = "failed"
      BY <2>1, <2>2, <2>13, Zenon DEF PeerConn, Session, Fail
    <3>3. q = new /\ new # NULL
      BY Zenon, <2>1, <3>1, <3>2, NullAssumption
    <3> HIDE DEF new
    <3>4. Settled
      BY Zenon, <2>1, <3>1, <3>2, <3>3
    <3>5. Trust(d)'
      BY Zenon, <2>1, <2>6, <2>13, <2>8, <2>9, <3>1, <3>2, <3>3 DEF Inv, TrustInv, Trust, Usable,
         Ready
    <3> QED BY Zenon, <3>4, <3>5
  <2>14. Settled /\ Trust(d)'
    BY Zenon, <2>1, <2>10, <2>11, <2>12, <2>13 DEF Work
  <2>15. Typed'
    BY <2>3, <2>6, <2>14, SMTT(30) DEF Inv, Typed, linkVars, appVars
  <2>16. ASSUME NEW e \in Device PROVE Link(e)' /\ Working(e)' /\ Trust(e)'
    <3>1. CASE e = d
      BY Zenon, <2>1, <2>3, <2>6, <2>14, <3>1 DEF Inv, LinkInv, Link, Working, linkVars
    <3>2. CASE e # d
      <4>1. Link(e)'
        BY Zenon, <2>3, <2>14, <3>2 DEF Inv, LinkInv, Link, linkVars
      <4>2. /\ peer'[e] = peer[e] /\ told'[e] = told[e] /\ busy'[e] = busy[e]
            /\ pin'[e] = pin[e] /\ announced'[e] = announced[e] /\ last'[e] = last[e]
        BY Zenon, <2>3, <2>6, <2>14, <3>2
      <4>3. Working(e)'
        BY <4>2, ZenonT(30) DEF Inv, WorkInv, Working, Driven
      <4>4. Trust(e)'
        BY <4>2, Zenon DEF Inv, TrustInv, Trust, Usable
      <4> QED BY Zenon, <4>1, <4>3, <4>4
    <3> QED BY Zenon, <3>1, <3>2
  <2> QED BY Zenon, <2>15, <2>16 DEF Inv, LinkInv, WorkInv, TrustInv
(* A message is delivered only when readLoop is between handshake          *)
(* messages, so the session it came on was verified.                       *)
<1>7. ASSUME NEW d \in Device, HandleTransportEnvelope(d) PROVE Inv'
  <2> USE <1>7
  <2> DEFINE f == Head(net[d])
             new == [peer[d] EXCEPT !.active.recvN = @ + 1]
  <2>1. /\ Takes(d, "transport") /\ busy[d] = NULL
        /\ UNCHANGED <<up, sends, faultVars, appVars, busy, made, pin, announced, told>>
    BY Zenon DEF HandleTransportEnvelope, Takes
  <2>2. CASE peer[d] # NULL /\ Decrypts(peer[d].active, f)
    <3>1. /\ Ready(peer[d].active) /\ peer[d] \in PeerConn
          /\ peer' = [peer EXCEPT ![d] = new]
          /\ last' = [last EXCEPT ![d] = f.m] \/ last' = last
      BY Zenon, <2>2 DEF HandleTransportEnvelope, Decrypts, Inv, Typed
    <3>2. Verified(pin[d], announced[d])
      BY Zenon, <2>1, <2>2, <3>1 DEF Inv, TrustInv, Trust, Usable
    <3>3. \A e \in Device : last'[e] # last[e] => Verified(pin[e], announced[e])
      BY Zenon, <3>1, <3>2 DEF Inv, Typed
    <3>4. /\ new \in PeerConn /\ new.active # NULL /\ new.pending = peer[d].pending
          /\ new.active.status = "ready"
      BY <3>1, CountedNonce, Zenon
    <3> HIDE DEF new
    <3>5. /\ peer' \in [Device -> PeerConn \cup {NULL}]
          /\ \A e \in Device :
                 peer'[e] # NULL /\ peer'[e].pending # NULL /\ busy'[e] = NULL =>
                     peer'[e].pending.status = "handshaking"
          /\ WorkInv' /\ TrustInv'
      BY <2>1, <2>2, <3>1, <3>3, <3>4, SameSessions, Zenon DEF Ready
    <3>6. \A e \in Device \ {d} : peer'[e] = peer[e] /\ told'[e] = told[e]
      BY Zenon, <2>1, <3>1 DEF Inv, Typed
    <3>7. LinkInv' /\ net' \in [Device -> Seq(Frame)] /\ f \in Frame /\ f.type = "transport"
      BY Zenon, <2>1, <3>6, TakesLink DEF Inv
    <3>8. last' \in [Device -> Nat]
      BY <3>1, <3>7, Zenon DEF Inv, Typed, Frame, Transport, Handshake, Notice
    <3>9. Typed'
      BY <2>1, <3>5, <3>7, <3>8, Zenon DEF Inv, Typed, appVars
    <3> QED BY Zenon, <3>5, <3>7, <3>9 DEF Inv
  <2>3. CASE ~(peer[d] # NULL /\ Decrypts(peer[d].active, f))
    <3>1. UNCHANGED <<peer, last>>
      BY Zenon, <2>3 DEF HandleTransportEnvelope
    <3>2. LinkInv' /\ net' \in [Device -> Seq(Frame)]
      BY Zenon, <2>1, <3>1, TakesLink DEF Inv
    <3>3. Typed'
      BY Zenon, <2>1, <3>1, <3>2 DEF Inv, Typed, appVars
    <3>4. WorkInv' /\ TrustInv'
      BY Zenon, <2>1, <3>1 DEF Inv, WorkInv, Working, Driven, TrustInv, Trust, Usable
    <3> QED BY Zenon, <3>2, <3>3, <3>4 DEF Inv
  <2> QED BY Zenon, <2>2, <2>3
(* Send, first step.                                                       *)
<1>8. ASSUME NEW d \in Device, Encrypt(d) PROVE Inv'
  <2> USE <1>8
  <2> DEFINE f == Ciphertext(peer[d].active, sent[d] + 1)
             new == [peer[d] EXCEPT !.active.sendN = @ + 1]
  <2>1. /\ peer[d] # NULL /\ peer[d] \in PeerConn /\ Ready(peer[d].active)
        /\ peer' = [peer EXCEPT ![d] = new]
        /\ sent' = [sent EXCEPT ![d] = @ + 1] /\ held' = [held EXCEPT ![d] = @ \cup {f}]
        /\ UNCHANGED <<linkVars, faultVars, busy, made, pin, announced, told, last>>
    BY Zenon DEF Encrypt, Inv, Typed
  <2>2. f \in Transport
    <3>1. peer[d].active \in Session
      BY Zenon, <2>1 DEF PeerConn, Ready
    <3>2. Key(peer[d].active) \in IdOrNull \X IdOrNull
      BY Zenon, <3>1 DEF Session, Key, IdOrNull
    <3> QED BY <3>1, <3>2 DEF Ciphertext, Transport, Session, Inv, Typed
  <2> HIDE DEF f
  <2>3. /\ new \in PeerConn /\ new.active # NULL /\ new.pending = peer[d].pending
        /\ new.active.status = "ready"
    BY <2>1, CountedNonce, Zenon
  <2> HIDE DEF new
  <2>4. /\ peer' \in [Device -> PeerConn \cup {NULL}]
        /\ \A e \in Device : peer'[e] = NULL <=> peer[e] = NULL
        /\ \A e \in Device :
               peer'[e] # NULL /\ peer'[e].pending # NULL /\ busy'[e] = NULL =>
                   peer'[e].pending.status = "handshaking"
        /\ WorkInv' /\ TrustInv'
    BY <2>1, <2>3, SameSessions, Zenon DEF Ready
  <2>5. LinkInv'
    BY Zenon, <2>1, <2>4 DEF Inv, LinkInv, Link, linkVars
  <2>6. DOMAIN held' = Device /\ \A e \in Device : held'[e] \subseteq Transport
    BY Zenon, <2>1, <2>2 DEF Inv, Typed
  <2>7. Typed'
    <3>1. sent' \in [Device -> Nat]
      BY <2>1 DEF Inv, Typed
    <3>2. UNCHANGED <<up, net, sends, busy, made, last, pin, announced, told>>
      BY Zenon, <2>1 DEF linkVars
    <3> QED BY <2>4, <2>6, <3>1, <3>2, Zenon DEF Inv, Typed
  <2> QED BY Zenon, <2>4, <2>5, <2>7 DEF Inv
(* Send, second step.                                                      *)
<1>9. ASSUME NEW d \in Device, QueueOrGiveUp(d) PROVE Inv'
  <2> USE <1>9
  <2>1. PICK f \in held[d] :
            /\ held' = [held EXCEPT ![d] = @ \ {f}]
            /\ Enqueue(d, f) \/ UNCHANGED sends
            /\ UNCHANGED <<up, net, faultVars, sent, peer, busy, made, pin, announced, told, last>>
    BY Zenon DEF QueueOrGiveUp
  <2>2. sends' \in [Device -> Seq(Handshake \cup Transport)]
    BY <2>1, QueueTyped, Zenon DEF Inv, Typed
  <2>3. DOMAIN held' = Device /\ \A e \in Device : held'[e] \subseteq Transport
    BY Zenon, <2>1 DEF Inv, Typed
  <2>4. Typed'
    BY <2>1, <2>2, <2>3, Zenon DEF Inv, Typed
  <2>5. LinkInv'
    BY Zenon, <2>1 DEF Inv, LinkInv, Link
  <2>6. WorkInv' /\ TrustInv'
    BY Zenon, <2>1 DEF Inv, WorkInv, Working, Driven, TrustInv, Trust, Usable
  <2> QED BY Zenon, <2>4, <2>5, <2>6 DEF Inv
(* writeLoop and the relay.                                                *)
<1>10. ASSUME NEW d \in Device, WriteFrame(d) PROVE Inv'
  <2> USE <1>10
  <2> DEFINE o == Other(d)
             f == Head(sends[d])
  <2>1. /\ sends' = [sends EXCEPT ![d] = Tail(@)] /\ sends[d] # <<>>
        /\ UNCHANGED <<up, faultVars, appVars, peer, busy, made, pin, announced, told, last>>
    BY Zenon DEF WriteFrame
  <2>2. f \in Handshake \cup Transport /\ Tail(sends[d]) \in Seq(Handshake \cup Transport)
    BY <2>1 DEF Inv, Typed
  <2>3. f \in Frame /\ f.type # "pair_complete"
    BY Zenon, <2>2 DEF Frame, Handshake, Transport
  <2>4. sends' \in [Device -> Seq(Handshake \cup Transport)]
    BY Zenon, <2>1, <2>2 DEF Inv, Typed
  <2>5. o \in Device
    BY Zenon, OtherDevice
  <2>6. net' \in [Device -> Seq(Frame)] /\ LinkInv'
    <3>1. CASE up[d] /\ up[o]
      <4>1. net' = [net EXCEPT ![o] = Append(@, f)] /\ net \in [Device -> Seq(Frame)]
        BY Zenon, <3>1 DEF WriteFrame, Inv, Typed
      <4> HIDE DEF f, o
      <4>2. /\ Append(net[o], f) \in Seq(Frame)
            /\ \A i \in 1 .. Len(Append(net[o], f)) :
                   Append(net[o], f)[i].type = "pair_complete" =>
                       i \in 1 .. Len(net[o]) /\ net[o][i].type = "pair_complete"
        BY Zenon, <2>3, <2>5, <4>1, AppendLink
      <4>3. net'[o] = Append(net[o], f) /\ \A e \in Device \ {o} : net'[e] = net[e]
        BY Zenon, <2>5, <4>1
      <4>4. ASSUME NEW e \in Device PROVE Link(e)'
        <5>1. CASE e = o
          <6>1. up'[o] /\ peer'[o] = peer[o] /\ told'[o] = told[o]
            BY Zenon, <2>1, <3>1
          <6>2. \A i \in 1 .. Len(net[o]) : net[o][i].type = "pair_complete" =>
                    i = 1 /\ peer[o] = NULL /\ told[o] = "nothing"
            BY Zenon, <2>5 DEF Inv, LinkInv, Link
          <6>3. Link(o)'
            BY Zenon, <4>2, <4>3, <6>1, <6>2 DEF Link
          <6> QED BY Zenon, <5>1, <6>3
        <5>2. CASE e # o
          BY Zenon, <2>1, <4>3, <5>2 DEF Inv, LinkInv, Link
        <5> QED BY Zenon, <5>1, <5>2
      <4> QED BY Zenon, <2>5, <4>1, <4>2, <4>4 DEF LinkInv
    <3>2. CASE ~(up[d] /\ up[o])
      <4>1. net' = net
        BY Zenon, <3>2 DEF WriteFrame
      <4> QED BY Zenon, <2>1, <4>1 DEF Inv, Typed, LinkInv, Link
    <3> QED BY Zenon, <3>1, <3>2
  <2>7. Typed'
    BY Zenon, <2>1, <2>4, <2>6 DEF Inv, Typed, appVars
  <2>8. WorkInv' /\ TrustInv'
    BY <2>1, Zenon DEF Inv, WorkInv, Working, Driven, TrustInv, Trust, Usable
  <2> QED BY Zenon, <2>6, <2>7, <2>8 DEF Inv
(* Two seconds pass.                                                       *)
<1>11. ASSUME NEW d \in Device, IntervalElapses(d) PROVE Inv'
  <2> USE <1>11
  <2> DEFINE new == [peer[d] EXCEPT !.recent = FALSE]
  <2>1. /\ peer[d] # NULL /\ peer[d] \in PeerConn /\ peer' = [peer EXCEPT ![d] = new]
        /\ UNCHANGED <<linkVars, faultVars, appVars, busy, made, pin, announced, told, last>>
    BY Zenon DEF IntervalElapses, Inv, Typed
  <2>2. new \in PeerConn /\ new.active = peer[d].active /\ new.pending = peer[d].pending
    BY <2>1, Zenon DEF PeerConn
  <2> HIDE DEF new
  <2>3. /\ peer' \in [Device -> PeerConn \cup {NULL}]
        /\ \A e \in Device : peer'[e] = NULL <=> peer[e] = NULL
        /\ \A e \in Device :
               peer'[e] # NULL /\ peer'[e].pending # NULL /\ busy'[e] = NULL =>
                   peer'[e].pending.status = "handshaking"
        /\ WorkInv' /\ TrustInv'
    BY <2>1, <2>2, SameSessions, Zenon
  <2>4. LinkInv'
    BY Zenon, <2>1, <2>3 DEF Inv, LinkInv, Link, linkVars
  <2>5. Typed'
    BY Zenon, <2>1, <2>3 DEF Inv, Typed, linkVars, appVars
  <2> QED BY Zenon, <2>3, <2>4, <2>5 DEF Inv
(* Faults: what is on its way to a device is lost, and a process that ends *)
(* takes its sessions with it.                                             *)
<1>12. ASSUME NEW d \in Device, Lose(d) PROVE Inv'
  <2> USE <1>12
  <2>1. /\ up' = [up EXCEPT ![d] = FALSE] /\ net' = [net EXCEPT ![d] = <<>>]
        /\ UNCHANGED <<sends, appVars, peer, busy, made, pin, announced, told, last>>
    BY Zenon DEF Lose
  <2>2. /\ net'[d] = <<>> /\ Len(net'[d]) = 0
        /\ \A e \in Device \ {d} : net'[e] = net[e] /\ up'[e] = up[e]
    BY Zenon, <2>1 DEF Inv, Typed
  <2>3. up' \in [Device -> BOOLEAN] /\ net' \in [Device -> Seq(Frame)]
    BY <2>1 DEF Inv, Typed
  <2>4. Typed'
    BY Zenon, <2>1, <2>3 DEF Inv, Typed, appVars
  <2>5. LinkInv'
    BY <2>1, <2>2 DEF Inv, LinkInv, Link
  <2>6. WorkInv' /\ TrustInv'
    BY Zenon, <2>1 DEF Inv, WorkInv, Working, Driven, TrustInv, Trust, Usable
  <2> QED BY Zenon, <2>4, <2>5, <2>6 DEF Inv
(* A restarted process has its pin and nothing else.                       *)
<1>13. ASSUME NEW d \in Device, Restart(d) PROVE Inv'
  <2> USE <1>13
  <2>1. /\ up' = [up EXCEPT ![d] = FALSE] /\ net' = [net EXCEPT ![d] = <<>>]
        /\ sends' = [sends EXCEPT ![d] = <<>>] /\ held' = [held EXCEPT ![d] = {}]
        /\ peer' = [peer EXCEPT ![d] = NULL] /\ busy' = [busy EXCEPT ![d] = NULL]
        /\ told' = [told EXCEPT ![d] = "nothing"]
        /\ UNCHANGED <<made, pin, announced, sent, last>>
    BY Zenon DEF Restart
  <2>2. /\ net'[d] = <<>> /\ Len(net'[d]) = 0 /\ peer'[d] = NULL /\ busy'[d] = NULL
        /\ told'[d] = "nothing" /\ held'[d] = {}
        /\ \A e \in Device \ {d} :
               /\ net'[e] = net[e] /\ up'[e] = up[e] /\ peer'[e] = peer[e]
               /\ busy'[e] = busy[e] /\ told'[e] = told[e] /\ held'[e] = held[e]
    BY Zenon, <2>1 DEF Inv, Typed
  <2>3. /\ up' \in [Device -> BOOLEAN] /\ net' \in [Device -> Seq(Frame)]
        /\ sends' \in [Device -> Seq(Handshake \cup Transport)] /\ DOMAIN held' = Device
        /\ peer' \in [Device -> PeerConn \cup {NULL}] /\ busy' \in [Device -> Work \cup {NULL}]
        /\ told' \in [Device -> {"nothing", "paired", "error"}]
    BY <2>1 DEF Inv, Typed
  <2>5. \A e \in Device :
            /\ held'[e] \subseteq Transport
            /\ peer'[e] # NULL /\ peer'[e].pending # NULL /\ busy'[e] = NULL =>
                   peer'[e].pending.status = "handshaking"
    <3> TAKE e \in Device
    <3>1. CASE e = d
      BY <2>2, <3>1, Zenon
    <3>2. CASE e # d
      BY Zenon, <2>2, <3>2 DEF Inv, Typed
    <3> QED BY Zenon, <3>1, <3>2
  <2>6. Typed'
    BY Zenon, <2>1, <2>3, <2>5 DEF Inv, Typed
  <2>7. LinkInv'
    BY <2>2 DEF Inv, LinkInv, Link
  <2>8. WorkInv'
    BY <2>2, SMTT(30) DEF Inv, WorkInv, Working, Driven
  <2>9. TrustInv'
    BY <2>1, <2>2 DEF Inv, TrustInv, Trust, Usable
  <2> QED BY Zenon, <2>6, <2>7, <2>8, <2>9 DEF Inv
(* A device that connects again finds an empty connection.                 *)
<1>14. ASSUME NEW d \in Device, Reconnect(d) PROVE Inv'
  <2> USE <1>14
  <2> DEFINE new == IF peer[d] = NULL THEN NewPeerConn(FALSE) ELSE peer[d]
  <2>1. /\ ~up[d] /\ busy[d] = NULL /\ up' = [up EXCEPT ![d] = TRUE]
        /\ peer' = [peer EXCEPT ![d] = new]
        /\ net' = IF up[Other(d)] THEN [e \in Device |-> Append(net[e], PeerStatus)] ELSE net
        /\ UNCHANGED <<sends, faultVars, appVars, busy, made, pin, announced, told, last>>
    BY Zenon DEF Reconnect
  <2>2. /\ new \in PeerConn /\ new # NULL
        /\ peer[d] # NULL => new = peer[d]
        /\ peer[d] = NULL => new.active = NULL /\ new.pending = NULL
    <3>1. /\ NewPeerConn(FALSE) \in PeerConn
          /\ NewPeerConn(FALSE).active = NULL /\ NewPeerConn(FALSE).pending = NULL
      BY Zenon DEF NewPeerConn, PeerConn
    <3> QED BY <3>1, NullAssumption, Zenon DEF Inv, Typed
  <2> HIDE DEF new
  <2>3. /\ peer'[d] = new /\ \A e \in Device \ {d} : peer'[e] = peer[e] /\ up'[e] = up[e]
        /\ peer' \in [Device -> PeerConn \cup {NULL}] /\ up' \in [Device -> BOOLEAN] /\ up'[d]
    BY <2>1, <2>2, Zenon DEF Inv, Typed
  <2>4. PeerStatus \in Frame /\ PeerStatus.type # "pair_complete"
    BY Zenon DEF PeerStatus, Frame, Notice
  <2>5. ASSUME NEW e \in Device, up[Other(d)]
        PROVE  /\ net'[e] = Append(net[e], PeerStatus) /\ net'[e] \in Seq(Frame)
               /\ \A i \in 1 .. Len(net'[e]) :
                      net'[e][i].type = "pair_complete" =>
                          i \in 1 .. Len(net[e]) /\ net[e][i].type = "pair_complete"
    <3>1. net[e] \in Seq(Frame) /\ net'[e] = Append(net[e], PeerStatus)
      BY <2>1, <2>5, Zenon DEF Inv, Typed
    <3> QED BY Zenon, <2>4, <3>1, AppendLink
  <2>6. net' \in [Device -> Seq(Frame)]
    <3>1. CASE up[Other(d)]
      BY Zenon, <2>1, <2>5, <3>1
    <3>2. CASE ~up[Other(d)]
      BY Zenon, <2>1, <3>2 DEF Inv, Typed
    <3> QED BY Zenon, <3>1, <3>2
  <2>7. \A e \in Device : \A i \in 1 .. Len(net'[e]) :
            net'[e][i].type = "pair_complete" =>
                i \in 1 .. Len(net[e]) /\ net[e][i].type = "pair_complete"
    BY Zenon, <2>1, <2>5
  <2>8. LinkInv'
    <3>1. ASSUME NEW e \in Device PROVE Link(e)'
      <4>1. CASE e = d
        <5>1. net[d] = <<>> /\ Len(net[d]) = 0
          BY <2>1 DEF Inv, LinkInv, Link
        <5>2. \A i \in 1 .. Len(net'[d]) : net'[d][i].type # "pair_complete"
          BY <2>7, <5>1
        <5> QED BY Zenon, <2>3, <4>1, <5>2 DEF Link
      <4>2. CASE e # d
        <5>1. up'[e] => up[e]
          BY Zenon, <2>3, <4>2
        <5>2. ~up'[e] => net'[e] = <<>>
          <6>1. CASE up[Other(d)]
            BY <2>3, <4>2, <6>1, DeviceAssumption, OtherDevice
          <6>2. CASE ~up[Other(d)]
            BY Zenon, <2>1, <2>3, <4>2, <6>2 DEF Inv, LinkInv, Link
          <6> QED BY Zenon, <6>1, <6>2
        <5> QED BY <2>1, <2>3, <2>7, <4>2, <5>2 DEF Inv, LinkInv, Link
      <4> QED BY Zenon, <4>1, <4>2
    <3> QED BY Zenon, <3>1 DEF LinkInv
  <2>9. Typed'
    <3>1. \A e \in Device :
              peer'[e] # NULL /\ peer'[e].pending # NULL /\ busy'[e] = NULL =>
                  peer'[e].pending.status = "handshaking"
      <4> TAKE e \in Device
      <4>1. CASE e = d
        <5>1. peer[d] = NULL => peer'[d].pending = NULL
          BY Zenon, <2>2, <2>3
        <5>2. peer[d] # NULL => peer'[d] = peer[d] /\ busy'[d] = busy[d]
          BY Zenon, <2>1, <2>2, <2>3
        <5> QED BY Zenon, <4>1, <5>1, <5>2 DEF Inv, Typed
      <4>2. CASE e # d
        BY Zenon, <2>1, <2>3, <4>2 DEF Inv, Typed
      <4> QED BY Zenon, <4>1, <4>2
    <3>2. UNCHANGED <<sends, held, sent, busy, made, pin, announced, told, last>>
      BY Zenon, <2>1 DEF appVars
    <3> QED BY <2>3, <2>6, <3>1, <3>2, Zenon DEF Inv, Typed
  <2>10. WorkInv'
    BY Zenon, <2>1, <2>3 DEF Inv, WorkInv, Working, Driven
  <2>11. TrustInv'
    <3>1. ASSUME NEW e \in Device PROVE Trust(e)'
      <4>1. Usable(e)' <=> Usable(e)
        BY Zenon, <2>1, <2>2, <2>3 DEF Usable, Ready
      <4> QED BY Zenon, <2>1, <4>1 DEF Inv, TrustInv, Trust
    <3> QED BY Zenon, <3>1 DEF TrustInv
  <2> QED BY Zenon, <2>8, <2>9, <2>10, <2>11 DEF Inv
<1>15. CASE UNCHANGED vars
  <2>1. UNCHANGED <<up, net, sends, held, sent, peer, busy, made, pin, announced, told, last>>
    BY Zenon, <1>15 DEF vars, linkVars, appVars
  <2>2. Typed'
    BY Zenon, <2>1 DEF Inv, Typed
  <2>3. LinkInv'
    BY Zenon, <2>1 DEF Inv, LinkInv, Link
  <2>4. WorkInv' /\ TrustInv'
    BY Zenon, <2>1 DEF Inv, WorkInv, Working, Driven, TrustInv, Trust, Usable
  <2> QED BY Zenon, <2>2, <2>3, <2>4 DEF Inv
<1> QED
  BY Zenon, <1>1, <1>2, <1>3, <1>4, <1>5, <1>6, <1>7, <1>8, <1>9, <1>10, <1>11, <1>12, <1>13,
     <1>14, <1>15, Zenon DEF Next

(* The invariant holds in every reachable state.                           *)
THEOREM Invariance == Spec => []Inv
BY InitInv, NextInv, PTL DEF Spec

(* A pairing call that reported success left a session to send on, whose   *)
(* key is the pinned one (AcceptPair, PendingPair.Wait).                   *)
THEOREM PairedDevicesCanSend == Spec => []PairedIsUsable
<1>1. Inv => PairedIsUsable
  BY Zenon DEF Inv, TrustInv, Trust, PairedIsUsable
<1> QED BY <1>1, Invariance, PTL

(* No message of a peer whose key was not verified reaches an application  *)
(* (verifyAndPin before handleTransportEnvelope can deliver).              *)
THEOREM OnlyVerifiedPeersAreHeard == Spec => []DeliveredMeansVerified
<1>1. Inv => DeliveredMeansVerified
  BY Zenon DEF Inv, TrustInv, Trust, DeliveredMeansVerified
<1> QED BY <1>1, Invariance, PTL

-----------------------------------------------------------------------------
(* What one step may do to a usable session.                               *)
Kept(d) ==
    Usable(d) /\ peer'[d] # NULL =>
        /\ Ready(peer'[d].active)
        /\ peer'[d].active.id # peer[d].active.id => Verified(pin'[d], announced[d])

(* readLoop feeds a handshake message to the active session only when that *)
(* session is not ready.                                                   *)
LEMMA FeedSpares ==
    ASSUME NEW d \in Device, Inv, busy[d] = NULL, peer[d] # NULL, NEW s,
           NEW slot \in {"active", "pending"}, slot = "active" => ~Ready(peer[d].active),
           Feed(d, s, slot)
    PROVE  \A e \in Device : Kept(e)
<1>1. /\ peer \in [Device -> PeerConn \cup {NULL}] /\ peer[d] \in PeerConn
      /\ peer' = [peer EXCEPT ![d] =
             Fed(peer[d], slot, HandleHandshakeMessage(s, Head(net[d])).session)]
  BY Zenon DEF Inv, Typed, Feed
<1>2. slot = "pending" => peer'[d].active = peer[d].active
  BY Zenon, <1>1 DEF Fed, PeerConn
<1>3. Kept(d)
  BY Zenon, <1>2 DEF Kept, Usable
<1> QED BY Zenon, <1>1, <1>3 DEF Kept, Usable

(* resolveHandshake gives the active session up only for a verified one.   *)
LEMMA ResolveSpares ==
    ASSUME NEW d \in Device, Inv, ResolveHandshake(d)
    PROVE  \A e \in Device : Kept(e)
<1> DEFINE p == peer[d]
           ok == Accepts(d)
<1>1. /\ peer \in [Device -> PeerConn \cup {NULL}] /\ busy[d] # NULL /\ busy[d].done
      /\ p # NULL /\ p \in PeerConn
  BY Zenon DEF Inv, Typed, WorkInv, Working, ResolveHandshake, ResolveWith
<1>2. CASE busy[d].slot = "pending" /\ ok
  <2>1. peer' = [peer EXCEPT ![d] = [p EXCEPT !.active = p.pending, !.pending = NULL,
                                              !.waiter = FALSE]]
    BY Zenon, <1>2 DEF ResolveHandshake, ResolveWith
  <2>2. peer'[d].active = p.pending /\ \A e \in Device \ {d} : peer'[e] = peer[e]
    BY Zenon, <1>1, <2>1 DEF PeerConn
  <2>3. Ready(p.pending)
    BY Zenon, <1>1, <1>2 DEF Inv, WorkInv, Working, Driven, Accepts, Ready
  <2>4. Verified(pin'[d], announced[d])
    BY Zenon, <1>2 DEF ResolveHandshake, ResolveWith, Accepts, Inv, Typed
  <2> QED BY Zenon, <2>2, <2>3, <2>4 DEF Kept, Usable
<1>3. CASE busy[d].slot = "pending" /\ ~ok
  <2>1. peer' = [peer EXCEPT ![d] = [p EXCEPT !.pending = NULL]]
    BY Zenon, <1>3 DEF ResolveHandshake, ResolveWith
  <2>2. peer'[d].active = p.active /\ \A e \in Device \ {d} : peer'[e] = peer[e]
    BY Zenon, <1>1, <2>1 DEF PeerConn
  <2> QED BY Zenon, <2>2 DEF Kept, Usable
<1>4. CASE busy[d].slot # "pending"
  <2>1. busy[d].slot = "active"
    BY Zenon, <1>1, <1>4 DEF Inv, Typed, Work
  <2>2. ~Usable(d)
    BY Zenon, <1>1, <2>1 DEF Usable
  <2>3. \A e \in Device \ {d} : peer'[e] = peer[e]
    BY Zenon, <1>1 DEF ResolveHandshake, ResolveWith
  <2> QED BY Zenon, <2>2, <2>3 DEF Kept, Usable
<1> QED BY Zenon, <1>2, <1>3, <1>4

(* The steps of readLoop that start a handshake leave the active session   *)
(* of a device that has one.                                               *)
LEMMA StartSpares ==
    ASSUME NEW d \in Device, Inv, HandlePairComplete(d) \/ HandlePeerStatus(d)
    PROVE  \A e \in Device : Kept(e)
<1>1. peer \in [Device -> PeerConn \cup {NULL}]
  BY Zenon DEF Inv, Typed
<1>2. CASE HandlePairComplete(d)
  <2>1. peer[d] = NULL
    <3>1. net[d] \in Seq(Frame) /\ net[d] # <<>> /\ Head(net[d]).type = "pair_complete"
      BY Zenon, <1>2 DEF HandlePairComplete, Takes, Inv, Typed
    <3>2. 1 \in 1 .. Len(net[d]) /\ Head(net[d]) = net[d][1]
      BY <3>1
    <3> QED BY Zenon, <3>1, <3>2 DEF Inv, LinkInv, Link
  <2>2. \A e \in Device \ {d} : peer'[e] = peer[e]
    BY <1>1, <1>2, Zenon DEF HandlePairComplete
  <2> QED BY Zenon, <2>1, <2>2 DEF Kept, Usable
<1>3. CASE HandlePeerStatus(d)
  <2>1. CASE d = Smaller /\ peer[d] # NULL
    <3>1. peer[d] \in PeerConn
      BY Zenon, <1>1, <2>1
    <3>2. peer' = [peer EXCEPT ![d].pending = NextSession(d, TRUE)]
      BY <1>3, <2>1, Zenon DEF HandlePeerStatus, StartRekey
    <3>3. peer'[d].active = peer[d].active /\ \A e \in Device \ {d} : peer'[e] = peer[e]
      BY Zenon, <1>1, <3>1, <3>2 DEF PeerConn
    <3> QED BY Zenon, <3>3 DEF Kept, Usable
  <2>2. CASE ~(d = Smaller /\ peer[d] # NULL)
    BY Zenon, <1>3, <2>2 DEF HandlePeerStatus, Kept, Usable
  <2> QED BY Zenon, <2>1, <2>2
<1> QED BY Zenon, <1>2, <1>3

(* Using a session, and letting time pass, keeps it.                       *)
LEMMA UseSpares ==
    ASSUME NEW d \in Device, Inv,
           Encrypt(d) \/ HandleTransportEnvelope(d) \/ IntervalElapses(d)
    PROVE  \A e \in Device : Kept(e)
<1>1. peer \in [Device -> PeerConn \cup {NULL}]
  BY Zenon DEF Inv, Typed
<1> DEFINE counted(a) == \/ a = peer[d].active
                         \/ a = [peer[d].active EXCEPT !.sendN = @ + 1]
                         \/ a = [peer[d].active EXCEPT !.recvN = @ + 1]
<1>2. /\ \A e \in Device \ {d} : peer'[e] = peer[e]
      /\ peer[d] # NULL => counted(peer'[d].active)
  <2>1. CASE Encrypt(d)
    BY Zenon, <1>1, <2>1 DEF Encrypt, PeerConn
  <2>2. CASE HandleTransportEnvelope(d)
    BY Zenon, <1>1, <2>2 DEF HandleTransportEnvelope, PeerConn
  <2>3. CASE IntervalElapses(d)
    BY Zenon, <1>1, <2>3 DEF IntervalElapses, PeerConn
  <2> QED BY Zenon, <2>1, <2>2, <2>3
<1>3. ASSUME Usable(d)
      PROVE  Ready(peer'[d].active) /\ peer'[d].active.id = peer[d].active.id
  <2>1. peer[d].active \in Session /\ peer[d].active.status = "ready"
    BY Zenon, <1>1, <1>3 DEF Usable, Ready, PeerConn
  <2>2. /\ peer'[d].active \in Session /\ peer'[d].active.status = "ready"
        /\ peer'[d].active.id = peer[d].active.id
    BY <1>2, <1>3, <2>1 DEF Session, Usable
  <2> QED BY Zenon, <2>2, NullAssumption DEF Ready
<1> QED BY Zenon, <1>2, <1>3 DEF Kept, Usable

(* While its process lives, a device that has a usable session keeps one,  *)
(* and changes it only for a verified one (resolveHandshake, promote,      *)
(* abandon), whatever handshakes cross, fail or get lost.                  *)
THEOREM SessionsAreMadeBeforeBroken == Spec => MakeBeforeBreak
<1>1. Inv /\ [Next]_vars => [\A d \in Device : Kept(d)]_vars
  <2> SUFFICES ASSUME Inv, Next PROVE \A e \in Device : Kept(e)
    OBVIOUS
  <2>1. PICK d \in Device :
            \/ HandlePairComplete(d) \/ HandlePeerStatus(d)
            \/ ContinueHandshake(d) \/ AnswerHandshake(d) \/ DropHandshake(d)
            \/ EnqueueReply(d) \/ ResolveHandshake(d) \/ HandleTransportEnvelope(d)
            \/ Encrypt(d) \/ QueueOrGiveUp(d) \/ WriteFrame(d) \/ IntervalElapses(d)
            \/ Lose(d) \/ Restart(d) \/ Reconnect(d)
    BY Zenon DEF Next
  <2>2. CASE HandlePairComplete(d) \/ HandlePeerStatus(d)
    BY Zenon, <2>2, StartSpares
  <2>3. CASE ContinueHandshake(d)
    BY Zenon, <2>3, FeedSpares DEF ContinueHandshake, Takes
  <2>4. CASE AnswerHandshake(d)
    BY <2>4, FeedSpares, Zenon DEF AnswerHandshake, Takes, Ready
  <2>5. CASE ResolveHandshake(d)
    BY Zenon, <2>5, ResolveSpares
  <2>6. CASE Encrypt(d) \/ HandleTransportEnvelope(d) \/ IntervalElapses(d)
    BY Zenon, <2>6, UseSpares
  <2>7. CASE UNCHANGED peer
    BY Zenon, <2>7 DEF Kept, Usable
  <2>8. CASE Restart(d) \/ Reconnect(d)
    <3>1. \A e \in Device : peer[e] # NULL /\ peer'[e] # NULL => peer'[e] = peer[e]
      BY <2>8, Zenon DEF Restart, Reconnect, Inv, Typed
    <3> QED BY Zenon, <3>1 DEF Kept, Usable
  <2>9. DropHandshake(d) \/ EnqueueReply(d) \/ QueueOrGiveUp(d) \/ WriteFrame(d) \/ Lose(d) =>
            UNCHANGED peer
    BY Zenon DEF DropHandshake, EnqueueReply, QueueOrGiveUp, WriteFrame, Lose
  <2> QED BY Zenon, <2>1, <2>2, <2>3, <2>4, <2>5, <2>6, <2>7, <2>8, <2>9
<1>2. [\A d \in Device : Kept(d)]_vars =>
          [\A d \in Device :
              Usable(d) /\ peer'[d] # NULL =>
                  /\ Ready(peer'[d].active)
                  /\ peer'[d].active.id # peer[d].active.id =>
                         Verified(pin'[d], announced[d])]_vars
  BY Zenon DEF Kept
<1> QED BY <1>1, <1>2, Invariance, PTL DEF Spec, MakeBeforeBreak
-----------------------------------------------------------------------------
(***************************************************************************)
(* The connection as a channel.  What follows is about the frames that a   *)
(* device e has for the other, d, and about the sessions of both.          *)
(***************************************************************************)

(* Leaves that name no other prover are for Zenon.                         *)
USE Zenon

(* The sessions a device has, the reply its readLoop is about to queue,    *)
(* and the frames of e that d has not handled yet.                         *)
Live(d) == IF peer[d] = NULL THEN {} ELSE {peer[d].active, peer[d].pending} \ {NULL}
Reply(e) == IF busy[e] = NULL THEN {} ELSE {busy[e].reply} \ {NULL}
Flight(e, d) == Elements(net[d]) \cup Elements(sends[e]) \cup held[e] \cup Reply(e)
Handshakes(e, d) == {f \in Flight(e, d) : f.type = "handshake"}
Ciphertexts(e, d) == {f \in Flight(e, d) : f.type = "transport"}

(* An ephemeral key that d has used.                                       *)
KeyOf(d, i) == i \in Id /\ i[1] = d /\ i[2] <= made[d]

(* A session of d, and the two that a peerConn may hold: a replacement is  *)
(* the later one at both ends.                                             *)
Sound(s, d, e) ==
    /\ KeyOf(d, s.id)
    /\ s.remote # NULL => KeyOf(e, s.remote)
    /\ s.initiator \/ s.gotMsg1
    /\ s.initiator /\ s.status = "handshaking" => s.remote = NULL
    /\ s.status = "ready" => s.remote # NULL
Succeeds(p) ==
    p.active # NULL /\ p.pending # NULL =>
        /\ p.active.id[2] < p.pending.id[2]
        /\ p.active.status = "ready" /\ p.pending.remote # NULL =>
               p.active.remote[2] < p.pending.remote[2]
SessionsInv(d, e) ==
    (\A s \in Live(d) : Sound(s, d, e)) /\ (peer[d] # NULL => Succeeds(peer[d]))

(* A handshake message fits the session t that sent it, and the session s  *)
(* it may be read by.  What opens a handshake comes from a session that is *)
(* later than the ones heard of before.                                    *)
Opens(f) == f.type = "handshake" /\ f.n # 3
Addressed(f, e, d) ==
    /\ KeyOf(e, f.from)
    /\ f.to # NULL => KeyOf(d, f.to)
    /\ f.n = 3 => f.to # NULL
SentBy(f, t) ==
    t.id = f.from =>
        /\ f.n = 2 /\ f.to # NULL => ~t.initiator /\ t.remote = f.to
        /\ f.n = 3 => t.initiator /\ t.status # "handshaking" /\ t.remote = f.to
ReadBy(f, s) ==
    /\ f.n = 3 /\ s.id = f.to => ~s.initiator /\ s.remote = f.from
    /\ Opens(f) /\ s.remote # NULL => s.remote[2] < f.from[2]
MessagesInv(e, d) ==
    \A f \in Handshakes(e, d) :
        /\ Addressed(f, e, d)
        /\ \A t \in Live(e) : SentBy(f, t)
        /\ \A s \in Live(d) : ReadBy(f, s)

(* A session that is ready has the other end's keys.                       *)
Mates(t, s) ==
    t.status = "ready" /\ t.remote = s.id => s.remote = t.id /\ s.initiator # t.initiator
MatesInv(e, d) == \A t \in Live(e) : \A s \in Live(d) : Mates(t, s)

(* Handshakes are opened in the order in which their sessions were made.   *)
Before(f, g) == Opens(f) /\ Opens(g) => f.from[2] < g.from[2]
Sorted(q) == \A i, j \in DOMAIN q : i < j => Before(q[i], q[j])
FifoInv(e, d) ==
    /\ Sorted(net[d]) /\ Sorted(sends[e])
    /\ \A f \in Elements(net[d]) : \A g \in Elements(sends[e]) : Before(f, g)
    /\ \A f \in Elements(net[d]) \cup Elements(sends[e]) : \A g \in Reply(e) : Before(f, g)

(* A ciphertext names a session of each device.  It was encrypted under an *)
(* active session, t at best, with a nonce that t has used; a session s    *)
(* that can decrypt it has not delivered anything later.                   *)
End(key, d) == IF key[1][1] = d THEN key[1] ELSE key[2]
Between(key, e, d) ==
    \/ KeyOf(e, key[1]) /\ KeyOf(d, key[2])
    \/ KeyOf(d, key[1]) /\ KeyOf(e, key[2])
Encrypted(f, t, e) ==
    /\ End(f.key, e)[2] <= t.id[2]
    /\ t.id = End(f.key, e) => t.status # "handshaking" /\ Key(t) = f.key /\ f.n < t.sendN
Undelivered(f, s, d) ==
    s.id = End(f.key, d) => Key(s) = f.key /\ (s.recvN <= f.n => last[d] < f.m)
CiphersInv(e, d) ==
    /\ last[d] <= sent[e]
    /\ \A f \in Ciphertexts(e, d) :
           /\ Between(f.key, e, d) /\ f.m <= sent[e]
           /\ \A t \in Live(e) : Encrypted(f, t, e)
           /\ peer[e] # NULL /\ peer[e].pending # NULL => peer[e].pending.id # End(f.key, e)
           /\ \A s \in Live(d) : Undelivered(f, s, d)

(* Messages are encrypted in the order of sessions and nonces.             *)
Ascending(f, g, e) ==
    End(f.key, e)[2] < End(g.key, e)[2] \/ (f.key = g.key /\ f.n < g.n) => f.m < g.m
OrderInv(e, d) == \A f, g \in Ciphertexts(e, d) : Ascending(f, g, e)

Linked(e, d) ==
    /\ SessionsInv(d, e) /\ MessagesInv(e, d) /\ MatesInv(e, d)
    /\ FifoInv(e, d) /\ CiphersInv(e, d) /\ OrderInv(e, d)
ChannelInv == \A d, e \in Device : d # e => Linked(e, d)

-----------------------------------------------------------------------------
(* A session after a step that neither finishes nor starts a handshake.    *)
Grown(u, s) ==
    /\ u.id = s.id /\ u.initiator = s.initiator /\ u.gotMsg1 = s.gotMsg1 /\ u.remote = s.remote
    /\ u.status = s.status \/ u.status = "failed"
    /\ s.sendN <= u.sendN /\ s.recvN <= u.recvN

(* A session that has not changed has grown.                               *)
LEMMA GrownSelf == \A s \in Session : Grown(s, s)
BY SMT DEF Grown, Session

(* Two different devices are all there are, and each is the other of the   *)
(* other.                                                                  *)
LEMMA TwoDevices ==
    ASSUME NEW d \in Device, NEW e \in Device, d # e
    PROVE  Other(d) = e /\ Other(e) = d /\ \A z \in Device : z = d \/ z = e
<1>1. PICK x \in Device, y \in Device : Device = {x, y}
  BY DeviceAssumption
<1>2. \A z \in Device : z = d \/ z = e
  BY <1>1
<1> QED BY <1>2, OtherDevice

(* The frames and sessions have the types their names say.                 *)
LEMMA FlightTyped ==
    ASSUME Typed, NEW d \in Device, NEW e \in Device
    PROVE  /\ Handshakes(e, d) \subseteq Handshake /\ Ciphertexts(e, d) \subseteq Transport
           /\ Live(d) \subseteq Session
           /\ made[d] \in Nat /\ sent[d] \in Nat /\ last[d] \in Nat
<1>1. /\ net[d] \in Seq(Frame) /\ sends[e] \in Seq(Handshake \cup Transport)
      /\ held[e] \subseteq Transport /\ busy[e] \in Work \cup {NULL}
      /\ peer[d] \in PeerConn \cup {NULL}
      /\ made[d] \in Nat /\ sent[d] \in Nat /\ last[d] \in Nat
  BY DEF Typed
<1>2. Elements(net[d]) \subseteq Frame
  BY SMT, <1>1 DEF Elements
<1>3. Elements(sends[e]) \subseteq Handshake \cup Transport
  BY SMT, <1>1 DEF Elements
<1>4. Reply(e) \subseteq Handshake
  BY <1>1 DEF Reply, Work
<1>5. Flight(e, d) \subseteq Frame
  BY <1>1, <1>2, <1>3, <1>4 DEF Flight, Frame
<1>6. /\ Handshakes(e, d) \subseteq Handshake
      /\ Ciphertexts(e, d) \subseteq Transport
  BY <1>5 DEF Handshakes, Ciphertexts, Frame, Handshake, Transport, Notice
<1>7. Live(d) \subseteq Session
  BY <1>1 DEF Live, PeerConn
<1> QED BY <1>1, <1>6, <1>7

(* The sessions and counters have their types after the step too.          *)
LEMMA LiveTyped ==
    ASSUME Typed', NEW d \in Device
    PROVE  Live(d)' \subseteq Session /\ made'[d] \in Nat /\ sent'[d] \in Nat /\ last'[d] \in Nat
<1>1. peer'[d] \in PeerConn \cup {NULL}
  BY DEF Typed
<1>2. Live(d)' \subseteq Session
  BY <1>1 DEF Live, PeerConn
<1> QED BY <1>2 DEF Typed

(* The two ends of a session's key.                                        *)
LEMMA KeyEnds ==
    ASSUME NEW d \in Device, NEW e \in Device, d # e, NEW s \in Session,
           Sound(s, d, e), s.remote # NULL
    PROVE  /\ Between(Key(s), d, e) /\ Between(Key(s), e, d)
           /\ End(Key(s), d) = s.id /\ End(Key(s), e) = s.remote
<1>1. KeyOf(d, s.id) /\ KeyOf(e, s.remote) /\ s.id[1] = d /\ s.remote[1] = e
  BY DEF Sound, KeyOf
<1>2. CASE s.initiator
  <2>1. Key(s)[1] = s.id /\ Key(s)[2] = s.remote
    BY <1>2 DEF Key
  <2> QED BY <1>1, <2>1 DEF Between, End
<1>3. CASE ~s.initiator
  <2>1. Key(s)[1] = s.remote /\ Key(s)[2] = s.id
    BY <1>3 DEF Key
  <2> QED BY <1>1, <2>1 DEF Between, End
<1> QED BY <1>2, <1>3

(* NULL is nobody's handshake id.                                          *)
LEMMA NullIsNoKey == \A d \in Device : ~KeyOf(d, NULL)
BY NullAssumption DEF KeyOf

(* A session has the key of a ciphertext only when it has heard of the     *)
(* other end.                                                              *)
LEMMA KeyHeard ==
    ASSUME NEW d \in Device, NEW e \in Device, NEW s \in Session, NEW key,
           Key(s) = key, Between(key, e, d)
    PROVE  s.remote # NULL
<1>1. s.remote \in {key[1], key[2]}
  BY DEF Key
<1>2. key[1] # NULL /\ key[2] # NULL
  BY NullIsNoKey DEF Between
<1> QED BY <1>1, <1>2

(* A growing session keeps what is said about it.                          *)
LEMMA GrownKeeps ==
    ASSUME NEW s \in Session, NEW u \in Session, Grown(u, s), NEW f
    PROVE  /\ SentBy(f, s) => SentBy(f, u)
           /\ ReadBy(f, s) => ReadBy(f, u)
           /\ \A t : Mates(t, s) => Mates(t, u)
           /\ \A t : Mates(s, t) => Mates(u, t)
           /\ Key(u) = Key(s)
<1>1. "failed" # "handshaking" /\ "failed" # "ready"
  OBVIOUS
<1> QED BY <1>1 DEF Grown, SentBy, ReadBy, Mates, Key

(* A ciphertext a session has encrypted stays one as the session grows.    *)
LEMMA GrownEncrypted ==
    ASSUME NEW s \in Session, NEW u \in Session, Grown(u, s), NEW f \in Transport, NEW e,
           Encrypted(f, s, e)
    PROVE  Encrypted(f, u, e)
<1>1. Key(u) = Key(s) /\ u.id = s.id /\ (s.status # "handshaking" => u.status # "handshaking")
  BY GrownKeeps DEF Grown
<1>2. f.n < s.sendN => f.n < u.sendN
  BY SMT DEF Grown, Session, Transport
<1> QED BY <1>1, <1>2 DEF Encrypted

(* Session numbers only grow.                                              *)
MadeMore == \A z \in Device : made[z] \in Nat /\ made'[z] \in Nat /\ made[z] <= made'[z]

(* An id that was made stays made.                                         *)
LEMMA KeyStays ==
    ASSUME MadeMore, NEW d \in Device, NEW i, KeyOf(d, i)
    PROVE  KeyOf(d, i)'
<1>1. i \in Id /\ i[1] = d /\ i[2] <= made[d] /\ i[2] \in Nat
  BY SMT DEF KeyOf, Id
<1>2. i[2] <= made'[d]
  BY SMT, <1>1 DEF MadeMore
<1> QED BY <1>1, <1>2 DEF KeyOf

(* A sound session stays sound as it grows.                                *)
LEMMA GrownSound ==
    ASSUME MadeMore, NEW d \in Device, NEW e \in Device, NEW s \in Session, NEW u \in Session,
           Sound(s, d, e), Grown(u, s)
    PROVE  Sound(u, d, e)'
<1>1. KeyOf(d, s.id)' /\ (s.remote # NULL => KeyOf(e, s.remote)')
  BY KeyStays DEF Sound
<1>2. "failed" # "handshaking" /\ "failed" # "ready"
  OBVIOUS
<1> QED BY <1>1, <1>2 DEF Sound, Grown

-----------------------------------------------------------------------------
(* The parts of the invariant after a step that makes new sessions D and E *)
(* of the two devices and new frames F, and lets the other sessions grow.  *)
Grows(d, D) == \A u \in Live(d)' : u \in D \/ \E s \in Live(d) : Grown(u, s)

NewMessages(e, d, D, E, F) ==
    /\ \A f \in Handshakes(e, d)' : f \in Handshakes(e, d) \/ f \in F
    /\ \A f \in F : /\ Addressed(f, e, d)'
                    /\ \A t \in Live(e)' : SentBy(f, t)
                    /\ \A s \in Live(d)' : ReadBy(f, s)
    /\ \A f \in Handshakes(e, d) : \A t \in E : SentBy(f, t)
    /\ \A f \in Handshakes(e, d)' : f \in F \/ \A s \in D : ReadBy(f, s)
NewMates(e, d, D, E) ==
    /\ \A t \in E : \A s \in Live(d)' : Mates(t, s)
    /\ \A s \in D : \A t \in Live(e)' : Mates(t, s)

(* The handshake messages stay right when the sessions only grow, but for  *)
(* new ones that are right themselves.                                     *)
LEMMA MessagesStep ==
    ASSUME Typed, Typed', MadeMore, NEW d \in Device, NEW e \in Device, MessagesInv(e, d),
           NEW D, NEW E, NEW F, Grows(d, D), Grows(e, E), NewMessages(e, d, D, E, F)
    PROVE  MessagesInv(e, d)'
<1> USE DEF NewMessages
<1> SUFFICES ASSUME NEW f \in Handshakes(e, d)'
             PROVE  /\ Addressed(f, e, d)'
                    /\ \A t \in Live(e)' : SentBy(f, t)
                    /\ \A s \in Live(d)' : ReadBy(f, s)
  BY DEF MessagesInv
<1>1. CASE f \in F
  BY <1>1
<1>2. CASE f \notin F
  <2>1. f \in Handshakes(e, d)
    BY <1>2
  <2>2. /\ Addressed(f, e, d)
        /\ \A t \in Live(e) : SentBy(f, t)
        /\ \A s \in Live(d) : ReadBy(f, s)
    BY <2>1 DEF MessagesInv
  <2>3. Addressed(f, e, d)'
    BY <2>2, KeyStays DEF Addressed
  <2>4. ASSUME NEW t \in Live(e)' PROVE SentBy(f, t)
    <3>1. CASE t \in E
      BY <2>1, <3>1
    <3>2. CASE t \notin E
      <4>1. PICK s \in Live(e) : Grown(t, s)
        BY <3>2 DEF Grows
      <4>2. s \in Session /\ t \in Session
        BY FlightTyped, LiveTyped
      <4> QED BY <2>2, <4>1, <4>2, GrownKeeps
    <3> QED BY <3>1, <3>2
  <2>5. ASSUME NEW t \in Live(d)' PROVE ReadBy(f, t)
    <3>1. CASE t \in D
      BY <1>2, <3>1
    <3>2. CASE t \notin D
      <4>1. PICK s \in Live(d) : Grown(t, s)
        BY <3>2 DEF Grows
      <4>2. s \in Session /\ t \in Session
        BY FlightTyped, LiveTyped
      <4> QED BY <2>2, <4>1, <4>2, GrownKeeps
    <3> QED BY <3>1, <3>2
  <2> QED BY <2>3, <2>4, <2>5
<1> QED BY <1>1, <1>2

(* Sessions with the same key stay mates when they only grow, but for new  *)
(* ones that are mates themselves.                                         *)
LEMMA MatesStep ==
    ASSUME Typed, Typed', NEW d \in Device, NEW e \in Device, MatesInv(e, d),
           NEW D, NEW E, Grows(d, D), Grows(e, E), NewMates(e, d, D, E)
    PROVE  MatesInv(e, d)'
<1> SUFFICES ASSUME NEW t \in Live(e)', NEW s \in Live(d)' PROVE Mates(t, s)
  BY DEF MatesInv
<1>1. CASE t \in E \/ s \in D
  BY <1>1 DEF NewMates
<1>2. CASE t \notin E /\ s \notin D
  <2>1. PICK t0 \in Live(e) : Grown(t, t0)
    BY <1>2 DEF Grows
  <2>2. PICK s0 \in Live(d) : Grown(s, s0)
    BY <1>2 DEF Grows
  <2>3. t0 \in Session /\ s0 \in Session /\ t \in Session /\ s \in Session
    BY FlightTyped, LiveTyped
  <2>4. Mates(t0, s0)
    BY DEF MatesInv
  <2>5. Mates(t0, s)
    BY <2>2, <2>3, <2>4, GrownKeeps
  <2> QED BY <2>1, <2>3, <2>5, GrownKeeps
<1> QED BY <1>1, <1>2

(* The sessions stay sound when they only grow, but for new ones that are  *)
(* sound themselves.                                                       *)
LEMMA SoundStep ==
    ASSUME Typed, Typed', MadeMore, NEW d \in Device, NEW e \in Device,
           \A s \in Live(d) : Sound(s, d, e), NEW D, Grows(d, D), \A s \in D : Sound(s, d, e)'
    PROVE  \A s \in Live(d)' : Sound(s, d, e)'
<1> SUFFICES ASSUME NEW u \in Live(d)', u \notin D PROVE Sound(u, d, e)'
  OBVIOUS
<1>1. PICK s \in Live(d) : Grown(u, s)
  BY DEF Grows
<1>2. s \in Session /\ u \in Session
  BY FlightTyped, LiveTyped
<1> QED BY <1>1, <1>2, GrownSound

(* A replacement is later than everything that was encrypted.              *)
Waits(f, e) == peer[e] # NULL /\ peer[e].pending # NULL => peer[e].pending.id # End(f.key, e)

NewCiphers(e, d, D, E, F) ==
    /\ \A f \in Ciphertexts(e, d)' : f \in Ciphertexts(e, d) \/ f \in F
    /\ \A f \in F : /\ Between(f.key, e, d)' /\ f.m <= sent'[e]
                    /\ \A t \in Live(e)' : Encrypted(f, t, e)
                    /\ \A s \in Live(d)' : Undelivered(f, s, d)'
    /\ \A f \in Ciphertexts(e, d)' : Waits(f, e)'
    /\ \A f \in Ciphertexts(e, d) : \A t \in E : Encrypted(f, t, e)
    /\ \A f \in Ciphertexts(e, d)' :
           f \in F \/ \A s \in Live(d)' : s \in D \/ last'[d] # last[d] => Undelivered(f, s, d)'

(* The ciphertexts stay right when the sessions only grow, but for new ones*)
(* that are right themselves.                                              *)
LEMMA CiphersStep ==
    ASSUME Typed, Typed', MadeMore, NEW d \in Device, NEW e \in Device, CiphersInv(e, d),
           sent[e] <= sent'[e], last'[d] <= sent'[e],
           NEW D, NEW E, NEW F, Grows(d, D), Grows(e, E), NewCiphers(e, d, D, E, F)
    PROVE  CiphersInv(e, d)'
<1> USE DEF NewCiphers
<1> SUFFICES ASSUME NEW f \in Ciphertexts(e, d)', f \notin F
             PROVE  /\ Between(f.key, e, d)' /\ f.m <= sent'[e]
                    /\ \A t \in Live(e)' : Encrypted(f, t, e)
                    /\ \A s \in Live(d)' : Undelivered(f, s, d)'
  BY DEF CiphersInv, Waits
<1>1. /\ f \in Ciphertexts(e, d) /\ f \in Transport
      /\ sent[e] \in Nat /\ sent'[e] \in Nat
  BY FlightTyped, LiveTyped
<1>2. /\ Between(f.key, e, d) /\ f.m <= sent[e]
      /\ \A t \in Live(e) : Encrypted(f, t, e)
      /\ \A s \in Live(d) : Undelivered(f, s, d)
  BY <1>1 DEF CiphersInv
<1>3. Between(f.key, e, d)'
  BY <1>2, KeyStays DEF Between
<1>4. f.m <= sent'[e]
  BY SMT, <1>1, <1>2 DEF Transport
<1>5. ASSUME NEW t \in Live(e)' PROVE Encrypted(f, t, e)
  <2>1. CASE t \in E
    BY <1>1, <2>1
  <2>2. CASE t \notin E
    <3>1. PICK s \in Live(e) : Grown(t, s)
      BY <2>2 DEF Grows
    <3>2. s \in Session /\ t \in Session
      BY FlightTyped, LiveTyped
    <3> QED BY <1>1, <1>2, <3>1, <3>2, GrownEncrypted
  <2> QED BY <2>1, <2>2
<1>6. ASSUME NEW u \in Live(d)' PROVE Undelivered(f, u, d)'
  <2>1. CASE u \in D \/ last'[d] # last[d]
    BY <2>1
  <2>2. CASE u \notin D /\ last'[d] = last[d]
    <3>1. PICK s \in Live(d) : Grown(u, s)
      BY <2>2 DEF Grows
    <3>2. s \in Session /\ u \in Session
      BY FlightTyped, LiveTyped
    <3>3. Undelivered(f, s, d) /\ Key(u) = Key(s) /\ u.id = s.id
      BY <1>2, <3>1, <3>2, GrownKeeps DEF Grown
    <3>4. u.recvN <= f.n => s.recvN <= f.n
      BY SMT, <1>1, <3>1, <3>2 DEF Grown, Session, Transport
    <3> QED BY <2>2, <3>3, <3>4 DEF Undelivered
  <2> QED BY <2>1, <2>2
<1> QED BY <1>3, <1>4, <1>5, <1>6

(* Ciphertexts stay in order when there are no new ones.                   *)
LEMMA OrderStep ==
    ASSUME NEW d \in Device, NEW e \in Device, OrderInv(e, d),
           \A f \in Ciphertexts(e, d)' : f \in Ciphertexts(e, d)
    PROVE  OrderInv(e, d)'
BY DEF OrderInv

(* A step that only lets sessions grow, with the frames there are.         *)
Stays(d) ==
    peer'[d] # NULL /\ peer'[d].pending # NULL =>
        /\ peer[d] # NULL /\ peer[d].pending # NULL /\ Grown(peer'[d].pending, peer[d].pending)
        /\ \/ peer'[d].active = peer[d].active
           \/ peer[d].active # NULL /\ Grown(peer'[d].active, peer[d].active)

(* A pending session still succeeds the active one after such a step.      *)
LEMMA SucceedsStep ==
    ASSUME NEW d \in Device, peer[d] # NULL => Succeeds(peer[d]), Stays(d), peer'[d] # NULL
    PROVE  Succeeds(peer'[d])
<1>1. "failed" # "ready"
  OBVIOUS
<1> QED BY <1>1 DEF Succeeds, Stays, Grown

(* A ciphertext still waits for the session it was made with after such a  *)
(* step.                                                                   *)
LEMMA WaitsStep ==
    ASSUME NEW d \in Device, NEW e \in Device, CiphersInv(e, d), Stays(e),
           NEW f \in Ciphertexts(e, d)
    PROVE  Waits(f, e)'
BY DEF CiphersInv, Waits, Stays, Grown

(* What such a step leaves true of the sessions and the handshake messages.*)
LEMMA QuietSessions ==
    ASSUME Typed, Typed', MadeMore, NEW d \in Device, NEW e \in Device,
           SessionsInv(d, e), MessagesInv(e, d), MatesInv(e, d), NEW none, none = {},
           Grows(d, {}), Grows(e, {}), Stays(d),
           \A f \in Handshakes(e, d)' : f \in Handshakes(e, d)
    PROVE  SessionsInv(d, e)' /\ MessagesInv(e, d)' /\ MatesInv(e, d)'
<1>1. \A z : z \notin none
  OBVIOUS
<1>2. Grows(d, none) /\ Grows(e, none)
  OBVIOUS
<1>3. SessionsInv(d, e)'
  <2>1. \A s \in Live(d) : Sound(s, d, e)
    BY DEF SessionsInv
  <2>2. \A s \in none : Sound(s, d, e)'
    BY <1>1
  <2>3. \A s \in Live(d)' : Sound(s, d, e)'
    BY <1>2, <2>1, <2>2, SoundStep
  <2>4. peer'[d] # NULL => Succeeds(peer'[d])
    BY SucceedsStep DEF SessionsInv
  <2> QED BY <2>3, <2>4 DEF SessionsInv
<1>4. MessagesInv(e, d)'
  <2>1. NewMessages(e, d, none, none, none)
    BY <1>1 DEF NewMessages
  <2> QED BY <1>2, <2>1, MessagesStep
<1>5. MatesInv(e, d)'
  <2>1. NewMates(e, d, none, none)
    BY <1>1 DEF NewMates
  <2> QED BY <1>2, <2>1, MatesStep
<1> QED BY <1>3, <1>4, <1>5

(* Such a step keeps everything that is said about the frames of one       *)
(* direction.                                                              *)
LEMMA QuietStep ==
    ASSUME Typed, Typed', made' = made, NEW d \in Device, NEW e \in Device, Linked(e, d),
           Grows(d, {}), Grows(e, {}), Stays(d), Stays(e),
           \A f \in Flight(e, d)' : f \in Flight(e, d) \/ f = PeerStatus,
           sent'[e] = sent[e], last'[d] = last[d], FifoInv(e, d)'
    PROVE  Linked(e, d)'
<1>1. MadeMore
  BY SMT DEF MadeMore, Typed
<1>2. PeerStatus.type # "handshake" /\ PeerStatus.type # "transport"
  BY SMT DEF PeerStatus
<1>3. /\ \A f \in Handshakes(e, d)' : f \in Handshakes(e, d)
      /\ \A f \in Ciphertexts(e, d)' : f \in Ciphertexts(e, d)
  BY <1>2 DEF Handshakes, Ciphertexts
<1>4. PICK none : none = {}
  OBVIOUS
<1>5. (\A z : z \notin none) /\ Grows(d, none) /\ Grows(e, none)
  BY <1>4
<1>6. SessionsInv(d, e)' /\ MessagesInv(e, d)' /\ MatesInv(e, d)'
  BY <1>1, <1>3, <1>4, QuietSessions DEF Linked
<1>7. CiphersInv(e, d)'
  <2>1. sent[e] <= sent'[e] /\ last'[d] <= sent'[e]
    <3>1. sent[e] \in Nat /\ last[d] <= sent[e]
      BY FlightTyped DEF Linked, CiphersInv
    <3> QED BY SMT, <3>1
  <2>2. \A f \in Ciphertexts(e, d)' : Waits(f, e)'
    BY <1>3, WaitsStep DEF Linked
  <2>3. CiphersInv(e, d)
    BY DEF Linked
  <2>4. NewCiphers(e, d, none, none, none)
    BY <1>5, <1>3, <2>2 DEF NewCiphers
  <2> QED BY <1>1, <1>5, <2>1, <2>3, <2>4, CiphersStep
<1>8. OrderInv(e, d)'
  BY <1>3, OrderStep DEF Linked
<1> QED BY <1>6, <1>7, <1>8 DEF Linked

-----------------------------------------------------------------------------
(* Queues that stay sorted.                                                *)
LEMMA SortedTail ==
    ASSUME NEW S, NEW q \in Seq(S), q # <<>>
    PROVE  /\ Head(q) \in Elements(q) /\ Elements(Tail(q)) \subseteq Elements(q)
           /\ Elements(q) = Elements(Tail(q)) \cup {Head(q)}
           /\ Sorted(q) => Sorted(Tail(q)) /\ \A g \in Elements(Tail(q)) : Before(Head(q), g)
<1> DEFINE r == Tail(q)
<1>1. /\ 1 \in DOMAIN q /\ Head(q) = q[1]
      /\ DOMAIN r = 1 .. (Len(q) - 1) /\ DOMAIN q = 1 .. Len(q) /\ Len(q) \in Nat
      /\ \A i \in DOMAIN r : r[i] = q[i + 1] /\ i + 1 \in DOMAIN q /\ 1 < i + 1
  BY SMT
<1>2. \A i \in DOMAIN q : i = 1 \/ (i - 1 \in DOMAIN r /\ r[i - 1] = q[i])
  BY SMT, <1>1
<1>3. \A i, j \in DOMAIN r : i < j => i + 1 < j + 1
  BY SMT, <1>1
<1> HIDE DEF r
<1>4. Elements(q) = Elements(r) \cup {Head(q)}
  <2>1. \A z : z \in Elements(q) <=> \E i \in DOMAIN q : z = q[i]
    BY DEF Elements
  <2>2. \A z : z \in Elements(r) <=> \E i \in DOMAIN r : z = r[i]
    BY DEF Elements
  <2>3. ASSUME NEW z \in Elements(q) PROVE z \in Elements(r) \cup {Head(q)}
    <3>1. PICK i \in DOMAIN q : z = q[i]
      BY <2>1
    <3>2. CASE i = 1
      BY <1>1, <3>1, <3>2
    <3>3. CASE i # 1
      <4>1. i - 1 \in DOMAIN r /\ r[i - 1] = z
        BY <1>2, <3>1, <3>3
      <4> QED BY <2>2, <4>1
    <3> QED BY <3>2, <3>3
  <2>4. ASSUME NEW z \in Elements(r) \cup {Head(q)} PROVE z \in Elements(q)
    BY <1>1, <2>1, <2>2
  <2> QED BY <2>3, <2>4
<1>5. Sorted(q) => Sorted(r)
  BY <1>1, <1>3 DEF Sorted
<1>6. Sorted(q) => \A g \in Elements(r) : Before(Head(q), g)
  BY <1>1 DEF Sorted, Elements
<1> QED BY <1>4, <1>5, <1>6 DEF r

(* What a queue holds after an append, and when it stays sorted.           *)
LEMMA SortedAppend ==
    ASSUME NEW S, NEW q \in Seq(S), NEW f
    PROVE  /\ Elements(Append(q, f)) = Elements(q) \cup {f}
           /\ Sorted(q) /\ (\A g \in Elements(q) : Before(g, f)) => Sorted(Append(q, f))
<1> DEFINE r == Append(q, f)
           n == Len(q) + 1
<1>1. /\ DOMAIN q = 1 .. Len(q) /\ Len(q) \in Nat /\ DOMAIN r = 1 .. n /\ r[n] = f
      /\ \A i \in DOMAIN q : r[i] = q[i]
  BY SMT
<1>2. /\ n \in DOMAIN r /\ \A i \in DOMAIN q : i \in DOMAIN r
      /\ \A i \in DOMAIN r : i \in DOMAIN q \/ i = n
      /\ \A i \in DOMAIN r : ~(n < i)
  BY SMT, <1>1
<1> HIDE DEF r, n
<1>3. Elements(r) = Elements(q) \cup {f}
  BY <1>1, <1>2 DEF Elements
<1>4. ASSUME Sorted(q), \A g \in Elements(q) : Before(g, f), NEW i \in DOMAIN r, NEW j \in DOMAIN r,
             i < j
      PROVE  Before(r[i], r[j])
  <2>1. i \in DOMAIN q
    BY <1>2, <1>4
  <2>2. CASE j \in DOMAIN q
    BY <1>1, <1>4, <2>1, <2>2 DEF Sorted
  <2>3. CASE j = n
    BY <1>1, <1>4, <2>1, <2>3 DEF Elements
  <2> QED BY <1>2, <2>2, <2>3
<1> QED BY <1>3, <1>4 DEF Sorted, r

(* The empty queue is sorted.                                              *)
LEMMA NothingQueued == Sorted(<<>>) /\ Elements(<<>>) = {}
BY SMT DEF Sorted, Elements

(* A queue that opens no handshake that the other does not open.           *)
Thinner(r, q) == Sorted(r) /\ \A f \in Elements(r) : Opens(f) => f \in Elements(q)

(* The queues that the quiet steps leave behind are thinner.               *)
LEMMA ThinnerQueues ==
    ASSUME NEW S, NEW q \in Seq(S), Sorted(q)
    PROVE  /\ Thinner(q, q) /\ Thinner(<<>>, q)
           /\ q # <<>> => Thinner(Tail(q), q)
           /\ \A f : ~Opens(f) => Thinner(Append(q, f), q)
<1>1. Thinner(q, q) /\ Thinner(<<>>, q)
  BY NothingQueued DEF Thinner
<1>2. q # <<>> => Thinner(Tail(q), q)
  BY SortedTail DEF Thinner
<1>3. \A f : ~Opens(f) => Thinner(Append(q, f), q)
  <2> SUFFICES ASSUME NEW f, ~Opens(f) PROVE Thinner(Append(q, f), q)
    OBVIOUS
  <2>1. \A g \in Elements(q) : Before(g, f)
    BY DEF Before
  <2>2. Sorted(Append(q, f)) /\ Elements(Append(q, f)) = Elements(q) \cup {f}
    BY <2>1, SortedAppend
  <2> QED BY <2>2 DEF Thinner
<1> QED BY <1>1, <1>2, <1>3

(* Thinner queues keep handshakes in the order in which they were opened.  *)
LEMMA FifoStep ==
    ASSUME NEW d \in Device, NEW e \in Device, FifoInv(e, d),
           Thinner(net'[d], net[d]), Thinner(sends'[e], sends[e]),
           \A g \in Reply(e)' : Opens(g) => g \in Reply(e)
    PROVE  FifoInv(e, d)'
BY DEF FifoInv, Thinner, Before

-----------------------------------------------------------------------------
(* The frames after a step that takes some away, queues a ciphertext or    *)
(* announces that a device is online.                                      *)
LEMMA FramesStep ==
    ASSUME Typed, NEW d \in Device, NEW e \in Device, FifoInv(e, d),
           \/ net'[d] = net[d] \/ net'[d] = <<>> \/ net'[d] = Append(net[d], PeerStatus)
           \/ net[d] # <<>> /\ net'[d] = Tail(net[d]),
           \/ sends'[e] = sends[e] \/ sends'[e] = <<>>
           \/ \E f \in held[e] : sends'[e] = Append(sends[e], f),
           busy'[e] = NULL \/ busy'[e] = busy[e] \/ busy'[e].reply = NULL
    PROVE  /\ \A f \in Flight(e, d)' : f \in Flight(e, d) \/ f = PeerStatus \/ f \in held'[e]
           /\ FifoInv(e, d)'
<1>1. /\ net[d] \in Seq(Frame) /\ sends[e] \in Seq(Handshake \cup Transport)
      /\ Sorted(net[d]) /\ Sorted(sends[e]) /\ held[e] \subseteq Transport
  BY DEF Typed, FifoInv
<1>2. ~Opens(PeerStatus) /\ \A f \in Transport : ~Opens(f)
  BY SMT DEF Opens, PeerStatus, Transport
<1>3. /\ Thinner(net'[d], net[d])
      /\ \A f \in Elements(net'[d]) : f \in Elements(net[d]) \/ f = PeerStatus
  <2>1. CASE net'[d] = net[d]
    BY <1>1, <2>1, ThinnerQueues
  <2>2. CASE net'[d] = <<>>
    <3>1. Elements(net'[d]) = {}
      BY <2>2, NothingQueued
    <3>2. Thinner(net'[d], net[d])
      BY <1>1, <2>2, ThinnerQueues
    <3> QED BY <3>1, <3>2
  <2>3. CASE net'[d] = Append(net[d], PeerStatus)
    <3>1. Elements(net'[d]) = Elements(net[d]) \cup {PeerStatus}
      BY <1>1, <2>3, SortedAppend
    <3>2. Thinner(net'[d], net[d])
      BY <1>1, <1>2, <2>3, ThinnerQueues
    <3> QED BY <3>1, <3>2
  <2>4. CASE net[d] # <<>> /\ net'[d] = Tail(net[d])
    <3>1. Elements(net'[d]) \subseteq Elements(net[d])
      BY <1>1, <2>4, SortedTail
    <3>2. Thinner(net'[d], net[d])
      BY <1>1, <2>4, ThinnerQueues
    <3> QED BY <3>1, <3>2
  <2> QED BY <2>1, <2>2, <2>3, <2>4
<1>4. /\ Thinner(sends'[e], sends[e])
      /\ \A f \in Elements(sends'[e]) : f \in Elements(sends[e]) \/ f \in held[e]
  <2>1. CASE sends'[e] = sends[e]
    BY <1>1, <2>1, ThinnerQueues
  <2>2. CASE sends'[e] = <<>>
    <3>1. Elements(sends'[e]) = {}
      BY <2>2, NothingQueued
    <3>2. Thinner(sends'[e], sends[e])
      BY <1>1, <2>2, ThinnerQueues
    <3> QED BY <3>1, <3>2
  <2>3. CASE \E f \in held[e] : sends'[e] = Append(sends[e], f)
    <3>1. PICK f \in held[e] : sends'[e] = Append(sends[e], f)
      BY <2>3
    <3>2. Elements(sends'[e]) = Elements(sends[e]) \cup {f}
      BY <1>1, <3>1, SortedAppend
    <3>3. ~Opens(f)
      BY <1>1, <1>2
    <3>4. Thinner(sends'[e], sends[e])
      BY <1>1, <3>1, <3>3, ThinnerQueues
    <3> QED BY <3>2, <3>4
  <2> QED BY <2>1, <2>2, <2>3
<1>5. Reply(e)' \subseteq Reply(e)
  BY DEF Reply
<1>6. FifoInv(e, d)'
  BY <1>3, <1>4, <1>5, FifoStep
<1> QED BY <1>3, <1>4, <1>5, <1>6 DEF Flight

(* writeLoop passes a frame on, or loses it.                               *)
LEMMA WrittenStep ==
    ASSUME Typed, NEW d \in Device, NEW e \in Device, FifoInv(e, d),
           sends[e] # <<>>, sends'[e] = Tail(sends[e]), busy'[e] = busy[e], held'[e] = held[e],
           net'[d] = net[d] \/ net'[d] = Append(net[d], Head(sends[e]))
    PROVE  /\ \A f \in Flight(e, d)' : f \in Flight(e, d)
           /\ FifoInv(e, d)'
<1> DEFINE h == Head(sends[e])
<1>1. net[d] \in Seq(Frame) /\ sends[e] \in Seq(Handshake \cup Transport)
  BY DEF Typed
<1>2. /\ h \in Elements(sends[e]) /\ Elements(sends'[e]) \subseteq Elements(sends[e])
      /\ Sorted(sends'[e]) /\ \A g \in Elements(sends'[e]) : Before(h, g)
  BY <1>1, SortedTail DEF FifoInv
<1> HIDE DEF h
<1>3. \A g \in Elements(net[d]) : Before(g, h)
  BY <1>2 DEF FifoInv
<1>4. Sorted(net'[d]) /\ Elements(net'[d]) \subseteq Elements(net[d]) \cup {h}
  <2>1. CASE net'[d] = net[d]
    BY <2>1 DEF FifoInv
  <2>2. CASE net'[d] = Append(net[d], h)
    <3>1. Sorted(net[d])
      BY DEF FifoInv
    <3>2. Elements(net'[d]) = Elements(net[d]) \cup {h} /\ Sorted(net'[d])
      <4>1. PICK q \in Seq(Frame) : q = net[d]
        BY <1>1
      <4>2. Elements(Append(q, h)) = Elements(q) \cup {h} /\ Sorted(Append(q, h))
        BY <1>3, <3>1, <4>1, SortedAppend
      <4> QED BY <2>2, <4>1, <4>2
    <3> QED BY <3>2
  <2> QED BY <2>1, <2>2 DEF h
<1>5. Reply(e)' = Reply(e)
  BY DEF Reply
<1>6. \A f \in Elements(net'[d]) : \A g \in Elements(sends'[e]) : Before(f, g)
  BY <1>2, <1>4 DEF FifoInv
<1>7. \A f \in Elements(net'[d]) \cup Elements(sends'[e]) :
          f \in Elements(net[d]) \cup Elements(sends[e])
  BY <1>2, <1>4
<1>8. FifoInv(e, d)'
  BY <1>2, <1>4, <1>5, <1>6, <1>7 DEF FifoInv
<1> QED BY <1>5, <1>7, <1>8 DEF Flight

(* A frame that is later than the others is queued.                        *)
LEMMA QueuedStep ==
    ASSUME Typed, NEW d \in Device, NEW e \in Device, FifoInv(e, d), NEW g,
           net'[d] = net[d] \/ (net[d] # <<>> /\ net'[d] = Tail(net[d])),
           sends'[e] = Append(sends[e], g), Reply(e)' = {},
           \A f \in Elements(net[d]) \cup Elements(sends[e]) : Before(f, g)
    PROVE  /\ \A f \in Flight(e, d)' : f \in Flight(e, d) \/ f = g \/ f \in held'[e]
           /\ FifoInv(e, d)'
<1>1. /\ net[d] \in Seq(Frame) /\ sends[e] \in Seq(Handshake \cup Transport)
      /\ Sorted(net[d]) /\ Sorted(sends[e])
  BY DEF Typed, FifoInv
<1>2. Sorted(net'[d]) /\ Elements(net'[d]) \subseteq Elements(net[d])
  <2>1. CASE net'[d] = net[d]
    BY <1>1, <2>1
  <2>2. CASE net[d] # <<>> /\ net'[d] = Tail(net[d])
    BY <1>1, <2>2, SortedTail
  <2> QED BY <2>1, <2>2
<1>3. Sorted(sends'[e]) /\ Elements(sends'[e]) = Elements(sends[e]) \cup {g}
  <2>1. \A f \in Elements(sends[e]) : Before(f, g)
    OBVIOUS
  <2>2. /\ Sorted(Append(sends[e], g))
        /\ Elements(Append(sends[e], g)) = Elements(sends[e]) \cup {g}
    BY <1>1, <2>1, SortedAppend
  <2> QED BY <2>2
<1>4. FifoInv(e, d)'
  BY <1>2, <1>3 DEF FifoInv
<1> QED BY <1>2, <1>3, <1>4 DEF Flight

(* A peerConn with the sessions it had, or none.                           *)
LEMMA SessionsKept ==
    ASSUME Typed, NEW d \in Device,
           \/ peer'[d] = NULL \/ peer'[d] = peer[d]
           \/ peer'[d].active = NULL /\ peer'[d].pending = NULL
           \/ /\ peer[d] # NULL /\ peer'[d].active = peer[d].active
              /\ peer'[d].pending = peer[d].pending
    PROVE  Grows(d, {}) /\ Stays(d)
<1>1. \A s \in Live(d) : Grown(s, s)
  BY FlightTyped, GrownSelf
<1>2. Live(d)' \subseteq Live(d)
  BY DEF Live
<1>3. peer[d] # NULL /\ peer[d].pending # NULL => Grown(peer[d].pending, peer[d].pending)
  BY <1>1 DEF Live
<1> QED BY <1>1, <1>2, <1>3 DEF Grows, Stays

-----------------------------------------------------------------------------
(* Steps after which there is nothing new to say.                          *)
Carried(e, d) ==
    (\A f \in Flight(e, d)' : f \in Flight(e, d) \/ f = PeerStatus) /\ FifoInv(e, d)'

(* A step that is quiet in both directions keeps the invariant.            *)
LEMMA QuietSteps ==
    ASSUME Typed, Typed', ChannelInv, made' = made, sent' = sent, last' = last,
           \A z \in Device : Grows(z, {}) /\ Stays(z),
           \A d, e \in Device : d # e => Carried(e, d)
    PROVE  ChannelInv'
<1> SUFFICES ASSUME NEW d \in Device, NEW e \in Device, d # e PROVE Linked(e, d)'
  BY DEF ChannelInv
<1>1. Linked(e, d)
  BY DEF ChannelInv
<1>2. /\ \A f \in Flight(e, d)' : f \in Flight(e, d) \/ f = PeerStatus
      /\ FifoInv(e, d)'
  BY DEF Carried
<1>3. /\ Grows(d, {}) /\ Stays(d) /\ Grows(e, {}) /\ Stays(e)
      /\ sent'[e] = sent[e] /\ last'[d] = last[d]
  OBVIOUS
<1> QED BY <1>1, <1>2, <1>3, QuietStep

(* The links of a device that only lose frames, apart from a ciphertext    *)
(* that is queued and a notice.                                            *)
Thins(z) ==
    /\ \/ net'[z] = net[z] \/ net'[z] = <<>> \/ net'[z] = Append(net[z], PeerStatus)
       \/ net[z] # <<>> /\ net'[z] = Tail(net[z])
    /\ \/ sends'[z] = sends[z] \/ sends'[z] = <<>>
       \/ \E f \in held[z] : sends'[z] = Append(sends[z], f)
    /\ busy'[z] = NULL \/ busy'[z] = busy[z] \/ busy'[z].reply = NULL

(* Queues that get thinner carry no frame but old ones, announcements and  *)
(* held ciphertexts.                                                       *)
LEMMA ThinsCarries ==
    ASSUME Typed, ChannelInv, NEW d \in Device, NEW e \in Device, d # e, Thins(d), Thins(e)
    PROVE  /\ \A f \in Flight(e, d)' : f \in Flight(e, d) \/ f = PeerStatus \/ f \in held'[e]
           /\ FifoInv(e, d)'
<1>1. FifoInv(e, d)
  BY DEF ChannelInv, Linked
<1> QED BY <1>1, FramesStep DEF Thins

(* A step that only thins the queues keeps the invariant.                  *)
LEMMA QuietLinks ==
    ASSUME Typed, Typed', ChannelInv, made' = made, sent' = sent, last' = last,
           \A z \in Device : Grows(z, {}) /\ Stays(z) /\ Thins(z) /\ held'[z] \subseteq held[z]
    PROVE  ChannelInv'
<1>1. ASSUME NEW d \in Device, NEW e \in Device, d # e PROVE Carried(e, d)
  <2>1. /\ \A f \in Flight(e, d)' : f \in Flight(e, d) \/ f = PeerStatus \/ f \in held'[e]
        /\ FifoInv(e, d)'
    BY <1>1, ThinsCarries
  <2>2. \A f \in held'[e] : f \in Flight(e, d)
    BY DEF Flight
  <2> QED BY <2>1, <2>2 DEF Carried
<1> QED BY <1>1, QuietSteps

(* The actions that make no session and use none.                          *)
LEMMA QuietActions ==
    ASSUME Typed, WorkInv, Typed', ChannelInv, NEW x \in Device,
           \/ QueueOrGiveUp(x) \/ WriteFrame(x) \/ EnqueueReply(x) \/ IntervalElapses(x)
           \/ Lose(x) \/ Restart(x) \/ Reconnect(x) \/ ResolveHandshake(x)
    PROVE  ChannelInv'
(* QueueOrGiveUp keeps the invariant: a held ciphertext is queued or       *)
(* dropped.                                                                *)
<1>1. CASE QueueOrGiveUp(x)
  <2> USE <1>1
  <2>1. PICK g \in held[x] :
            /\ held' = [held EXCEPT ![x] = @ \ {g}]
            /\ Enqueue(x, g) \/ UNCHANGED sends
            /\ UNCHANGED <<up, net, faultVars, sent, peer, busy, made, pin, announced, told, last>>
    BY DEF QueueOrGiveUp
  <2>2. ASSUME NEW z \in Device
        PROVE  Grows(z, {}) /\ Stays(z) /\ Thins(z) /\ held'[z] \subseteq held[z]
    <3>1. net'[z] = net[z] /\ busy'[z] = busy[z] /\ peer'[z] = peer[z]
      BY <2>1
    <3>2. held'[z] \subseteq held[z]
      BY <2>1 DEF Typed
    <3>3. sends'[z] = sends[z] \/ \E f \in held[z] : sends'[z] = Append(sends[z], f)
      <4>1. CASE Enqueue(x, g) /\ z = x
        BY <4>1 DEF Typed, Enqueue
      <4>2. CASE Enqueue(x, g) /\ z # x
        BY <4>2 DEF Typed, Enqueue
      <4> QED BY <2>1, <4>1, <4>2
    <3>4. Grows(z, {}) /\ Stays(z)
      BY <3>1, SessionsKept
    <3> QED BY <3>1, <3>2, <3>3, <3>4 DEF Thins
  <2>3. made' = made /\ sent' = sent /\ last' = last
    BY <2>1
  <2> QED BY <2>2, <2>3, QuietLinks
(* WriteFrame keeps the invariant: the frame moves to the other device or  *)
(* is lost.                                                                *)
<1>2. CASE WriteFrame(x)
  <2> USE <1>2
  <2> DEFINE h == Head(sends[x])
  <2>1. /\ sends[x] # <<>> /\ sends' = [sends EXCEPT ![x] = Tail(@)]
        /\ net' = net \/ net' = [net EXCEPT ![Other(x)] = Append(@, h)]
        /\ peer' = peer /\ busy' = busy /\ held' = held
        /\ made' = made /\ sent' = sent /\ last' = last
    BY DEF WriteFrame, appVars
  <2> HIDE DEF h
  <2>2. ASSUME NEW z \in Device PROVE Grows(z, {}) /\ Stays(z)
    BY <2>1, SessionsKept
  <2>3. ASSUME NEW d \in Device, NEW e \in Device, d # e PROVE Carried(e, d)
    <3>1. FifoInv(e, d) /\ Other(e) = d /\ Other(d) = e
      BY <2>3, TwoDevices DEF ChannelInv, Linked
    <3>2. busy'[e] = busy[e] /\ held'[e] = held[e]
      BY <2>1
    <3>3. CASE e = x
      <4>1. sends[e] # <<>> /\ sends'[e] = Tail(sends[e])
        BY <2>1, <3>3 DEF Typed
      <4>2. net'[d] = net[d] \/ net'[d] = Append(net[d], Head(sends[e]))
        BY <2>1, <3>1, <3>3 DEF Typed, h
      <4> QED BY <3>1, <3>2, <4>1, <4>2, WrittenStep DEF Carried
    <3>4. CASE e # x
      <4>1. sends'[e] = sends[e] /\ net'[d] = net[d]
        <5>1. Other(x) # d
          BY <2>3, <3>4, TwoDevices, OtherDevice
        <5> QED BY <2>1, <3>4, <5>1 DEF Typed
      <4>2. /\ \A f \in Flight(e, d)' : f \in Flight(e, d) \/ f = PeerStatus \/ f \in held'[e]
            /\ FifoInv(e, d)'
        BY <3>1, <3>2, <4>1, FramesStep
      <4>3. \A f \in held'[e] : f \in Flight(e, d)
        BY <3>2 DEF Flight
      <4> QED BY <4>2, <4>3 DEF Carried
    <3> QED BY <3>3, <3>4
  <2> QED BY <2>1, <2>2, <2>3, QuietSteps
(* EnqueueReply keeps the invariant: the reply was in flight already.      *)
<1>3. CASE EnqueueReply(x)
  <2> USE <1>3
  <2> DEFINE r == busy[x].reply
  <2>1. /\ busy[x] # NULL /\ r # NULL /\ sends' = [sends EXCEPT ![x] = Append(@, r)]
        /\ busy' = [busy EXCEPT ![x] = IF @.done THEN [@ EXCEPT !.reply = NULL] ELSE NULL]
        /\ net' = net /\ peer' = peer /\ held' = held
        /\ made' = made /\ sent' = sent /\ last' = last
    BY DEF EnqueueReply, Enqueue, appVars
  <2>2. r \in Reply(x)
    BY <2>1 DEF Reply
  <2>3. ASSUME NEW z \in Device PROVE Grows(z, {}) /\ Stays(z)
    BY <2>1, SessionsKept
  <2>4. busy'[x] = NULL \/ busy'[x].reply = NULL
    <3>1. busy[x] \in Work
      BY <2>1 DEF Typed
    <3>2. busy'[x] = NULL \/ busy'[x] = [busy[x] EXCEPT !.reply = NULL]
      BY <2>1 DEF Typed
    <3> QED BY <3>1, <3>2 DEF Work
  <2>5. ASSUME NEW d \in Device, NEW e \in Device, d # e PROVE Carried(e, d)
    <3>1. FifoInv(e, d)
      BY <2>5 DEF ChannelInv, Linked
    <3>2. \A f \in held'[e] : f \in Flight(e, d)
      BY <2>1 DEF Flight
    <3>3. CASE e = x
      <4>1. sends'[e] = Append(sends[e], r) /\ net'[d] = net[d]
        BY <2>1, <3>3 DEF Typed
      <4>2. Reply(e)' = {}
        BY <2>4, <3>3 DEF Reply
      <4>3. \A f \in Elements(net[d]) \cup Elements(sends[e]) : Before(f, r)
        BY <2>2, <3>1, <3>3 DEF FifoInv
      <4> HIDE DEF r
      <4>4. /\ \A f \in Flight(e, d)' : f \in Flight(e, d) \/ f = r \/ f \in held'[e]
            /\ FifoInv(e, d)'
        BY <3>1, <4>1, <4>2, <4>3, QueuedStep
      <4>5. r \in Flight(e, d)
        BY <2>2, <3>3 DEF Flight
      <4> QED BY <3>2, <4>4, <4>5 DEF Carried
    <3>4. CASE e # x
      <4>1. sends'[e] = sends[e] /\ net'[d] = net[d] /\ busy'[e] = busy[e]
        BY <2>1, <3>4 DEF Typed
      <4>2. /\ \A f \in Flight(e, d)' : f \in Flight(e, d) \/ f = PeerStatus \/ f \in held'[e]
            /\ FifoInv(e, d)'
        BY <3>1, <4>1, FramesStep
      <4> QED BY <3>2, <4>2 DEF Carried
    <3> QED BY <3>3, <3>4
  <2> QED BY <2>1, <2>3, <2>5, QuietSteps
(* Time and faults.                                                        *)
<1>4. CASE IntervalElapses(x)
  <2> USE <1>4
  <2>1. /\ peer[x] # NULL /\ peer' = [peer EXCEPT ![x] = [@ EXCEPT !.recent = FALSE]]
        /\ net' = net /\ sends' = sends /\ held' = held /\ busy' = busy
        /\ made' = made /\ sent' = sent /\ last' = last
    BY DEF IntervalElapses, linkVars, appVars
  <2>2. ASSUME NEW z \in Device
        PROVE  Grows(z, {}) /\ Stays(z) /\ Thins(z) /\ held'[z] \subseteq held[z]
    <3>1. CASE z = x
      <4>a. peer \in [Device -> PeerConn \cup {NULL}]
        BY DEF Typed
      <4>1. peer[x] \in PeerConn /\ peer'[x] = [peer[x] EXCEPT !.recent = FALSE]
        BY <2>1, <4>a
      <4>2. peer'[z].active = peer[z].active /\ peer'[z].pending = peer[z].pending
        BY <3>1, <4>1 DEF PeerConn
      <4> QED BY <2>1, <3>1, <4>2, SessionsKept DEF Thins
    <3>2. CASE z # x
      <4>1. peer'[z] = peer[z]
        BY <2>1, <3>2 DEF Typed
      <4> QED BY <2>1, <4>1, SessionsKept DEF Thins
    <3> QED BY <3>1, <3>2
  <2> QED BY <2>1, <2>2, QuietLinks
(* Lose keeps the invariant: it empties queues.                            *)
<1>5. CASE Lose(x)
  <2> USE <1>5
  <2>1. /\ net' = [net EXCEPT ![x] = <<>>] /\ sends' = sends /\ held' = held /\ busy' = busy
        /\ peer' = peer /\ made' = made /\ sent' = sent /\ last' = last
    BY DEF Lose, appVars
  <2>2. ASSUME NEW z \in Device
        PROVE  Grows(z, {}) /\ Stays(z) /\ Thins(z) /\ held'[z] \subseteq held[z]
    <3>1. net'[z] = net[z] \/ net'[z] = <<>>
      BY <2>1 DEF Typed
    <3> QED BY <2>1, <3>1, SessionsKept DEF Thins
  <2> QED BY <2>1, <2>2, QuietLinks
(* Restart keeps the invariant: it forgets sessions and frames.            *)
<1>6. CASE Restart(x)
  <2> USE <1>6
  <2>1. /\ net' = [net EXCEPT ![x] = <<>>] /\ sends' = [sends EXCEPT ![x] = <<>>]
        /\ held' = [held EXCEPT ![x] = {}] /\ busy' = [busy EXCEPT ![x] = NULL]
        /\ peer' = [peer EXCEPT ![x] = NULL] /\ made' = made /\ sent' = sent /\ last' = last
    BY DEF Restart
  <2>2. ASSUME NEW z \in Device
        PROVE  Grows(z, {}) /\ Stays(z) /\ Thins(z) /\ held'[z] \subseteq held[z]
    <3>1. CASE z = x
      <4>1. /\ net'[z] = <<>> /\ sends'[z] = <<>> /\ held'[z] = {} /\ busy'[z] = NULL
            /\ peer'[z] = NULL
        BY <2>1, <3>1 DEF Typed
      <4> QED BY <4>1, SessionsKept DEF Thins
    <3>2. CASE z # x
      <4>1. /\ net'[z] = net[z] /\ sends'[z] = sends[z] /\ held'[z] = held[z]
            /\ busy'[z] = busy[z] /\ peer'[z] = peer[z]
        BY <2>1, <3>2 DEF Typed
      <4> QED BY <4>1, SessionsKept DEF Thins
    <3> QED BY <3>1, <3>2
  <2> QED BY <2>1, <2>2, QuietLinks
(* Reconnect keeps the invariant: it announces a device and makes an empty *)
(* peer.                                                                   *)
<1>7. CASE Reconnect(x)
  <2> USE <1>7
  <2>1. /\ net' = net \/ net' = [e \in Device |-> Append(net[e], PeerStatus)]
        /\ peer' = [peer EXCEPT ![x] = IF @ = NULL THEN NewPeerConn(FALSE) ELSE @]
        /\ sends' = sends /\ held' = held /\ busy' = busy
        /\ made' = made /\ sent' = sent /\ last' = last
    BY DEF Reconnect, appVars
  <2>2. ASSUME NEW z \in Device
        PROVE  Grows(z, {}) /\ Stays(z) /\ Thins(z) /\ held'[z] \subseteq held[z]
    <3>1. net'[z] = net[z] \/ net'[z] = Append(net[z], PeerStatus)
      BY <2>1
    <3>2. peer'[z] = peer[z] \/ peer'[z] = NewPeerConn(FALSE)
      BY <2>1 DEF Typed
    <3>3. NewPeerConn(FALSE).active = NULL /\ NewPeerConn(FALSE).pending = NULL
      BY SMT DEF NewPeerConn
    <3>4. Grows(z, {}) /\ Stays(z)
      BY <3>2, <3>3, SessionsKept
    <3> QED BY <2>1, <3>1, <3>4 DEF Thins
  <2> QED BY <2>1, <2>2, QuietLinks
(* A replacement is promoted or abandoned, a first session kept or failed. *)
<1>8. CASE ResolveHandshake(x)
  <2> USE <1>8
  <2> DEFINE p == peer[x]
             q == peer'[x]
  <2>1. /\ busy[x] # NULL /\ busy' = [busy EXCEPT ![x] = NULL]
        /\ net' = net /\ sends' = sends /\ held' = held
        /\ made' = made /\ sent' = sent /\ last' = last
    BY DEF ResolveHandshake, ResolveWith, linkVars, appVars
  <2>2. PICK r : /\ peer' = [peer EXCEPT ![x] = r]
                 /\ \/ busy[x].slot = "pending" /\ r = [p EXCEPT !.active = p.pending,
                                                          !.pending = NULL, !.waiter = FALSE]
                    \/ r = [p EXCEPT !.pending = NULL]
                    \/ r = [p EXCEPT !.waiter = FALSE]
                    \/ /\ busy[x].slot # "pending"
                       /\ r = [p EXCEPT !.active = Fail(p.active), !.waiter = FALSE]
    BY DEF ResolveHandshake, ResolveWith
  <2>3. /\ p \in PeerConn /\ busy[x].slot \in {"active", "pending"}
        /\ busy[x].slot = "active" => p.active # NULL /\ p.pending = NULL
        /\ busy[x].slot = "pending" => p.pending # NULL
        /\ p.active \in Session \cup {NULL} /\ p.pending \in Session \cup {NULL}
    <3>1. peer[x] \in PeerConn \cup {NULL} /\ busy[x] \in Work \cup {NULL}
      BY DEF Typed
    <3>2. p # NULL /\ Driven(x) # NULL /\ (busy[x].slot = "active" => p.pending = NULL)
      BY <2>1 DEF WorkInv, Working
    <3>3. p \in PeerConn /\ busy[x].slot \in {"active", "pending"}
      BY <2>1, <3>1, <3>2 DEF Work
    <3>4. "active" # "pending"
      OBVIOUS
    <3> QED BY <3>2, <3>3, <3>4 DEF Driven, PeerConn
  <2>4. q = r
    BY <2>2 DEF Typed
  <2>5. \/ q.active = p.pending /\ p.pending # NULL /\ q.pending = NULL
        \/ q.active = p.active /\ q.pending = NULL
        \/ q.active = p.active /\ q.pending = p.pending
        \/ q.active = Fail(p.active) /\ p.active # NULL /\ q.pending = NULL
    BY <2>2, <2>3, <2>4 DEF PeerConn
  <2>6. p.active # NULL => Grown(p.active, p.active) /\ Grown(Fail(p.active), p.active)
    <3>1. ASSUME NEW s \in Session PROVE Grown(Fail(s), s)
      BY SMT DEF Grown, Fail, Session
    <3> QED BY <2>3, <3>1, GrownSelf
  <2>7. p.pending # NULL => Grown(p.pending, p.pending)
    BY <2>3, GrownSelf
  <2>8. p # NULL
    BY <2>3, NullAssumption
  <2>9. Grows(x, {}) /\ Stays(x)
    <3>2. Stays(x)
      BY <2>5, <2>7, <2>8 DEF Stays
    <3>3. Grows(x, {})
      BY <2>5, <2>6, <2>7, <2>8 DEF Grows, Live
    <3> QED BY <3>2, <3>3
  <2>10. ASSUME NEW z \in Device
         PROVE  Grows(z, {}) /\ Stays(z) /\ Thins(z) /\ held'[z] \subseteq held[z]
    <3>1. Grows(z, {}) /\ Stays(z)
      <4>1. CASE z = x
        BY <2>9, <4>1
      <4>2. CASE z # x
        <5>1. peer'[z] = peer[z]
          BY <2>2, <4>2 DEF Typed
        <5> QED BY <5>1, SessionsKept
      <4> QED BY <4>1, <4>2
    <3>2. busy'[z] = NULL \/ busy'[z] = busy[z]
      BY <2>1 DEF Typed
    <3> QED BY <2>1, <3>1, <3>2 DEF Thins
  <2> QED BY <2>1, <2>10, QuietLinks
<1> QED BY <1>1, <1>2, <1>3, <1>4, <1>5, <1>6, <1>7, <1>8

(* readLoop takes a frame.                                                 *)
LEMMA TakesThins ==
    ASSUME Typed, NEW x \in Device, NEW type, Takes(x, type)
    PROVE  /\ net[x] # <<>> /\ net'[x] = Tail(net[x])
           /\ \A z \in Device :
                  net'[z] = net[z] \/ (net[z] # <<>> /\ net'[z] = Tail(net[z]))
           /\ \A z \in Device : z # x => net'[z] = net[z]
BY DEF Takes, Typed

(* A frame that is taken and ignored leaves the invariant as it is.        *)
LEMMA DropQuiet ==
    ASSUME Typed, Typed', ChannelInv, NEW x \in Device, NEW type, Takes(x, type),
           sends' = sends, held' = held, busy' = busy, peer' = peer,
           made' = made, sent' = sent, last' = last
    PROVE  ChannelInv'
<1>1. ASSUME NEW z \in Device
      PROVE  Grows(z, {}) /\ Stays(z) /\ Thins(z) /\ held'[z] \subseteq held[z]
  BY TakesThins, SessionsKept DEF Thins
<1> QED BY <1>1, QuietLinks

(* HandlePairComplete on the side that waits keeps the invariant.          *)
LEMMA WaitQuiet ==
    ASSUME Typed, Typed', ChannelInv, NEW x \in Device, HandlePairComplete(x), x # Acceptor
    PROVE  ChannelInv'
<1>1. /\ Takes(x, "pair_complete") /\ peer' = [peer EXCEPT ![x] = NewPeerConn(TRUE)]
      /\ sends' = sends /\ held' = held /\ busy' = busy
      /\ made' = made /\ sent' = sent /\ last' = last
  BY DEF HandlePairComplete, appVars
<1>2. ASSUME NEW z \in Device
      PROVE  Grows(z, {}) /\ Stays(z) /\ Thins(z) /\ held'[z] \subseteq held[z]
  <2>1. peer'[z] = peer[z] \/ peer'[z] = NewPeerConn(TRUE)
    BY <1>1 DEF Typed
  <2>2. NewPeerConn(TRUE).active = NULL /\ NewPeerConn(TRUE).pending = NULL
    BY SMT DEF NewPeerConn
  <2>3. Grows(z, {}) /\ Stays(z)
    BY <2>1, <2>2, SessionsKept
  <2> QED BY <1>1, <2>3, TakesThins DEF Thins
<1> QED BY <1>1, <1>2, QuietLinks

-----------------------------------------------------------------------------
(* A key that was not used before is none that anybody knows.              *)
LEMMA FreshKey ==
    ASSUME Typed, NEW x \in Device, NEW k, k = <<x, made[x] + 1>>
    PROVE  k[2] \in Nat /\ \A i : KeyOf(x, i) => i # k /\ i[2] \in Nat /\ i[2] < k[2]
<1>1. made[x] \in Nat /\ k[2] = made[x] + 1
  BY SMT DEF Typed
<1>2. ASSUME NEW i, KeyOf(x, i) PROVE i # k /\ i[2] \in Nat /\ i[2] < k[2]
  <2>1. i[2] \in Nat /\ i[2] <= made[x]
    BY SMT, <1>2 DEF KeyOf, Id
  <2>2. i[2] < k[2] /\ i[2] # k[2]
    BY SMT, <1>1, <2>1
  <2> QED BY <2>1, <2>2
<1> QED BY SMT, <1>1, <1>2

(* Both ends of a ciphertext's key were made by their devices.             *)
LEMMA CipherEnds ==
    ASSUME NEW d \in Device, NEW e \in Device, d # e, NEW key, Between(key, e, d)
    PROVE  KeyOf(e, End(key, e)) /\ KeyOf(d, End(key, d))
BY DEF Between, End, KeyOf

(* One more handshake id leaves the earlier ones made.                     *)
LEMMA OneMoreMade ==
    ASSUME Typed, NEW x \in Device, made' = [made EXCEPT ![x] = @ + 1]
    PROVE  MadeMore
<1> SUFFICES ASSUME NEW z \in Device
             PROVE  made[z] \in Nat /\ made'[z] \in Nat /\ made[z] <= made'[z]
  BY DEF MadeMore
<1>1. made[z] \in Nat /\ (made'[z] = made[z] \/ made'[z] = made[z] + 1)
  BY DEF Typed
<1> QED BY SMT, <1>1

(* Both directions are all there is.                                       *)
LEMMA BothDirections ==
    ASSUME NEW x \in Device, NEW y \in Device, x # y, Linked(x, y)', Linked(y, x)'
    PROVE  ChannelInv'
<1>1. \A z \in Device : z = x \/ z = y
  BY TwoDevices
<1> QED BY <1>1 DEF ChannelInv

(* A device x starts a session t and sends its first message g, in answer  *)
(* to a frame or of its own accord.                                        *)
Starts(x, y, t, g) ==
    /\ t \in Session /\ t.id = <<x, made[x] + 1>> /\ t.status = "handshaking"
    /\ t.initiator \/ t.gotMsg1
    /\ t.initiator => t.remote = NULL
    /\ g \in Handshake /\ g.from = t.id /\ g.n # 3
    /\ g.n = 2 => ~t.initiator /\ g.to = t.remote
    /\ g.n = 1 => g.to = NULL
    /\ t.remote # NULL => Opens(Head(net[x])) /\ t.remote = Head(net[x]).from
    /\ made' = [made EXCEPT ![x] = @ + 1] /\ sent' = sent /\ last' = last
    /\ Grows(x, {t})
    /\ \/ peer'[x].pending = NULL
       \/ /\ peer[x] # NULL /\ peer'[x].active = peer[x].active /\ peer'[x].pending = t
          /\ peer'[x].pending # NULL
    /\ peer'[y] = peer[y] /\ busy'[y] = busy[y] /\ sends'[y] = sends[y] /\ held' = held
    /\ net[x] # <<>> /\ net'[x] = Tail(net[x]) /\ net'[y] = net[y]
    /\ Reply(x) = {}
    /\ \/ sends'[x] = Append(sends[x], g) /\ Reply(x)' = {}
       \/ sends'[x] = sends[x] /\ Reply(x)' = {g}

(* A sorted queue, with a reply to come.                                   *)
LEMMA RepliedStep ==
    ASSUME NEW d \in Device, NEW e \in Device, FifoInv(e, d), NEW g,
           net'[d] = net[d], sends'[e] = sends[e], held'[e] = held[e], Reply(e)' = {g},
           \A f \in Elements(net[d]) \cup Elements(sends[e]) : Before(f, g)
    PROVE  /\ \A f \in Flight(e, d)' : f \in Flight(e, d) \/ f = g
           /\ FifoInv(e, d)'
BY DEF FifoInv, Flight

(* Starting a session keeps what is said about the frames the device sends.*)
LEMMA StartsOut ==
    ASSUME Typed, Typed', ChannelInv, NEW x \in Device, NEW y \in Device, x # y,
           NEW t, NEW g, Starts(x, y, t, g)
    PROVE  Linked(x, y)'
<1>1. /\ SessionsInv(y, x) /\ MessagesInv(x, y) /\ MatesInv(x, y)
      /\ FifoInv(x, y) /\ CiphersInv(x, y) /\ OrderInv(x, y)
      /\ SessionsInv(x, y)
  BY DEF ChannelInv, Linked
<1>2. t.id[2] \in Nat /\ \A i : KeyOf(x, i) => i # t.id /\ i[2] \in Nat /\ i[2] < t.id[2]
  BY FreshKey DEF Starts
<1>3. MadeMore
  BY OneMoreMade DEF Starts
<1>4. Grows(y, {}) /\ Stays(y)
  BY SessionsKept DEF Starts
<1>5. PICK none : none = {}
  OBVIOUS
<1>6. (\A z : z \notin none) /\ Grows(y, none) /\ Grows(x, {t})
  BY <1>4, <1>5 DEF Starts
<1>7. \A s \in Live(y)' : Sound(s, y, x)'
  <2>1. (\A s \in Live(y) : Sound(s, y, x)) /\ \A s \in none : Sound(s, y, x)'
    BY <1>1, <1>6 DEF SessionsInv
  <2> QED BY <1>3, <1>6, <2>1, SoundStep
<1>8. SessionsInv(y, x)'
  BY <1>1, <1>4, <1>7, SucceedsStep DEF SessionsInv
<1>9. Live(y)' = Live(y)
  BY DEF Starts, Live
<1>10. \A f \in Elements(net[y]) \cup Elements(sends[x]) : Before(f, g)
  <2> SUFFICES ASSUME NEW f \in Elements(net[y]) \cup Elements(sends[x]), Opens(f)
               PROVE  f.from[2] < g.from[2]
    BY DEF Before
  <2>1. f \in Handshakes(x, y)
    BY DEF Handshakes, Flight, Opens
  <2> QED BY <1>1, <1>2, <2>1 DEF MessagesInv, Addressed, Starts
<1>11. /\ \A f \in Flight(x, y)' : f \in Flight(x, y) \/ f = g
       /\ FifoInv(x, y)'
  <2>1. held'[x] = held[x] /\ net'[y] = net[y]
    BY DEF Starts
  <2>2. CASE sends'[x] = Append(sends[x], g) /\ Reply(x)' = {}
    <3>1. /\ \A f \in Flight(x, y)' : f \in Flight(x, y) \/ f = g \/ f \in held'[x]
          /\ FifoInv(x, y)'
      BY <1>1, <1>10, <2>1, <2>2, QueuedStep
    <3>2. \A f \in held'[x] : f \in Flight(x, y)
      BY <2>1 DEF Flight
    <3> QED BY <3>1, <3>2
  <2>3. CASE sends'[x] = sends[x] /\ Reply(x)' = {g}
    BY <1>1, <1>10, <2>1, <2>3, RepliedStep
  <2> QED BY <2>2, <2>3 DEF Starts
<1>12. MessagesInv(x, y)'
  <2>1. Addressed(g, x, y)'
    <3>1. KeyOf(x, g.from)'
      <4>1. g.from = <<x, made[x] + 1>>
        BY DEF Starts
      <4>2. made[x] \in Nat /\ made'[x] = made[x] + 1
        BY DEF Starts, Typed
      <4> QED BY SMT, <4>1, <4>2 DEF KeyOf, Id
    <3>2. ASSUME g.to # NULL PROVE KeyOf(y, g.to)'
      <4>1. g.n \in {1, 2}
        <5>1. g.n \in 1 .. 3 /\ g.n # 3
          BY DEF Starts, Handshake
        <5> QED BY SMT, <5>1
      <4>2. t.remote # NULL /\ g.to = t.remote
        BY <3>2, <4>1 DEF Starts
      <4>3. Opens(Head(net[x])) /\ g.to = Head(net[x]).from
        BY <4>2 DEF Starts
      <4>4. Head(net[x]) \in Handshakes(y, x)
        <5>1. net[x] \in Seq(Frame) /\ net[x] # <<>>
          BY DEF Starts, Typed
        <5>2. Head(net[x]) \in Elements(net[x])
          BY <5>1, SortedTail
        <5> QED BY <4>3, <5>2 DEF Handshakes, Flight, Opens
      <4>5. KeyOf(y, g.to)
        BY <4>3, <4>4 DEF ChannelInv, Linked, MessagesInv, Addressed
      <4> QED BY <1>3, <4>5, KeyStays
    <3> QED BY <3>1, <3>2 DEF Addressed, Starts
  <2>2. ASSUME NEW u \in Live(x)' PROVE SentBy(g, u)
    <3>1. CASE u = t
      BY <3>1 DEF Starts, SentBy
    <3>2. CASE u # t
      <4>1. PICK s \in Live(x) : Grown(u, s)
        BY <1>6, <3>2 DEF Grows
      <4>2. u.id # g.from
        BY <1>1, <1>2, <4>1 DEF SessionsInv, Sound, Grown, Starts
      <4> QED BY <4>2 DEF SentBy
    <3> QED BY <3>1, <3>2
  <2>3. ASSUME NEW s \in Live(y)' PROVE ReadBy(g, s)
    BY <1>1, <1>2, <1>9 DEF ReadBy, SessionsInv, Sound, Starts
  <2>4. ASSUME NEW f \in Handshakes(x, y) PROVE SentBy(f, t)
    <3>1. KeyOf(x, f.from)
      BY <1>1 DEF MessagesInv, Addressed
    <3> QED BY <1>2, <3>1 DEF SentBy
  <2>5. NewMessages(x, y, none, {t}, {g})
    BY <1>6, <1>11, <2>1, <2>2, <2>3, <2>4 DEF NewMessages, Handshakes
  <2> QED BY <1>1, <1>3, <1>6, <2>5, MessagesStep
<1>13. MatesInv(x, y)'
  <2>1. "handshaking" # "ready"
    OBVIOUS
  <2>2. NewMates(x, y, none, {t})
    BY <1>6, <2>1 DEF NewMates, Mates, Starts
  <2> QED BY <1>1, <1>6, <2>2, MatesStep
<1>14. /\ \A f \in Ciphertexts(x, y)' : f \in Ciphertexts(x, y)
       /\ \A f \in Ciphertexts(x, y) : /\ End(f.key, x) # t.id
                                       /\ End(f.key, x)[2] \in Nat /\ End(f.key, x)[2] < t.id[2]
  <2>1. g.type # "transport"
    BY SMT DEF Starts, Handshake
  <2>2. \A f \in Ciphertexts(x, y) : KeyOf(x, End(f.key, x))
    BY <1>1, CipherEnds DEF CiphersInv
  <2>3. \A f \in Ciphertexts(x, y)' : f \in Ciphertexts(x, y)
    BY <1>11, <2>1 DEF Ciphertexts
  <2> QED BY <1>2, <2>2, <2>3
<1>15. CiphersInv(x, y)'
  <2>1. sent[x] <= sent'[x] /\ last'[y] <= sent'[x]
    <3>1. sent[x] \in Nat
      BY DEF Typed
    <3>2. sent'[x] = sent[x] /\ last'[y] = last[y] /\ last[y] <= sent[x]
      BY <1>1 DEF CiphersInv, Starts
    <3> QED BY SMT, <3>1, <3>2
  <2>2. last'[y] = last[y]
    BY DEF Starts
  <2>3. ASSUME NEW f \in Ciphertexts(x, y) PROVE Waits(f, x)'
    BY <1>14 DEF Waits, Starts
  <2>4. ASSUME NEW f \in Ciphertexts(x, y) PROVE Encrypted(f, t, x)
    <3>1. End(f.key, x)[2] <= t.id[2]
      BY SMT, <1>2, <1>14
    <3> QED BY <1>14, <3>1 DEF Encrypted
  <2>5. NewCiphers(x, y, none, {t}, none)
    BY <1>6, <1>14, <2>2, <2>3, <2>4 DEF NewCiphers
  <2> QED BY <1>1, <1>3, <1>6, <2>1, <2>5, CiphersStep
<1>16. OrderInv(x, y)'
  BY <1>1, <1>14, OrderStep
<1> QED BY <1>8, <1>11, <1>12, <1>13, <1>15, <1>16 DEF Linked

(* What is left on the way to a device after it took a frame.              *)
LEMMA TakenStep ==
    ASSUME Typed, NEW d \in Device, NEW e \in Device, FifoInv(e, d),
           net[d] # <<>>, net'[d] = Tail(net[d]),
           sends'[e] = sends[e], held'[e] = held[e], busy'[e] = busy[e]
    PROVE  /\ Head(net[d]) \in Flight(e, d)
           /\ \A f \in Flight(e, d)' : f \in Flight(e, d)
           /\ \A f \in Handshakes(e, d)' : Before(Head(net[d]), f)
           /\ FifoInv(e, d)'
<1>1. net[d] \in Seq(Frame) /\ held[e] \subseteq Transport
  BY DEF Typed
<1>2. /\ Head(net[d]) \in Elements(net[d]) /\ Elements(net'[d]) \subseteq Elements(net[d])
      /\ Sorted(net'[d]) /\ \A f \in Elements(net'[d]) : Before(Head(net[d]), f)
  BY <1>1, SortedTail DEF FifoInv
<1>3. Reply(e)' = Reply(e)
  BY DEF Reply
<1>4. \A f \in held[e] : f.type # "handshake"
  BY SMT, <1>1 DEF Transport
<1>5. ASSUME NEW f \in Handshakes(e, d)' PROVE Before(Head(net[d]), f)
  <2>1. f \in Elements(net'[d]) \cup Elements(sends[e]) \cup Reply(e)
    BY <1>3, <1>4 DEF Handshakes, Flight
  <2> QED BY <1>2, <2>1 DEF FifoInv
<1>6. FifoInv(e, d)'
  BY <1>2, <1>3 DEF FifoInv
<1>7. \A f \in Flight(e, d)' : f \in Flight(e, d)
  BY <1>2, <1>3 DEF Flight
<1> QED BY <1>2, <1>5, <1>6, <1>7 DEF Flight

(* Starting a session keeps what is said about the frames the device gets. *)
LEMMA StartsIn ==
    ASSUME Typed, Typed', ChannelInv, NEW x \in Device, NEW y \in Device, x # y,
           NEW t, NEW g, Starts(x, y, t, g)
    PROVE  Linked(y, x)'
<1> DEFINE h == Head(net[x])
<1>1. /\ SessionsInv(x, y) /\ MessagesInv(y, x) /\ MatesInv(y, x)
      /\ FifoInv(y, x) /\ CiphersInv(y, x) /\ OrderInv(y, x)
      /\ SessionsInv(y, x)
  BY DEF ChannelInv, Linked
<1>2. t.id[2] \in Nat /\ \A i : KeyOf(x, i) => i # t.id /\ i[2] \in Nat /\ i[2] < t.id[2]
  BY FreshKey DEF Starts
<1>3. MadeMore
  BY OneMoreMade DEF Starts
<1>4. Grows(y, {}) /\ Stays(y)
  BY SessionsKept DEF Starts
<1>5. PICK none : none = {}
  OBVIOUS
<1>6. (\A z : z \notin none) /\ Grows(y, none) /\ Grows(x, {t})
  BY <1>4, <1>5 DEF Starts
<1>7. /\ h \in Flight(y, x) /\ \A f \in Flight(y, x)' : f \in Flight(y, x)
      /\ \A f \in Handshakes(y, x)' : Before(h, f)
      /\ FifoInv(y, x)'
  <2>1. /\ net[x] # <<>> /\ net'[x] = Tail(net[x])
        /\ sends'[y] = sends[y] /\ held'[y] = held[y] /\ busy'[y] = busy[y]
    BY DEF Starts
  <2> QED BY <1>1, <2>1, TakenStep
<1>8. /\ \A f \in Handshakes(y, x)' : f \in Handshakes(y, x)
      /\ \A f \in Ciphertexts(y, x)' : f \in Ciphertexts(y, x)
  BY <1>7 DEF Handshakes, Ciphertexts
<1>9. t.remote # NULL => Opens(h) /\ h \in Handshakes(y, x) /\ t.remote = h.from
  BY <1>7 DEF Starts, Handshakes, Opens
<1> HIDE DEF h
<1>10. Sound(t, x, y)'
  <2>1. KeyOf(x, t.id)'
    <3>1. t.id = <<x, made[x] + 1>>
      BY DEF Starts
    <3>2. made[x] \in Nat /\ made'[x] = made[x] + 1
      BY DEF Starts, Typed
    <3> QED BY SMT, <3>1, <3>2 DEF KeyOf, Id
  <2>2. t.remote # NULL => KeyOf(y, t.remote)'
    BY <1>1, <1>3, <1>9, KeyStays DEF MessagesInv, Addressed
  <2>3. "handshaking" # "ready"
    OBVIOUS
  <2> QED BY <2>1, <2>2, <2>3 DEF Sound, Starts
<1>11. SessionsInv(x, y)'
  <2>1. \A s \in Live(x) : Sound(s, x, y)
    BY <1>1 DEF SessionsInv
  <2>2. \A s \in {t} : Sound(s, x, y)'
    BY <1>10
  <2>3. \A s \in Live(x)' : Sound(s, x, y)'
    BY <1>3, <1>6, <2>1, <2>2, SoundStep
  <2>4. Succeeds(peer'[x])
    <3> SUFFICES ASSUME peer'[x].active # NULL, peer'[x].pending # NULL
                 PROVE  /\ peer'[x].active.id[2] < t.id[2] /\ peer'[x].pending = t
                        /\ peer'[x].active.status = "ready" /\ t.remote # NULL =>
                               peer'[x].active.remote[2] < t.remote[2]
      BY DEF Succeeds
    <3>1. /\ peer[x] # NULL /\ peer'[x].active = peer[x].active /\ peer'[x].pending = t
          /\ peer'[x].active \in Live(x)
      BY DEF Starts, Live
    <3> DEFINE s == peer'[x].active
    <3>2. Sound(s, x, y)
      BY <2>1, <3>1
    <3>3. t.remote # NULL => ReadBy(h, s)
      BY <1>1, <1>9, <3>1 DEF MessagesInv
    <3> QED BY <1>2, <1>9, <3>1, <3>2, <3>3 DEF Sound, ReadBy
  <2> QED BY <2>3, <2>4 DEF SessionsInv
<1>12. MessagesInv(y, x)'
  <2>1. ASSUME NEW f \in Handshakes(y, x)' PROVE ReadBy(f, t)
    <3>1. Addressed(f, y, x)
      BY <1>1, <1>8 DEF MessagesInv
    <3>2. f.n = 3 => t.id # f.to
      BY <1>2, <3>1 DEF Addressed
    <3>3. Opens(f) /\ t.remote # NULL => t.remote[2] < f.from[2]
      BY <1>7, <1>9 DEF Before
    <3> QED BY <3>2, <3>3 DEF ReadBy
  <2>2. NewMessages(y, x, {t}, none, none)
    BY <1>6, <1>8, <2>1 DEF NewMessages
  <2> QED BY <1>1, <1>3, <1>6, <2>2, MessagesStep
<1>13. MatesInv(y, x)'
  <2>1. Live(y)' = Live(y)
    BY DEF Live, Starts
  <2>2. ASSUME NEW u \in Live(y)' PROVE Mates(u, t)
    <3>1. Sound(u, y, x)
      BY <1>1, <2>1 DEF SessionsInv
    <3> QED BY <1>2, <3>1 DEF Mates, Sound
  <2>3. NewMates(y, x, {t}, none)
    BY <1>6, <2>2 DEF NewMates
  <2> QED BY <1>1, <1>6, <2>3, MatesStep
<1>14. CiphersInv(y, x)'
  <2>1. sent[y] <= sent'[y] /\ last'[x] <= sent'[y]
    <3>1. sent[y] \in Nat
      BY DEF Typed
    <3>2. sent'[y] = sent[y] /\ last'[x] = last[x] /\ last[x] <= sent[y]
      BY <1>1 DEF CiphersInv, Starts
    <3> QED BY SMT, <3>1, <3>2
  <2>2. last'[x] = last[x]
    BY DEF Starts
  <2>3. ASSUME NEW f \in Ciphertexts(y, x)' PROVE Waits(f, y)'
    BY <1>1, <1>4, <1>8, WaitsStep
  <2>4. ASSUME NEW f \in Ciphertexts(y, x)' PROVE Undelivered(f, t, x)'
    <3>1. KeyOf(x, End(f.key, x))
      BY <1>1, <1>8, CipherEnds DEF CiphersInv
    <3> QED BY <1>2, <3>1 DEF Undelivered
  <2>5. NewCiphers(y, x, {t}, none, none)
    BY <1>6, <1>8, <2>2, <2>3, <2>4 DEF NewCiphers
  <2> QED BY <1>1, <1>3, <1>6, <2>1, <2>5, CiphersStep
<1>15. OrderInv(y, x)'
  BY <1>1, <1>8, OrderStep
<1> QED BY <1>7, <1>11, <1>12, <1>13, <1>14, <1>15 DEF Linked

(* A session s of x reads the last message it waits for, h, and becomes u. *)
Completes(x, y, s, u, h) ==
    /\ s \in Live(x) /\ u \in Session /\ s.status = "handshaking"
    /\ u.id = s.id /\ u.initiator = s.initiator /\ u.gotMsg1 = s.gotMsg1
    /\ u.status = "ready" /\ u.remote = h.from /\ u.sendN = s.sendN /\ u.recvN = s.recvN
    /\ h = Head(net[x]) /\ h \in Handshake /\ h.to = s.id
    /\ h.n = IF s.initiator THEN 2 ELSE 3
    /\ Reply(x) = {} /\ Reply(x)' = IF s.initiator THEN {Msg(3, s.id, h.from)} ELSE {}
    /\ \A w \in Live(x)' : w = u \/ (w \in Live(x) /\ w.id # s.id)
    /\ peer[x] # NULL
    /\ \/ peer'[x].pending = NULL
       \/ /\ peer'[x].active = peer[x].active /\ peer'[x].pending = u
          /\ peer[x].pending = s /\ peer[x].pending # NULL
    /\ peer'[y] = peer[y] /\ busy'[y] = busy[y] /\ sends' = sends /\ held' = held
    /\ net[x] # <<>> /\ net'[x] = Tail(net[x]) /\ net'[y] = net[y]
    /\ made' = made /\ sent' = sent /\ last' = last

(* The message is from a session of the peer that is its mate.             *)
Completed(x, y, s, u, h) ==
    /\ s \in Session /\ Sound(s, x, y) /\ s.id # NULL /\ u.remote # NULL
    /\ h \in Handshakes(y, x) /\ KeyOf(y, h.from) /\ MadeMore
    /\ Live(y)' = Live(y) /\ Grows(y, {}) /\ Stays(y) /\ Grows(x, {u})
    /\ s.initiator => s.remote = NULL /\ Opens(h)
    /\ ~s.initiator => s.remote = u.remote
    /\ \A v \in Live(y) :
           v.id = h.from => v.remote = s.id /\ v.initiator = ~s.initiator

(* What the message that completes a session says about the two sessions.  *)
LEMMA CompletesFacts ==
    ASSUME Typed, Typed', ChannelInv, NEW x \in Device, NEW y \in Device, x # y,
           NEW s, NEW u, NEW h, Completes(x, y, s, u, h)
    PROVE  Completed(x, y, s, u, h)
<1>1. s \in Live(x) /\ Live(x) \subseteq Session /\ Live(y) \subseteq Session
  BY FlightTyped DEF Completes
<1>2. s \in Session /\ Sound(s, x, y) /\ s.id # NULL
  BY <1>1, NullIsNoKey DEF ChannelInv, Linked, SessionsInv, Sound
<1>3. h \in Handshakes(y, x)
  <2>1. net[x] \in Seq(Frame) /\ net[x] # <<>>
    BY DEF Completes, Typed
  <2>2. h \in Elements(net[x])
    BY <2>1, SortedTail DEF Completes
  <2>3. h.type = "handshake"
    BY DEF Completes, Handshake
  <2> QED BY <2>2, <2>3 DEF Handshakes, Flight
<1>4. KeyOf(y, h.from) /\ (\A t \in Live(y) : SentBy(h, t)) /\ ReadBy(h, s)
  BY <1>1, <1>3 DEF ChannelInv, Linked, MessagesInv, Addressed
<1>5. u.remote # NULL
  BY <1>4, NullIsNoKey DEF Completes
<1>6. MadeMore
  <2>1. made' = made /\ made \in [Device -> Nat]
    BY DEF Completes, Typed
  <2> QED BY SMT, <2>1 DEF MadeMore
<1>7. Live(y)' = Live(y) /\ Grows(y, {}) /\ Stays(y)
  <2>1. peer'[y] = peer[y]
    BY DEF Completes
  <2> QED BY <2>1, SessionsKept DEF Live
<1>8. Grows(x, {u})
  BY <1>1, GrownSelf DEF Grows, Completes
<1>9. ASSUME s.initiator PROVE s.remote = NULL /\ Opens(h)
  <2>1. h.n = 2
    BY <1>9 DEF Completes
  <2>2. 2 # 3
    BY SMT
  <2> QED BY <1>2, <1>3, <1>9, <2>1, <2>2 DEF Sound, Completes, Opens, Handshakes
<1>10. ASSUME ~s.initiator PROVE s.remote = u.remote
  BY <1>4, <1>10 DEF Completes, ReadBy
<1>11. ASSUME NEW v \in Live(y), v.id = h.from
       PROVE  v.remote = s.id /\ v.initiator = ~s.initiator
  <2>1. v.initiator \in BOOLEAN /\ s.initiator \in BOOLEAN
    BY <1>1 DEF Session
  <2>2. CASE s.initiator
    BY <1>2, <1>4, <1>11, <2>1, <2>2 DEF SentBy, Completes
  <2>3. CASE ~s.initiator
    BY <1>4, <1>11, <2>1, <2>3 DEF SentBy, Completes
  <2> QED BY <2>2, <2>3
<1> QED BY <1>2, <1>3, <1>4, <1>5, <1>6, <1>7, <1>8, <1>9, <1>10, <1>11 DEF Completed

(* Completing a session keeps what is said about the frames the device     *)
(* sends.                                                                  *)
LEMMA CompletesOut ==
    ASSUME Typed, Typed', ChannelInv, NEW x \in Device, NEW y \in Device, x # y,
           NEW s, NEW u, NEW h, Completes(x, y, s, u, h)
    PROVE  Linked(x, y)'
<1> DEFINE g == Msg(3, s.id, h.from)
<1>1. /\ SessionsInv(y, x) /\ MessagesInv(x, y) /\ MatesInv(x, y)
      /\ FifoInv(x, y) /\ CiphersInv(x, y) /\ OrderInv(x, y)
  BY DEF ChannelInv, Linked
<1>2. Completed(x, y, s, u, h)
  BY CompletesFacts
<1> USE DEF Completed
<1>3. PICK none : none = {}
  OBVIOUS
<1>4. (\A z : z \notin none) /\ Grows(y, none)
  BY <1>2, <1>3
<1>5. SessionsInv(y, x)'
  <2>1. (\A v \in Live(y) : Sound(v, y, x)) /\ \A v \in none : Sound(v, y, x)'
    BY <1>1, <1>4 DEF SessionsInv
  <2>2. \A v \in Live(y)' : Sound(v, y, x)'
    BY <1>2, <1>4, <2>1, SoundStep
  <2> QED BY <1>1, <1>2, <2>2, SucceedsStep DEF SessionsInv
<1>6. /\ g.type = "handshake" /\ g.n = 3 /\ g.from = s.id /\ g.to = h.from
      /\ g.type # "transport" /\ ~Opens(g)
  BY SMT DEF Msg, Opens
<1>7. Reply(x)' = (IF s.initiator THEN {g} ELSE {}) /\ (s.initiator \/ ~s.initiator)
  BY DEF Completes
<1> HIDE DEF g
<1>8. /\ \A f \in Flight(x, y)' : f \in Flight(x, y) \/ (f = g /\ s.initiator)
      /\ FifoInv(x, y)'
  <2>1. held'[x] = held[x] /\ net'[y] = net[y] /\ sends'[x] = sends[x]
    BY DEF Completes
  <2>2. CASE s.initiator
    <3>1. Reply(x)' = {g} /\ \A f \in Elements(net[y]) \cup Elements(sends[x]) : Before(f, g)
      BY <1>6, <1>7, <2>2 DEF Before
    <3> QED BY <1>1, <2>1, <2>2, <3>1, RepliedStep
  <2>3. CASE ~s.initiator
    <3>1. Reply(x)' = {}
      BY <1>7, <2>3
    <3> QED BY <1>1, <2>1, <3>1 DEF Flight, FifoInv
  <2> QED BY <2>2, <2>3
<1>9. MessagesInv(x, y)'
  <2> DEFINE F == {f \in {g} : s.initiator}
  <2>1. F \subseteq {g} /\ (F # {} => s.initiator) /\ (s.initiator => g \in F)
    OBVIOUS
  <2> HIDE DEF F
  <2>2. \A f \in Handshakes(x, y)' : f \in Handshakes(x, y) \/ f \in F
    BY <1>8, <2>1 DEF Handshakes
  <2>3. Addressed(g, x, y)'
    <3>1. KeyOf(x, s.id)' /\ KeyOf(y, h.from)'
      BY <1>2, KeyStays DEF Sound
    <3>2. h.from # NULL
      BY <1>2, NullIsNoKey
    <3> QED BY <1>6, <3>1, <3>2 DEF Addressed
  <2>4. ASSUME s.initiator, NEW w \in Live(x)' PROVE SentBy(g, w)
    <3>1. 3 # 2 /\ "ready" # "handshaking"
      BY SMT
    <3>2. CASE w = u
      BY <1>6, <2>4, <3>1, <3>2 DEF SentBy, Completes
    <3>3. CASE w.id # s.id
      BY <1>6, <3>3 DEF SentBy
    <3> QED BY <3>2, <3>3 DEF Completes
  <2>5. ASSUME s.initiator, NEW v \in Live(y)' PROVE ReadBy(g, v)
    BY <1>2, <1>6, <2>5 DEF ReadBy
  <2>6. ASSUME NEW f \in Handshakes(x, y) PROVE SentBy(f, u)
    <3>1. SentBy(f, s)
      BY <1>1 DEF MessagesInv, Completes
    <3> QED BY <1>2, <3>1 DEF SentBy, Completes
  <2>7. NewMessages(x, y, none, {u}, F)
    BY <1>4, <2>1, <2>2, <2>3, <2>4, <2>5, <2>6 DEF NewMessages
  <2> QED BY <1>1, <1>2, <1>4, <2>7, MessagesStep
<1>10. MatesInv(x, y)'
  <2>1. ASSUME NEW v \in Live(y)' PROVE Mates(u, v)
    <3>1. s.initiator \in BOOLEAN
      BY <1>2 DEF Session
    <3> QED BY <1>2, <3>1 DEF Mates, Completes
  <2>2. NewMates(x, y, none, {u})
    BY <1>4, <2>1 DEF NewMates
  <2> QED BY <1>1, <1>2, <1>4, <2>2, MatesStep
<1>11. \A f \in Ciphertexts(x, y)' : f \in Ciphertexts(x, y)
  BY <1>6, <1>8 DEF Ciphertexts
<1>12. CiphersInv(x, y)'
  <2>1. sent[x] <= sent'[x] /\ last'[y] <= sent'[x]
    <3>1. sent[x] \in Nat
      BY DEF Typed
    <3>2. sent'[x] = sent[x] /\ last'[y] = last[y] /\ last[y] <= sent[x]
      BY <1>1 DEF CiphersInv, Completes
    <3> QED BY SMT, <3>1, <3>2
  <2>2. last'[y] = last[y]
    BY DEF Completes
  <2>3. ASSUME NEW f \in Ciphertexts(x, y) PROVE Waits(f, x)'
    BY <1>1 DEF Waits, Completes, CiphersInv
  <2>4. ASSUME NEW f \in Ciphertexts(x, y) PROVE Encrypted(f, u, x)
    <3>1. Encrypted(f, s, x)
      BY <1>1 DEF CiphersInv, Completes
    <3> QED BY <3>1 DEF Encrypted, Completes
  <2>5. NewCiphers(x, y, none, {u}, none)
    BY <1>4, <1>11, <2>2, <2>3, <2>4 DEF NewCiphers
  <2> QED BY <1>1, <1>2, <1>4, <2>1, <2>5, CiphersStep
<1>13. OrderInv(x, y)'
  BY <1>1, <1>11, OrderStep
<1> QED BY <1>5, <1>8, <1>9, <1>10, <1>12, <1>13 DEF Linked

(* Completing a session keeps what is said about the frames the device     *)
(* gets.                                                                   *)
LEMMA CompletesIn ==
    ASSUME Typed, Typed', ChannelInv, NEW x \in Device, NEW y \in Device, x # y,
           NEW s, NEW u, NEW h, Completes(x, y, s, u, h)
    PROVE  Linked(y, x)'
<1>1. /\ SessionsInv(x, y) /\ MessagesInv(y, x) /\ MatesInv(y, x)
      /\ FifoInv(y, x) /\ CiphersInv(y, x) /\ OrderInv(y, x) /\ SessionsInv(y, x)
  BY DEF ChannelInv, Linked
<1>2. Completed(x, y, s, u, h)
  BY CompletesFacts
<1> USE DEF Completed
<1>3. PICK none : none = {}
  OBVIOUS
<1>4. (\A z : z \notin none) /\ Grows(y, none)
  BY <1>2, <1>3
<1>5. /\ \A f \in Flight(y, x)' : f \in Flight(y, x)
      /\ \A f \in Handshakes(y, x)' : Before(h, f)
      /\ FifoInv(y, x)'
  <2>1. /\ net[x] # <<>> /\ net'[x] = Tail(net[x]) /\ h = Head(net[x])
        /\ sends'[y] = sends[y] /\ held'[y] = held[y] /\ busy'[y] = busy[y]
    BY DEF Completes
  <2> QED BY <1>1, <2>1, TakenStep
<1>6. /\ \A f \in Handshakes(y, x)' : f \in Handshakes(y, x)
      /\ \A f \in Ciphertexts(y, x)' : f \in Ciphertexts(y, x)
  BY <1>5 DEF Handshakes, Ciphertexts
<1>7. s \in Live(x) /\ u.id = s.id /\ u.initiator = s.initiator /\ u.remote = h.from
  BY DEF Completes
<1>8. Sound(u, x, y)'
  <2>1. KeyOf(x, s.id)' /\ KeyOf(y, h.from)'
    BY <1>2, KeyStays DEF Sound
  <2>2. "ready" # "handshaking"
    OBVIOUS
  <2> QED BY <1>2, <2>1, <2>2 DEF Sound, Completes
<1>9. SessionsInv(x, y)'
  <2>1. \A w \in Live(x) : Sound(w, x, y)
    BY <1>1 DEF SessionsInv
  <2>a. PICK new : new = {u}
    OBVIOUS
  <2>2. MadeMore /\ Grows(x, new) /\ \A w \in new : Sound(w, x, y)'
    BY <1>2, <1>8, <2>a
  <2>3. \A w \in Live(x)' : Sound(w, x, y)'
    BY <2>1, <2>2, SoundStep
  <2>4. Succeeds(peer'[x])
    <3> SUFFICES ASSUME peer'[x].active # NULL, peer'[x].pending # NULL
                 PROVE  /\ peer'[x].active.id[2] < peer'[x].pending.id[2]
                        /\ peer'[x].active.status = "ready" /\ peer'[x].pending.remote # NULL =>
                               peer'[x].active.remote[2] < peer'[x].pending.remote[2]
      BY DEF Succeeds
    <3> DEFINE a == peer[x].active
    <3>1. /\ peer[x] # NULL /\ peer'[x].active = a /\ a # NULL /\ peer'[x].pending = u
          /\ peer[x].pending = s /\ s # NULL
      BY DEF Completes
    <3>2. a \in Live(x)
      BY <3>1 DEF Live
    <3>3. /\ a.id[2] < s.id[2]
          /\ a.status = "ready" /\ s.remote # NULL => a.remote[2] < s.remote[2]
      BY <1>1, <3>1 DEF SessionsInv, Succeeds
    <3>4. ReadBy(h, a) /\ (a.status = "ready" => a.remote # NULL)
      BY <1>1, <1>2, <2>1, <3>2 DEF MessagesInv, Sound
    <3> HIDE DEF a
    <3>5. a.status = "ready" => a.remote[2] < u.remote[2]
      <4>1. CASE s.initiator
        BY <1>2, <1>7, <3>4, <4>1 DEF ReadBy
      <4>2. CASE ~s.initiator
        BY <1>2, <3>3, <4>2
      <4> QED BY <4>1, <4>2
    <3> QED BY <1>7, <3>1, <3>3, <3>5
  <2> QED BY <2>3, <2>4 DEF SessionsInv
<1>10. MessagesInv(y, x)'
  <2>1. ASSUME NEW f \in Handshakes(y, x)' PROVE ReadBy(f, u)
    <3>1. ReadBy(f, s) /\ Before(h, f)
      BY <1>1, <1>5, <1>6, <1>7 DEF MessagesInv
    <3>2. CASE s.initiator
      BY <1>2, <1>7, <3>1, <3>2 DEF ReadBy, Before
    <3>3. CASE ~s.initiator
      BY <1>2, <1>7, <3>1, <3>3 DEF ReadBy
    <3> QED BY <3>2, <3>3
  <2>2. NewMessages(y, x, {u}, none, none)
    BY <1>4, <1>6, <2>1 DEF NewMessages
  <2> QED BY <1>1, <1>2, <1>4, <2>2, MessagesStep
<1>11. MatesInv(y, x)'
  <2>1. ASSUME NEW v \in Live(y)' PROVE Mates(v, u)
    <3>1. Mates(v, s) /\ Sound(v, y, x)
      BY <1>1, <1>2, <1>7 DEF MatesInv, SessionsInv
    <3>2. v.id # NULL
      BY <3>1, NullIsNoKey DEF Sound
    <3> QED BY <1>2, <1>7, <3>1, <3>2 DEF Mates
  <2>2. NewMates(y, x, {u}, none)
    BY <1>4, <2>1 DEF NewMates
  <2> QED BY <1>1, <1>2, <1>4, <2>2, MatesStep
<1>12. CiphersInv(y, x)'
  <2>1. sent[y] <= sent'[y] /\ last'[x] <= sent'[y]
    <3>1. sent[y] \in Nat
      BY DEF Typed
    <3>2. sent'[y] = sent[y] /\ last'[x] = last[x] /\ last[x] <= sent[y]
      BY <1>1 DEF CiphersInv, Completes
    <3> QED BY SMT, <3>1, <3>2
  <2>2. last'[x] = last[x] /\ u.recvN = s.recvN
    BY DEF Completes
  <2>3. ASSUME NEW f \in Ciphertexts(y, x)' PROVE Waits(f, y)'
    BY <1>1, <1>2, <1>6, WaitsStep
  <2>4. ASSUME NEW f \in Ciphertexts(y, x)' PROVE Undelivered(f, u, x)'
    <3>1. Undelivered(f, s, x) /\ Between(f.key, y, x)
      BY <1>1, <1>6, <1>7 DEF CiphersInv
    <3>2. ASSUME s.id = End(f.key, x) PROVE Key(u) = f.key /\ (s.recvN <= f.n => last[x] < f.m)
      <4>1. Key(s) = f.key /\ (s.recvN <= f.n => last[x] < f.m)
        BY <3>1, <3>2 DEF Undelivered
      <4>2. s.remote # NULL
        BY <1>2, <3>1, <4>1, KeyHeard
      <4>3. s.remote = u.remote
        BY <1>2, <4>2
      <4>4. Key(u) = Key(s)
        BY <1>7, <4>3 DEF Key
      <4> QED BY <4>1, <4>4
    <3> QED BY <1>7, <2>2, <3>2 DEF Undelivered
  <2>5. NewCiphers(y, x, {u}, none, none)
    BY <1>4, <1>6, <2>2, <2>3, <2>4 DEF NewCiphers
  <2> QED BY <1>1, <1>2, <1>4, <2>1, <2>5, CiphersStep
<1>13. OrderInv(y, x)'
  BY <1>1, <1>6, OrderStep
<1> QED BY <1>5, <1>9, <1>10, <1>11, <1>12, <1>13 DEF Linked

-----------------------------------------------------------------------------
(* Using the active session s counts a nonce and makes it u.               *)
Uses(x, y, s, u) ==
    /\ peer[x] # NULL /\ s = peer[x].active /\ s \in Session /\ Ready(s)
    /\ peer'[x].active = u /\ u \in Session /\ Grown(u, s) /\ u.status = s.status
    /\ peer'[x].pending = peer[x].pending
    /\ peer'[y] = peer[y] /\ busy' = busy /\ sends' = sends /\ made' = made

Used(x, y, s, u) ==
    /\ s \in Live(x) /\ Sound(s, x, y) /\ s.status = "ready" /\ s.remote # NULL
    /\ Between(Key(s), x, y) /\ Between(Key(s), y, x)
    /\ End(Key(s), x) = s.id /\ End(Key(s), y) = s.remote
    /\ Key(u) = Key(s) /\ MadeMore
    /\ Grows(x, {}) /\ Stays(x) /\ Grows(y, {}) /\ Stays(y) /\ Live(y)' = Live(y)
    /\ \A w \in Live(x)' :
           \/ w = u
           \/ /\ w \in Live(x) /\ w = peer[x].pending /\ w \in Session /\ Sound(w, x, y)
              /\ s.id[2] < w.id[2]
              /\ w.remote # NULL => s.remote[2] < w.remote[2]

(* What is known of the session that encrypts or decrypts.                 *)
LEMMA UsesFacts ==
    ASSUME Typed, Typed', ChannelInv, NEW x \in Device, NEW y \in Device, x # y,
           NEW s, NEW u, Uses(x, y, s, u)
    PROVE  Used(x, y, s, u)
<1>1. s \in Live(x) /\ s.status = "ready" /\ s \in Session
  BY DEF Uses, Live, Ready
<1>2. Sound(s, x, y) /\ s.remote # NULL
  BY <1>1 DEF ChannelInv, Linked, SessionsInv, Sound
<1>3. /\ Between(Key(s), x, y) /\ Between(Key(s), y, x)
      /\ End(Key(s), x) = s.id /\ End(Key(s), y) = s.remote
  BY <1>1, <1>2, KeyEnds
<1>4. Key(u) = Key(s)
  BY DEF Uses, Grown, Key
<1>5. MadeMore
  <2>1. made' = made /\ made \in [Device -> Nat]
    BY DEF Uses, Typed
  <2> QED BY SMT, <2>1 DEF MadeMore
<1>6. Grows(y, {}) /\ Stays(y) /\ Live(y)' = Live(y)
  <2>1. peer'[y] = peer[y]
    BY DEF Uses
  <2> QED BY <2>1, SessionsKept DEF Live
<1>7. peer[x].pending # NULL => peer[x].pending \in Live(x)
  BY DEF Live, Uses
<1>8. Live(x) \subseteq Session /\ Succeeds(peer[x]) /\ \A w \in Live(x) : Sound(w, x, y)
  BY FlightTyped DEF ChannelInv, Linked, SessionsInv, Uses
<1>9. Grows(x, {})
  <2>1. \A w \in Live(x)' : w = u \/ (w = peer[x].pending /\ w # NULL)
    BY DEF Live, Uses
  <2> QED BY <1>1, <1>7, <1>8, <2>1, GrownSelf DEF Grows, Uses
<1>10. Stays(x)
  <2>1. s # NULL
    BY DEF Uses, Ready
  <2> QED BY <1>7, <1>8, <2>1, GrownSelf DEF Stays, Uses
<1>11. ASSUME NEW w \in Live(x)', w # u
       PROVE  /\ w \in Live(x) /\ w = peer[x].pending /\ w \in Session /\ Sound(w, x, y)
              /\ s.id[2] < w.id[2]
              /\ w.remote # NULL => s.remote[2] < w.remote[2]
  <2>1. w = peer[x].pending /\ w # NULL
    BY <1>11 DEF Live, Uses
  <2>2. peer[x].active = s /\ s # NULL
    BY DEF Uses, Ready
  <2>3. s.id[2] < w.id[2] /\ (w.remote # NULL => s.remote[2] < w.remote[2])
    BY <1>1, <1>8, <2>1, <2>2 DEF Succeeds
  <2> QED BY <1>7, <1>8, <2>1, <2>3
<1> QED BY <1>1, <1>2, <1>3, <1>4, <1>5, <1>6, <1>9, <1>10, <1>11 DEF Used

(* Send encrypts the next message, c.                                      *)
Encrypts(x, y, s, u, c) ==
    /\ Uses(x, y, s, u) /\ u.sendN = s.sendN + 1
    /\ c \in Transport /\ c.key = Key(s) /\ c.n = s.sendN /\ c.m = sent[x] + 1
    /\ sent' = [sent EXCEPT ![x] = @ + 1] /\ last' = last /\ net' = net
    /\ held' = [held EXCEPT ![x] = @ \cup {c}]

(* Encrypting keeps what is said about the frames the device gets.         *)
LEMMA EncryptsIn ==
    ASSUME Typed, Typed', ChannelInv, NEW x \in Device, NEW y \in Device, x # y,
           NEW s, NEW u, NEW c, Encrypts(x, y, s, u, c)
    PROVE  Linked(y, x)'
<1>1. Linked(y, x) /\ FifoInv(y, x)
  BY DEF ChannelInv, Linked
<1>2. Uses(x, y, s, u)
  BY DEF Encrypts
<1>3. Grows(x, {}) /\ Stays(x) /\ Grows(y, {}) /\ Stays(y)
  BY <1>2, UsesFacts DEF Used
<1>4. /\ sent'[y] = sent[y] /\ held'[y] = held[y] /\ net' = net /\ sends' = sends
      /\ busy' = busy /\ last' = last /\ made' = made
  BY DEF Encrypts, Uses, Typed
<1>5. Flight(y, x)' = Flight(y, x) /\ FifoInv(y, x)'
  BY <1>1, <1>4 DEF Flight, Reply, FifoInv
<1> QED BY <1>1, <1>3, <1>4, <1>5, QuietStep

(* Encrypting keeps what is said about the frames the device sends.        *)
LEMMA EncryptsOut ==
    ASSUME Typed, Typed', ChannelInv, NEW x \in Device, NEW y \in Device, x # y,
           NEW s, NEW u, NEW c, Encrypts(x, y, s, u, c)
    PROVE  Linked(x, y)'
<1>1. /\ SessionsInv(y, x) /\ MessagesInv(x, y) /\ MatesInv(x, y)
      /\ FifoInv(x, y) /\ CiphersInv(x, y) /\ OrderInv(x, y)
  BY DEF ChannelInv, Linked
<1>2. Uses(x, y, s, u)
  BY DEF Encrypts
<1>3. Used(x, y, s, u)
  BY <1>2, UsesFacts
<1> USE DEF Used
<1>4. /\ held'[x] = held[x] \cup {c} /\ net' = net /\ sends' = sends
      /\ busy' = busy /\ last' = last /\ made' = made
  BY DEF Encrypts, Uses, Typed
<1>5. Flight(x, y)' = Flight(x, y) \cup {c} /\ FifoInv(x, y)'
  BY <1>1, <1>4 DEF Flight, Reply, FifoInv
<1>6. c \in Transport /\ c.type = "transport" /\ c.type # "handshake"
  BY SMT DEF Encrypts, Transport
<1>7. /\ \A f \in Handshakes(x, y)' : f \in Handshakes(x, y)
      /\ \A f \in Ciphertexts(x, y)' : f \in Ciphertexts(x, y) \/ f = c
  BY <1>5, <1>6 DEF Handshakes, Ciphertexts
<1>8. PICK none : none = {}
  OBVIOUS
<1>9. (\A z : z \notin none) /\ Grows(x, none) /\ Grows(y, none)
  BY <1>3, <1>8
<1>10. MadeMore /\ Grows(x, {}) /\ Stays(x) /\ Grows(y, {}) /\ Stays(y)
  BY <1>3
<1>11. SessionsInv(y, x)' /\ MessagesInv(x, y)' /\ MatesInv(x, y)'
  BY <1>1, <1>7, <1>8, <1>10, QuietSessions
<1>12. /\ s.id[2] \in Nat /\ s.sendN \in Nat /\ u.sendN \in Nat /\ c.n = s.sendN
       /\ sent[x] \in Nat /\ sent'[x] = sent[x] + 1 /\ c.m = sent[x] + 1
       /\ u.sendN = s.sendN + 1 /\ u.id = s.id /\ u.status = s.status /\ c.key = Key(s)
       /\ last[y] \in Nat /\ last'[y] = last[y] /\ last[y] <= sent[x]
  <2>1. /\ s \in Session /\ u \in Session /\ u.sendN = s.sendN + 1 /\ c.n = s.sendN
        /\ c.m = sent[x] + 1 /\ c.key = Key(s) /\ u.id = s.id /\ u.status = s.status
    BY <1>2 DEF Encrypts, Uses, Grown
  <2>2. s.id[2] \in Nat /\ s.sendN \in Nat /\ u.sendN \in Nat
    BY SMT, <2>1 DEF Session, Id
  <2>3. /\ sent \in [Device -> Nat] /\ last[y] \in Nat /\ sent[x] \in Nat
        /\ last'[y] = last[y] /\ last[y] <= sent[x]
    BY <1>1, <1>4 DEF Typed, CiphersInv
  <2>4. sent'[x] = sent[x] + 1
    BY <2>3 DEF Encrypts
  <2> QED BY <2>1, <2>2, <2>3, <2>4
<1>13. ASSUME NEW w \in Live(x)' PROVE Encrypted(c, w, x)
  <2>1. CASE w = u
    <3>1. s.id[2] <= u.id[2] /\ c.n < u.sendN
      BY SMT, <1>12
    <3>2. u.status # "handshaking"
      <4>1. "ready" # "handshaking"
        OBVIOUS
      <4> QED BY <1>3, <1>12, <4>1
    <3> QED BY <1>3, <1>12, <2>1, <3>1, <3>2 DEF Encrypted
  <2>2. CASE w # u
    <3>1. w \in Session /\ s.id[2] < w.id[2]
      BY <1>3, <2>2
    <3>2. s.id[2] <= w.id[2] /\ s.id[2] # w.id[2]
      <4>1. w.id \in Id
        BY <3>1 DEF Session
      <4>2. w.id[2] \in Nat
        BY <4>1 DEF Id
      <4> QED BY SMT, <1>12, <3>1, <4>2
    <3>3. w.id # s.id
      BY <3>2
    <3> QED BY <1>3, <1>12, <3>2, <3>3 DEF Encrypted
  <2> QED BY <2>1, <2>2
<1>14. ASSUME NEW v \in Live(y)' PROVE Undelivered(c, v, y)'
  <2>1. v \in Live(y) /\ v \in Session /\ s \in Session
    BY <1>2, <1>3, FlightTyped DEF Uses
  <2>2. Mates(s, v)
    BY <1>1, <1>3, <2>1 DEF MatesInv
  <2>3. ASSUME v.id = s.remote PROVE Key(v) = c.key
    <3>1. v.remote = s.id /\ v.initiator # s.initiator
      BY <1>3, <2>2, <2>3 DEF Mates
    <3>2. v.initiator \in BOOLEAN /\ s.initiator \in BOOLEAN
      BY <2>1 DEF Session
    <3> QED BY <1>12, <2>3, <3>1, <3>2 DEF Key
  <2>4. last'[y] < c.m
    BY SMT, <1>12
  <2> QED BY <1>3, <1>12, <2>3, <2>4 DEF Undelivered
<1>15. Waits(c, x)'
  <2>1. ASSUME peer'[x] # NULL, peer'[x].pending # NULL PROVE peer'[x].pending.id # s.id
    <3> DEFINE w == peer'[x].pending
    <3>1. w \in Live(x)' /\ w = peer[x].pending
      BY <1>2, <2>1 DEF Live, Uses
    <3>2. s # NULL /\ s = peer[x].active /\ peer[x] # NULL /\ peer[x].pending # NULL
      BY <1>2, <2>1, <3>1 DEF Uses, Ready
    <3>3. s.id[2] < w.id[2]
      BY <3>1, <3>2 DEF ChannelInv, Linked, SessionsInv, Succeeds
    <3>4. s.id[2] # w.id[2]
      BY SMT, <1>12, <3>3
    <3> QED BY <3>4
  <2> QED BY <1>3, <1>12, <2>1 DEF Waits
<1>16. CiphersInv(x, y)'
  <2>1. sent[x] <= sent'[x] /\ last'[y] <= sent'[x] /\ c.m <= sent'[x]
    BY SMT, <1>12
  <2>2. ASSUME NEW f \in Ciphertexts(x, y)' PROVE Waits(f, x)'
    BY <1>1, <1>3, <1>7, <1>15, WaitsStep
  <2>3. Between(c.key, x, y)'
    BY <1>3, <1>4, <1>12 DEF Between, KeyOf
  <2>4. NewCiphers(x, y, none, none, {c})
    BY <1>7, <1>9, <1>12, <1>13, <1>14, <2>1, <2>2, <2>3 DEF NewCiphers
  <2> QED BY <1>1, <1>9, <1>10, <2>1, <2>4, CiphersStep
<1>17. OrderInv(x, y)'
  <2> SUFFICES ASSUME NEW f \in Ciphertexts(x, y)', NEW g \in Ciphertexts(x, y)'
               PROVE  Ascending(f, g, x)
    BY DEF OrderInv
  <2>1. CASE f \in Ciphertexts(x, y) /\ g \in Ciphertexts(x, y)
    BY <1>1, <2>1 DEF OrderInv
  <2>2. CASE f \in Ciphertexts(x, y) /\ g = c
    <3>1. f.m \in Nat /\ f.m <= sent[x]
      <4>1. f \in Transport /\ f.m <= sent[x]
        BY <1>1, <2>2, FlightTyped DEF CiphersInv
      <4> QED BY <4>1 DEF Transport
    <3>2. f.m < g.m
      BY SMT, <1>12, <2>2, <3>1
    <3> QED BY <3>2 DEF Ascending
  <2>3. CASE f = c /\ g \in Ciphertexts(x, y)
    <3>1. Encrypted(g, s, x) /\ Between(g.key, x, y) /\ g \in Transport
      BY <1>1, <1>3, <2>3, FlightTyped DEF CiphersInv
    <3>2. KeyOf(x, End(g.key, x))
      BY <3>1, CipherEnds
    <3>3. End(g.key, x)[2] <= s.id[2] /\ End(g.key, x)[2] \in Nat /\ g.n \in Nat
      <4>1. End(g.key, x) \in Id
        BY <3>2 DEF KeyOf
      <4> QED BY <3>1, <4>1 DEF Encrypted, Transport, Id
    <3>4. ~(s.id[2] < End(g.key, x)[2])
      BY SMT, <1>12, <3>3
    <3>5. ASSUME g.key = Key(s) PROVE ~(c.n < g.n)
      <4>1. g.n < s.sendN
        BY <1>3, <3>1, <3>5 DEF Encrypted
      <4> QED BY SMT, <1>12, <3>3, <4>1
    <3> QED BY <1>3, <1>12, <2>3, <3>4, <3>5 DEF Ascending
  <2>4. CASE f = c /\ g = c
    <3>1. ~(c.n < c.n) /\ ~(s.id[2] < s.id[2])
      BY SMT, <1>12
    <3> QED BY <1>3, <1>12, <2>4, <3>1 DEF Ascending
  <2> QED BY <1>7, <2>1, <2>2, <2>3, <2>4
<1> QED BY <1>5, <1>11, <1>16, <1>17 DEF Linked

(* readLoop decrypts the next frame f, and may deliver it.                 *)
Receives(x, y, s, u, f) ==
    /\ Uses(x, y, s, u) /\ u.recvN = s.recvN + 1
    /\ f = Head(net[x]) /\ f.type = "transport" /\ f.key = Key(s) /\ f.n = s.recvN
    /\ net[x] # <<>> /\ net'[x] = Tail(net[x]) /\ net'[y] = net[y]
    /\ held' = held /\ sent' = sent
    /\ last' = last \/ last' = [last EXCEPT ![x] = f.m]

(* Decrypting keeps what is said about the frames the device sends.        *)
LEMMA ReceivesOut ==
    ASSUME Typed, Typed', ChannelInv, NEW x \in Device, NEW y \in Device, x # y,
           NEW s, NEW u, NEW f, Receives(x, y, s, u, f)
    PROVE  Linked(x, y)'
<1>1. Linked(x, y) /\ FifoInv(x, y)
  BY DEF ChannelInv, Linked
<1>2. Uses(x, y, s, u)
  BY DEF Receives
<1>3. Grows(x, {}) /\ Stays(x) /\ Grows(y, {}) /\ Stays(y)
  BY <1>2, UsesFacts DEF Used
<1>4. /\ sent'[x] = sent[x] /\ held' = held /\ net'[y] = net[y] /\ sends' = sends
      /\ busy' = busy /\ last'[y] = last[y] /\ made' = made
  BY DEF Receives, Uses, Typed
<1>5. Flight(x, y)' = Flight(x, y) /\ FifoInv(x, y)'
  BY <1>1, <1>4 DEF Flight, Reply, FifoInv
<1> QED BY <1>1, <1>3, <1>4, <1>5, QuietStep

(* Decrypting keeps what is said about the frames the device gets.         *)
LEMMA ReceivesIn ==
    ASSUME Typed, Typed', ChannelInv, NEW x \in Device, NEW y \in Device, x # y,
           NEW s, NEW u, NEW f, Receives(x, y, s, u, f)
    PROVE  /\ f \in Ciphertexts(y, x) /\ f.m \in Nat /\ last[x] < f.m /\ f.m <= sent[y]
           /\ Linked(y, x)'
<1>1. /\ SessionsInv(x, y) /\ MessagesInv(y, x) /\ MatesInv(y, x)
      /\ FifoInv(y, x) /\ CiphersInv(y, x) /\ OrderInv(y, x)
  BY DEF ChannelInv, Linked
<1>2. Uses(x, y, s, u)
  BY DEF Receives
<1>3. Used(x, y, s, u)
  BY <1>2, UsesFacts
<1> USE DEF Used
<1>4. /\ f \in Flight(y, x) /\ \A g \in Flight(y, x)' : g \in Flight(y, x)
      /\ FifoInv(y, x)'
  <2>1. /\ net[x] # <<>> /\ net'[x] = Tail(net[x]) /\ f = Head(net[x])
        /\ sends'[y] = sends[y] /\ held'[y] = held[y] /\ busy'[y] = busy[y]
    BY <1>2 DEF Receives, Uses
  <2> QED BY <1>1, <2>1, TakenStep
<1>5. /\ f \in Ciphertexts(y, x) /\ f \in Transport
      /\ \A g \in Handshakes(y, x)' : g \in Handshakes(y, x)
      /\ \A g \in Ciphertexts(y, x)' : g \in Ciphertexts(y, x) /\ g \in Transport
  BY <1>4, FlightTyped DEF Handshakes, Ciphertexts, Receives
<1>6. /\ f.key = Key(s) /\ f.n = s.recvN /\ s.recvN \in Nat /\ u.recvN = s.recvN + 1
      /\ f.m \in Nat /\ last[x] \in Nat /\ sent[y] \in Nat /\ sent'[y] = sent[y]
      /\ last'[x] = last[x] \/ last'[x] = f.m
      /\ u.id = s.id
  <2>1. /\ s \in Session /\ f \in Transport /\ u.recvN = s.recvN + 1 /\ u.id = s.id
        /\ f.key = Key(s) /\ f.n = s.recvN
    BY <1>2, <1>5 DEF Receives, Uses, Grown
  <2>2. s.recvN \in Nat /\ f.m \in Nat
    BY SMT, <2>1 DEF Session, Transport
  <2>3. /\ last \in [Device -> Nat] /\ last[x] \in Nat /\ sent[y] \in Nat
        /\ sent'[y] = sent[y]
    BY DEF Typed, Receives
  <2>4. last'[x] = last[x] \/ last'[x] = f.m
    BY <2>3 DEF Receives
  <2> QED BY <2>1, <2>2, <2>3, <2>4
<1>7. f.m <= sent[y] /\ last[x] < f.m /\ last[x] <= sent[y]
  <2>1. Undelivered(f, s, x) /\ f.m <= sent[y] /\ last[x] <= sent[y]
    BY <1>1, <1>3, <1>5 DEF CiphersInv
  <2>2. s.recvN <= f.n
    BY SMT, <1>6
  <2> QED BY <1>3, <1>6, <2>1, <2>2 DEF Undelivered
<1>8. PICK none : none = {}
  OBVIOUS
<1>9. (\A z : z \notin none) /\ Grows(x, none) /\ Grows(y, none)
  BY <1>3, <1>8
<1>10. MadeMore /\ Grows(x, {}) /\ Stays(x) /\ Grows(y, {}) /\ Stays(y)
  BY <1>3
<1>11. SessionsInv(x, y)' /\ MessagesInv(y, x)' /\ MatesInv(y, x)'
  BY <1>1, <1>5, <1>8, <1>10, QuietSessions
<1>12. ASSUME NEW g \in Ciphertexts(y, x)', NEW w \in Live(x)' PROVE Undelivered(g, w, x)'
  <2>1. g \in Ciphertexts(y, x) /\ g.n \in Nat /\ g.m \in Nat
    BY <1>5 DEF Transport
  <2>2. Ascending(f, g, y) /\ Between(g.key, y, x)
    BY <1>1, <1>5, <2>1 DEF OrderInv, CiphersInv
  <2>3. CASE w = u
    <3> SUFFICES ASSUME s.id = End(g.key, x)
                 PROVE  Key(u) = g.key /\ (u.recvN <= g.n => last'[x] < g.m)
      BY <1>6, <2>3 DEF Undelivered
    <3>1. Key(s) = g.key /\ (s.recvN <= g.n => last[x] < g.m)
      BY <1>1, <1>3, <2>1 DEF CiphersInv, Undelivered
    <3>2. ASSUME u.recvN <= g.n PROVE last'[x] < g.m
      <4>1. f.n < g.n /\ s.recvN <= g.n
        BY SMT, <1>6, <2>1, <3>2
      <4>2. f.m < g.m
        BY <1>6, <2>2, <3>1, <4>1 DEF Ascending
      <4> QED BY <1>6, <3>1, <4>1, <4>2
    <3> QED BY <1>3, <3>1, <3>2
  <2>4. CASE w # u
    <3>1. /\ w \in Live(x) /\ w \in Session /\ Sound(w, x, y)
          /\ w.remote # NULL => s.remote[2] < w.remote[2]
      BY <1>3, <2>4
    <3> SUFFICES ASSUME w.id = End(g.key, x)
                 PROVE  Key(w) = g.key /\ (w.recvN <= g.n => last'[x] < g.m)
      BY DEF Undelivered
    <3>2. Key(w) = g.key /\ (w.recvN <= g.n => last[x] < g.m)
      BY <1>1, <2>1, <3>1 DEF CiphersInv, Undelivered
    <3>3. w.remote # NULL
      BY <2>2, <3>1, <3>2, KeyHeard
    <3>4. End(g.key, y) = w.remote
      BY <3>1, <3>2, <3>3, KeyEnds
    <3>5. f.m < g.m
      BY <1>3, <1>6, <2>2, <3>1, <3>3, <3>4 DEF Ascending
    <3> QED BY <1>6, <3>2, <3>5
  <2> QED BY <2>3, <2>4
<1>13. CiphersInv(y, x)'
  <2>1. sent[y] <= sent'[y] /\ last'[x] <= sent'[y]
    BY SMT, <1>6, <1>7
  <2>2. ASSUME NEW g \in Ciphertexts(y, x)' PROVE Waits(g, y)'
    BY <1>1, <1>3, <1>5, WaitsStep
  <2>3. NewCiphers(y, x, none, none, none)
    BY <1>5, <1>9, <1>12, <2>2 DEF NewCiphers
  <2> QED BY <1>1, <1>9, <1>10, <2>1, <2>3, CiphersStep
<1>14. OrderInv(y, x)'
  BY <1>1, <1>5, OrderStep
<1> QED BY <1>4, <1>5, <1>6, <1>7, <1>11, <1>13, <1>14 DEF Linked

-----------------------------------------------------------------------------
(* A session that has begun fails, or reads the last message it waits for. *)
Finished(s, u, m, reply) ==
    /\ s.status = "handshaking" /\ m.to = s.id /\ m.n = IF s.initiator THEN 2 ELSE 3
    /\ reply = IF s.initiator THEN Msg(3, s.id, m.from) ELSE NULL
    /\ u.id = s.id /\ u.initiator = s.initiator /\ u.gotMsg1 = s.gotMsg1
    /\ u.status = "ready" /\ u.remote = m.from /\ u.sendN = s.sendN /\ u.recvN = s.recvN

(* A session that has begun is finished by the message it reads, or only   *)
(* grows and sends nothing.                                                *)
LEMMA BegunSession ==
    ASSUME NEW s \in Session, NEW m \in Handshake, s.initiator \/ s.gotMsg1,
           NEW out, out = HandleHandshakeMessage(s, m)
    PROVE  /\ out.session \in Session
           /\ \/ out.reply = NULL /\ Grown(out.session, s)
              \/ Finished(s, out.session, m, out.reply)
<1>1. out.session \in Session
  BY OutcomeOfMessage
<1>2. CASE s.status # "handshaking"
  <2>1. out.session = s /\ out.reply = NULL
    BY <1>2 DEF HandleHandshakeMessage, Outcome
  <2> QED BY <1>1, <2>1, GrownSelf
<1>3. CASE s.status = "handshaking" /\ ~Reads(s, m)
  <2>1. out.session = [s EXCEPT !.status = "failed"] /\ out.reply = NULL
    BY <1>3 DEF HandleHandshakeMessage, Outcome, Fail
  <2>2. Grown(out.session, s)
    BY SMT, <2>1 DEF Grown, Session
  <2> QED BY <1>1, <2>1, <2>2
<1>4. CASE s.status = "handshaking" /\ Reads(s, m) /\ s.initiator
  <2>1. /\ out.session = [s EXCEPT !.status = "ready", !.remote = m.from]
        /\ out.reply = Msg(3, s.id, m.from)
    BY <1>4 DEF HandleHandshakeMessage, InitiatorStep, Outcome, Finish
  <2>2. m.n = 2 /\ m.to = s.id
    BY <1>4 DEF Reads
  <2>3. /\ out.session.id = s.id /\ out.session.initiator = s.initiator
        /\ out.session.gotMsg1 = s.gotMsg1 /\ out.session.status = "ready"
        /\ out.session.remote = m.from /\ out.session.sendN = s.sendN
        /\ out.session.recvN = s.recvN
    BY SMT, <2>1 DEF Session
  <2> QED BY <1>1, <1>4, <2>1, <2>2, <2>3 DEF Finished
<1>5. CASE s.status = "handshaking" /\ Reads(s, m) /\ ~s.initiator
  <2>1. s.gotMsg1
    BY <1>5
  <2>2. out.session = [s EXCEPT !.status = "ready", !.remote = m.from] /\ out.reply = NULL
    BY <1>5, <2>1 DEF HandleHandshakeMessage, ResponderStep, Outcome, Finish
  <2>3. m.n = 3 /\ m.to = s.id
    BY <1>5, <2>1 DEF Reads
  <2>4. /\ out.session.id = s.id /\ out.session.initiator = s.initiator
        /\ out.session.gotMsg1 = s.gotMsg1 /\ out.session.status = "ready"
        /\ out.session.remote = m.from /\ out.session.sendN = s.sendN
        /\ out.session.recvN = s.recvN
    BY SMT, <2>2 DEF Session
  <2> QED BY <1>1, <1>5, <2>2, <2>3, <2>4 DEF Finished
<1> QED BY <1>2, <1>3, <1>4, <1>5

(* A new responder answers whatever it reads, bound to whoever sent msg1.  *)
Answered(s, m, t, g) ==
    /\ t \in Session /\ t.id = s.id /\ t.status = "handshaking" /\ ~t.initiator
    /\ t.gotMsg1 /\ t.remote = IF m.n = 1 THEN m.from ELSE NULL
    /\ g \in Handshake /\ g.from = s.id /\ g.n = 2 /\ g.to = t.remote

(* A new responder answers the first message it reads, whichever it is.    *)
LEMMA NewResponder ==
    ASSUME NEW s \in Session, NEW m \in Handshake, s.status = "handshaking",
           ~s.initiator, ~s.gotMsg1, NEW out, out = HandleHandshakeMessage(s, m),
           NEW t, NEW g, t = out.session, g = out.reply
    PROVE  Answered(s, m, t, g)
<1> DEFINE remote == IF m.n = 1 THEN m.from ELSE NULL
<1>1. Reads(s, m)
  BY DEF Reads
<1>2. out = ResponderStep(s, m)
  BY <1>1 DEF HandleHandshakeMessage
<1>3. /\ out.session = [s EXCEPT !.gotMsg1 = TRUE, !.remote = remote]
      /\ out.reply = Msg(2, s.id, remote)
  <2>1. out = Outcome([s EXCEPT !.gotMsg1 = TRUE, !.remote = remote], Msg(2, s.id, remote), FALSE)
    BY <1>2 DEF ResponderStep
  <2> QED BY SMT, <2>1 DEF Outcome
<1>4. remote \in IdOrNull
  BY DEF Handshake, IdOrNull
<1> HIDE DEF remote
<1>5. /\ out.session \in Session /\ out.session.id = s.id
      /\ out.session.status = "handshaking" /\ ~out.session.initiator
      /\ out.session.gotMsg1 /\ out.session.remote = remote
  <2>1. PICK v \in Session : v = s
    OBVIOUS
  <2>2. out.session = [v EXCEPT !.gotMsg1 = TRUE, !.remote = remote]
    BY <1>3, <2>1
  <2>3. out.session \in Session
    BY <2>2, <1>4 DEF Session
  <2>4. /\ out.session.id = v.id /\ out.session.status = v.status
        /\ out.session.initiator = v.initiator
        /\ out.session.gotMsg1 /\ out.session.remote = remote
    BY SMT, <2>2 DEF Session
  <2> QED BY <2>1, <2>3, <2>4
<1>6. /\ out.reply \in Handshake /\ out.reply.from = s.id /\ out.reply.n = 2
      /\ out.reply.to = remote
  BY SMT, <1>3, <1>4 DEF Handshake, Msg, Session
<1> QED BY <1>5, <1>6 DEF remote, Answered

(* What feeding a message changes.                                         *)
Feeds(x, y, slot, m, out) ==
    /\ m \in Handshake /\ Reply(x) = {} /\ Reply(x)' = {out.reply} \ {NULL}
    /\ busy'[x].reply = out.reply /\ busy'[y] = busy[y] /\ peer'[y] = peer[y]
    /\ slot = "active" =>
           peer'[x].active = out.session /\ peer'[x].pending = peer[x].pending
    /\ slot = "pending" =>
           peer'[x].active = peer[x].active /\ peer'[x].pending = out.session
    /\ sends' = sends /\ held' = held /\ sent' = sent /\ last' = last
    /\ net[x] # <<>> /\ net'[x] = Tail(net[x]) /\ net'[y] = net[y]

(* Feeding a message to the session of a slot changes that slot, the work  *)
(* at hand and the queue it came from.                                     *)
LEMMA FeedStep ==
    ASSUME Typed, NEW x \in Device, NEW y \in Device, y # x, NEW s \in Session,
           NEW slot, slot \in {"active", "pending"}, peer[x] # NULL,
           Takes(x, "handshake"), Feed(x, s, slot),
           NEW m, NEW out, m = Head(net[x]), out = HandleHandshakeMessage(s, m)
    PROVE  Feeds(x, y, slot, m, out)
<1> DEFINE work == [reply |-> out.reply, done |-> out.done, err |-> out.err, slot |-> slot]
<1>1. /\ peer' = [peer EXCEPT ![x] = Fed(peer[x], slot, out.session)]
      /\ busy' = [busy EXCEPT ![x] = work]
      /\ sends' = sends /\ held' = held /\ sent' = sent /\ last' = last
  BY DEF Feed, appVars
<1>2. m \in Handshake
  <2>1. net[x] \in Seq(Frame) /\ net[x] # <<>> /\ m.type = "handshake"
    BY DEF Takes, Typed
  <2>2. m \in Frame
    BY SMT, <2>1
  <2> QED BY <2>1, <2>2, HandshakeFrame
<1>3. out.reply \in Handshake \cup {NULL} /\ out.done \in BOOLEAN /\ out.err \in BOOLEAN
  BY <1>2, OutcomeOfMessage
<1>4. busy[x] = NULL /\ Reply(x) = {}
  BY DEF Takes, Reply
<1>5. work.reply = out.reply /\ work # NULL
  <2>1. work \in Work /\ work.reply = out.reply
    BY SMT, <1>3 DEF Work
  <2> HIDE DEF work
  <2> QED BY <2>1, NullAssumption
<1> HIDE DEF work
<1>6. /\ busy'[x] = work /\ busy'[y] = busy[y] /\ peer'[y] = peer[y]
      /\ peer'[x] = Fed(peer[x], slot, out.session) /\ peer[x] \in PeerConn
  <2>1. peer \in [Device -> PeerConn \cup {NULL}] /\ DOMAIN busy = Device
    BY DEF Typed
  <2> QED BY <1>1, <2>1
<1>7. Reply(x)' = {out.reply} \ {NULL}
  BY <1>5, <1>6 DEF Reply
<1>8. /\ slot = "active" =>
             peer'[x].active = out.session /\ peer'[x].pending = peer[x].pending
      /\ slot = "pending" =>
             peer'[x].active = peer[x].active /\ peer'[x].pending = out.session
  <2>1. CASE slot = "active"
    <3>1. "active" # "pending"
      OBVIOUS
    <3> QED BY <1>6, <2>1, <3>1 DEF PeerConn, Fed
  <2>2. CASE slot = "pending"
    <3>1. "pending" # "active"
      OBVIOUS
    <3> QED BY <1>6, <2>2, <3>1 DEF PeerConn, Fed
  <2> QED BY <2>1, <2>2
<1>9. net[x] # <<>> /\ net'[x] = Tail(net[x]) /\ net'[y] = net[y]
  BY TakesThins
<1> QED BY <1>1, <1>2, <1>4, <1>5, <1>6, <1>7, <1>8, <1>9 DEF Feeds

(* A message is for a session that has begun.                              *)
LEMMA ContinueChannel ==
    ASSUME Typed, Typed', ChannelInv, NEW x \in Device, ContinueHandshake(x)
    PROVE  ChannelInv'
<1>1. PICK s, slot :
          /\ slot \in {"active", "pending"} /\ s # NULL /\ Feed(x, s, slot)
          /\ slot = "active" => peer[x].pending = NULL /\ s = peer[x].active
          /\ slot = "pending" => s = peer[x].pending
  BY DEF ContinueHandshake
<1>2. Takes(x, "handshake") /\ peer[x] # NULL /\ made' = made
  BY DEF ContinueHandshake
<1>3. s \in Live(x) /\ s \in Session
  <2>1. s \in Live(x)
    BY <1>1, <1>2 DEF Live
  <2> QED BY <2>1, FlightTyped
<1>4. PICK y \in Device : y # x
  BY OtherDevice
<1>5. PICK m, out : m = Head(net[x]) /\ out = HandleHandshakeMessage(s, m)
  OBVIOUS
<1>6. Feeds(x, y, slot, m, out)
  BY <1>1, <1>2, <1>3, <1>4, <1>5, FeedStep
<1> USE DEF Feeds
<1>7. PICK u : u = out.session
  OBVIOUS
<1>8. /\ \A z \in Device : z = x \/ z = y
      /\ SessionsInv(x, y)
  BY <1>4, TwoDevices DEF ChannelInv, Linked
<1>9. Sound(s, x, y) /\ Succeeds(peer[x])
  BY <1>2, <1>3, <1>8 DEF SessionsInv
<1>10. u \in Session /\ ((out.reply = NULL /\ Grown(u, s)) \/ Finished(s, u, m, out.reply))
  BY <1>3, <1>5, <1>6, <1>7, <1>9, BegunSession DEF Sound
<1>11. \A w \in Live(x)' : w = u \/ (w \in Live(x) /\ w.id # s.id)
  <2>1. CASE slot = "active"
    BY <1>1, <1>6, <1>7, <2>1 DEF Live
  <2>2. CASE slot = "pending"
    <3> SUFFICES ASSUME NEW w \in Live(x)', w # u PROVE w \in Live(x) /\ w.id # s.id
      OBVIOUS
    <3>1. w = peer[x].active /\ w # NULL /\ s = peer[x].pending
      BY <1>1, <1>6, <1>7, <2>2 DEF Live
    <3>2. w \in Live(x) /\ w \in Session
      BY <1>2, <3>1, FlightTyped DEF Live
    <3>3. w.id[2] < s.id[2]
      BY <1>1, <1>9, <3>1 DEF Succeeds
    <3>4. w.id[2] # s.id[2]
      BY SMT, <1>3, <3>2, <3>3 DEF Session, Id
    <3> QED BY <3>2, <3>4
  <2> QED BY <1>1, <2>1, <2>2
<1>12. CASE out.reply = NULL /\ Grown(u, s)
  <2>1. Grows(x, {})
    <3>1. \A w \in Live(x) : Grown(w, w)
      BY FlightTyped, GrownSelf
    <3> QED BY <1>3, <1>11, <1>12, <3>1 DEF Grows
  <2>2. Stays(x)
    BY <1>1, <1>2, <1>6, <1>7, <1>12 DEF Stays
  <2>3. Grows(y, {}) /\ Stays(y)
    BY <1>6, SessionsKept
  <2>4. Thins(x) /\ Thins(y)
    BY <1>6, <1>12 DEF Thins
  <2>5. \A z \in Device : Grows(z, {}) /\ Stays(z) /\ Thins(z) /\ held'[z] \subseteq held[z]
    BY <1>6, <1>8, <2>1, <2>2, <2>3, <2>4
  <2> QED BY <1>2, <1>6, <2>5, QuietLinks
<1>13. CASE Finished(s, u, m, out.reply)
  <2>1. Reply(x)' = IF s.initiator THEN {Msg(3, s.id, m.from)} ELSE {}
    <3>1. CASE s.initiator
      <4>1. out.reply = Msg(3, s.id, m.from)
        BY <1>13, <3>1 DEF Finished
      <4>2. out.reply # NULL
        <5>1. out.reply \in Handshake
          <6>1. m \in Handshake
            BY <1>6
          <6>2. s.id \in Id /\ m.from \in Id
            BY <1>3, <6>1 DEF Session, Handshake
          <6> QED BY SMT, <4>1, <6>2 DEF Handshake, Msg, IdOrNull
        <5> QED BY <5>1, NullAssumption
      <4> QED BY <1>6, <3>1, <4>1, <4>2
    <3>2. CASE ~s.initiator
      BY <1>6, <1>13, <3>2 DEF Finished
    <3> QED BY <3>1, <3>2
  <2>2. \/ peer'[x].pending = NULL
        \/ /\ peer'[x].active = peer[x].active /\ peer'[x].pending = u
           /\ peer[x].pending = s /\ peer[x].pending # NULL
    BY <1>1, <1>6, <1>7
  <2>3. Completes(x, y, s, u, m)
    BY <1>2, <1>3, <1>5, <1>6, <1>10, <1>11, <1>13, <2>1, <2>2 DEF Completes, Finished
  <2>4. Linked(x, y)' /\ Linked(y, x)'
    BY <1>4, <2>3, CompletesOut, CompletesIn
  <2> QED BY <1>4, <2>4, BothDirections
<1> QED BY <1>10, <1>12, <1>13

(* A message starts a session as responder.                                *)
LEMMA AnswerChannel ==
    ASSUME Typed, Typed', ChannelInv, NEW x \in Device, AnswerHandshake(x)
    PROVE  ChannelInv'
<1>1. PICK s, slot :
          /\ slot \in {"active", "pending"} /\ s = NextSession(x, FALSE) /\ Feed(x, s, slot)
          /\ slot = "active" => peer[x].active = NULL
  <2>1. CASE peer[x].active = NULL /\ Feed(x, NextSession(x, FALSE), "active")
    BY <2>1
  <2>2. CASE Feed(x, NextSession(x, FALSE), "pending")
    <3>1. "pending" # "active"
      OBVIOUS
    <3>2. PICK slot : slot = "pending"
      OBVIOUS
    <3>3. slot \in {"active", "pending"} /\ slot # "active" /\ Feed(x, NextSession(x, FALSE), slot)
      BY <2>2, <3>1, <3>2
    <3> QED BY <3>3
  <2> QED BY <2>1, <2>2 DEF AnswerHandshake
<1>2. Takes(x, "handshake") /\ peer[x] # NULL /\ peer[x].pending = NULL /\ Made(x)
  BY DEF AnswerHandshake
<1>3. /\ s \in Session /\ s.status = "handshaking" /\ ~s.initiator /\ ~s.gotMsg1
      /\ s.id = <<x, made[x] + 1>>
  <2>1. s \in Session /\ s.status = "handshaking"
    BY <1>1, NewSessions
  <2> QED BY <1>1, <2>1 DEF NextSession, NewSession
<1>4. PICK y \in Device : y # x
  BY OtherDevice
<1>5. PICK m, out : m = Head(net[x]) /\ out = HandleHandshakeMessage(s, m)
  OBVIOUS
<1>6. Feeds(x, y, slot, m, out)
  BY <1>1, <1>2, <1>3, <1>4, <1>5, FeedStep
<1> USE DEF Feeds
<1>7. PICK t, g : t = out.session /\ g = out.reply
  OBVIOUS
<1>8. Answered(s, m, t, g)
  <2>1. m \in Handshake
    BY <1>6
  <2> QED BY <1>3, <1>5, <1>7, <2>1, NewResponder
<1> USE DEF Answered
<1>9. t # NULL /\ g # NULL /\ Reply(x)' = {g}
  BY <1>6, <1>7, <1>8, NullAssumption
<1>10. t.remote # NULL => Opens(m) /\ t.remote = m.from
  <2>1. 1 # 3
    BY SMT
  <2>2. m.type = "handshake"
    BY <1>6 DEF Handshake
  <2> QED BY <1>8, <2>1, <2>2 DEF Opens
<1>11. \/ peer'[x].pending = NULL
       \/ /\ peer[x] # NULL /\ peer'[x].active = peer[x].active /\ peer'[x].pending = t
          /\ peer'[x].pending # NULL
  BY <1>1, <1>2, <1>6, <1>7, <1>9
<1>12. Grows(x, {t})
  <2>1. \A w \in Live(x)' : w = t \/ w \in Live(x)
    BY <1>1, <1>2, <1>6, <1>7 DEF Live
  <2> QED BY <2>1, FlightTyped, GrownSelf DEF Grows
<1>13. g.n # 3 /\ (g.n = 1 => g.to = NULL)
  BY SMT, <1>8
<1>14. Starts(x, y, t, g)
  BY <1>2, <1>3, <1>5, <1>6, <1>8, <1>9, <1>10, <1>11, <1>12, <1>13 DEF Starts, Made
<1>15. Linked(x, y)' /\ Linked(y, x)'
  BY <1>4, <1>14, StartsOut, StartsIn
<1> QED BY <1>4, <1>15, BothDirections

(* The accepting device starts the first handshake, the device with the    *)
(* smaller ID a replacement.                                               *)
LEMMA BeginChannel ==
    ASSUME Typed, Typed', ChannelInv, NEW x \in Device, NEW type, Takes(x, type),
           NEW s, s = NextSession(x, TRUE), Made(x), Enqueue(x, Msg(1, s.id, NULL)),
           busy' = busy, held' = held, sent' = sent, last' = last,
           \A z \in Device : z # x => peer'[z] = peer[z],
           \/ peer'[x].active = s /\ peer'[x].pending = NULL
           \/ peer[x] # NULL /\ peer'[x].active = peer[x].active /\ peer'[x].pending = s
    PROVE  ChannelInv'
<1>1. /\ s \in Session /\ s # NULL /\ s.status = "handshaking" /\ Msg(1, s.id, NULL) \in Handshake
      /\ s.initiator /\ s.remote = NULL /\ s.id = <<x, made[x] + 1>>
  <2>1. /\ s \in Session /\ s # NULL /\ s.status = "handshaking"
        /\ Msg(1, s.id, NULL) \in Handshake
    BY NewSessions
  <2> QED BY SMT, <2>1 DEF NextSession, NewSession
<1>2. PICK y \in Device : y # x
  BY OtherDevice
<1>3. PICK g : g = Msg(1, s.id, NULL)
  OBVIOUS
<1>4. g \in Handshake /\ g.from = s.id /\ g.n = 1 /\ g.to = NULL /\ g.n # 3 /\ g.n # 2
  <2>1. g.from = s.id /\ g.n = 1 /\ g.to = NULL
    BY <1>3 DEF Msg
  <2>2. g.n # 3 /\ g.n # 2
    BY SMT, <2>1
  <2> QED BY <1>1, <1>3, <2>1, <2>2
<1>5. sends'[x] = Append(sends[x], g) /\ sends'[y] = sends[y]
  BY <1>2, <1>3 DEF Enqueue, Typed
<1>6. Reply(x) = {} /\ Reply(x)' = {}
  BY DEF Takes, Reply
<1>7. net[x] # <<>> /\ net'[x] = Tail(net[x]) /\ net'[y] = net[y]
  BY <1>2, TakesThins
<1>8. Grows(x, {s})
  <2>1. \A w \in Live(x)' : w = s \/ w \in Live(x)
    BY DEF Live
  <2> QED BY <2>1, FlightTyped, GrownSelf DEF Grows
<1>9. Starts(x, y, s, g)
  BY <1>1, <1>2, <1>4, <1>5, <1>6, <1>7, <1>8 DEF Starts, Made
<1>10. Linked(x, y)' /\ Linked(y, x)'
  BY <1>2, <1>9, StartsOut, StartsIn
<1> QED BY <1>2, <1>10, BothDirections

(* Counting a nonce is all that a use of a session changes in it.          *)
LEMMA CountedUse ==
    ASSUME Typed, NEW x \in Device, NEW y \in Device, y # x, NEW s, NEW u,
           peer[x] # NULL, s = peer[x].active, Ready(s),
           \/ /\ u = [s EXCEPT !.sendN = @ + 1]
              /\ peer' = [peer EXCEPT ![x] = [@ EXCEPT !.active = u]]
           \/ /\ u = [s EXCEPT !.recvN = @ + 1]
              /\ peer' = [peer EXCEPT ![x] = [@ EXCEPT !.active = u]],
           busy' = busy, sends' = sends, made' = made
    PROVE  Uses(x, y, s, u)
<1>1. peer \in [Device -> PeerConn \cup {NULL}]
  BY DEF Typed
<1>2. peer[x] \in PeerConn /\ s \in Session
  BY <1>1 DEF PeerConn, Ready
<1>3. u \in Session /\ Grown(u, s) /\ u.status = s.status
  BY SMT, <1>2 DEF Session, Grown
<1>4. peer'[x] = [peer[x] EXCEPT !.active = u] /\ peer'[y] = peer[y]
  BY <1>1
<1>5. peer'[x].active = u /\ peer'[x].pending = peer[x].pending
  BY <1>2, <1>4 DEF PeerConn
<1> QED BY <1>2, <1>3, <1>4, <1>5 DEF Uses

(* Send, first step, encrypts under the active session.                    *)
LEMMA EncryptStep ==
    ASSUME Typed, NEW x \in Device, NEW y \in Device, y # x, Encrypt(x)
    PROVE  \E s, u, c : Encrypts(x, y, s, u, c)
<1>1. PICK s, u, c : /\ s = peer[x].active /\ u = [s EXCEPT !.sendN = @ + 1]
                     /\ c = Ciphertext(s, sent[x] + 1)
  OBVIOUS
<1>2. /\ peer[x] # NULL /\ Ready(s) /\ sent' = [sent EXCEPT ![x] = @ + 1]
      /\ held' = [held EXCEPT ![x] = @ \cup {c}]
      /\ peer' = [peer EXCEPT ![x].active.sendN = @ + 1]
      /\ busy' = busy /\ sends' = sends /\ net' = net /\ made' = made /\ last' = last
  BY <1>1 DEF Encrypt, linkVars
<1>3. peer' = [peer EXCEPT ![x] = [@ EXCEPT !.active = u]]
  BY SMT, <1>1, <1>2
<1>4. Uses(x, y, s, u)
  BY <1>1, <1>2, <1>3, CountedUse
<1>5. s \in Session /\ sent[x] \in Nat
  BY <1>4 DEF Uses, Typed
<1>6. u.sendN = s.sendN + 1
  BY SMT, <1>1, <1>5 DEF Session
<1>7. c \in Transport /\ c.key = Key(s) /\ c.n = s.sendN /\ c.m = sent[x] + 1
  <2>1. Key(s) \in IdOrNull \X IdOrNull
    BY <1>5 DEF Session, Key, IdOrNull
  <2>2. s.sendN \in Nat /\ sent[x] + 1 \in Nat
    BY SMT, <1>5 DEF Session
  <2>3. c = [type |-> "transport", key |-> Key(s), n |-> s.sendN, m |-> sent[x] + 1]
    BY <1>1 DEF Ciphertext
  <2> QED BY <2>1, <2>2, <2>3 DEF Transport
<1> QED BY <1>2, <1>4, <1>6, <1>7 DEF Encrypts

(* Encrypting a message keeps the invariant.                               *)
LEMMA EncryptChannel ==
    ASSUME Typed, Typed', ChannelInv, NEW x \in Device, Encrypt(x)
    PROVE  ChannelInv'
<1>1. PICK y \in Device : y # x
  BY OtherDevice
<1>2. PICK s, u, c : Encrypts(x, y, s, u, c)
  BY <1>1, EncryptStep
<1>3. Linked(x, y)' /\ Linked(y, x)'
  BY <1>1, <1>2, EncryptsOut, EncryptsIn
<1> QED BY <1>1, <1>3, BothDirections

(* A frame is dropped, or it is the next one of the active session.        *)
LEMMA TransportStep ==
    ASSUME Typed, NEW x \in Device, NEW y \in Device, y # x, HandleTransportEnvelope(x)
    PROVE  \/ peer' = peer /\ last' = last
           \/ \E s, u, f : Receives(x, y, s, u, f)
<1>1. /\ Takes(x, "transport") /\ sends' = sends /\ held' = held /\ sent' = sent
      /\ busy' = busy /\ made' = made
  BY DEF HandleTransportEnvelope, appVars
<1>2. PICK s, u, f : /\ s = peer[x].active /\ u = [s EXCEPT !.recvN = @ + 1]
                     /\ f = Head(net[x])
  OBVIOUS
<1>3. CASE ~(peer[x] # NULL /\ Decrypts(s, f))
  BY <1>2, <1>3 DEF HandleTransportEnvelope
<1>4. CASE peer[x] # NULL /\ Decrypts(s, f)
  <2>1. /\ peer' = [peer EXCEPT ![x].active.recvN = @ + 1]
        /\ last' = last \/ last' = [last EXCEPT ![x] = f.m]
    BY <1>2, <1>4 DEF HandleTransportEnvelope
  <2>2. Ready(s) /\ f.key = Key(s) /\ f.n = s.recvN
    BY <1>4 DEF Decrypts
  <2>3. peer' = [peer EXCEPT ![x] = [@ EXCEPT !.active = u]]
    BY SMT, <1>2, <2>1
  <2>4. Uses(x, y, s, u)
    BY <1>1, <1>2, <1>4, <2>2, <2>3, CountedUse
  <2>5. u.recvN = s.recvN + 1
    BY SMT, <1>2, <2>4 DEF Uses, Session
  <2>6. f.type = "transport"
    BY <1>1, <1>2 DEF Takes
  <2>7. net[x] # <<>> /\ net'[x] = Tail(net[x]) /\ net'[y] = net[y]
    BY <1>1, TakesThins
  <2>8. Receives(x, y, s, u, f)
    BY <1>1, <1>2, <2>1, <2>2, <2>4, <2>5, <2>6, <2>7 DEF Receives
  <2> QED BY <2>8
<1> QED BY <1>3, <1>4

(* HandleTransportEnvelope keeps the invariant.                            *)
LEMMA TransportChannel ==
    ASSUME Typed, Typed', ChannelInv, NEW x \in Device, HandleTransportEnvelope(x)
    PROVE  ChannelInv'
<1>1. PICK y \in Device : y # x
  BY OtherDevice
<1>2. CASE peer' = peer /\ last' = last
  <2>1. /\ Takes(x, "transport") /\ sends' = sends /\ held' = held /\ sent' = sent
        /\ busy' = busy /\ made' = made
    BY DEF HandleTransportEnvelope, appVars
  <2> QED BY <1>2, <2>1, DropQuiet
<1>3. CASE \E s, u, f : Receives(x, y, s, u, f)
  <2>1. PICK s, u, f : Receives(x, y, s, u, f)
    BY <1>3
  <2>2. Linked(x, y)' /\ Linked(y, x)'
    BY <1>1, <2>1, ReceivesOut, ReceivesIn
  <2> QED BY <1>1, <2>2, BothDirections
<1> QED BY <1>1, <1>2, <1>3, TransportStep

(* HandlePairComplete keeps the invariant.                                 *)
LEMMA PairCompleteChannel ==
    ASSUME Typed, Typed', ChannelInv, NEW x \in Device, HandlePairComplete(x)
    PROVE  ChannelInv'
<1>1. CASE x # Acceptor
  BY <1>1, WaitQuiet
<1>2. CASE x = Acceptor
  <2>1. PICK s : s = NextSession(x, TRUE)
    OBVIOUS
  <2> DEFINE new == [NewPeerConn(TRUE) EXCEPT !.active = s]
  <2>2. /\ Takes(x, "pair_complete") /\ peer' = [peer EXCEPT ![x] = new]
        /\ Made(x) /\ Enqueue(x, Msg(1, s.id, NULL))
        /\ busy' = busy /\ held' = held /\ sent' = sent /\ last' = last
    BY <1>2, <2>1 DEF HandlePairComplete, appVars
  <2>3. new.active = s /\ new.pending = NULL
    BY SMT DEF NewPeerConn
  <2> HIDE DEF new
  <2>4. peer'[x] = new /\ \A z \in Device : z # x => peer'[z] = peer[z]
    BY <2>2 DEF Typed
  <2> QED BY <2>1, <2>2, <2>3, <2>4, BeginChannel
<1> QED BY <1>1, <1>2

(* HandlePeerStatus keeps the invariant.                                   *)
LEMMA PeerStatusChannel ==
    ASSUME Typed, Typed', ChannelInv, NEW x \in Device, HandlePeerStatus(x)
    PROVE  ChannelInv'
<1>1. PICK s : s = NextSession(x, TRUE)
  OBVIOUS
<1>2. /\ Takes(x, "peer_status")
      /\ busy' = busy /\ held' = held /\ sent' = sent /\ last' = last
      /\ \/ peer' = peer /\ made' = made /\ sends' = sends
         \/ /\ peer[x] # NULL /\ peer' = [peer EXCEPT ![x].pending = s]
            /\ Made(x) /\ Enqueue(x, Msg(1, s.id, NULL))
  BY <1>1 DEF HandlePeerStatus, StartRekey, appVars
<1>3. CASE peer' = peer /\ made' = made /\ sends' = sends
  BY <1>2, <1>3, DropQuiet
<1>4. CASE /\ peer[x] # NULL /\ peer' = [peer EXCEPT ![x].pending = s]
           /\ Made(x) /\ Enqueue(x, Msg(1, s.id, NULL))
  <2>a. peer \in [Device -> PeerConn \cup {NULL}]
    BY DEF Typed
  <2>1. peer[x] \in PeerConn
    BY <1>4, <2>a
  <2>2. /\ peer'[x] = [peer[x] EXCEPT !.pending = s]
        /\ \A z \in Device : z # x => peer'[z] = peer[z]
    BY <1>4, <2>a
  <2>3. peer'[x].active = peer[x].active /\ peer'[x].pending = s
    BY <2>1, <2>2 DEF PeerConn
  <2> QED BY <1>1, <1>2, <1>4, <2>2, <2>3, BeginChannel
<1> QED BY <1>2, <1>3, <1>4

-----------------------------------------------------------------------------
(* The invariant holds initially.                                          *)
LEMMA InitChannel == Init => ChannelInv
<1> SUFFICES ASSUME Init, NEW d \in Device, NEW e \in Device, d # e PROVE Linked(e, d)
  BY DEF ChannelInv
<1>1. /\ net[d] = <<PairComplete>> /\ sends[e] = <<>> /\ held[e] = {} /\ busy[e] = NULL
      /\ peer[d] = NULL /\ peer[e] = NULL /\ sent[e] = 0 /\ last[d] = 0
  BY DEF Init
<1>2. /\ Elements(net[d]) = {PairComplete} /\ Sorted(net[d])
      /\ PairComplete.type # "handshake" /\ PairComplete.type # "transport"
  BY SMT, <1>1 DEF Elements, Sorted, PairComplete
<1>3. Reply(e) = {} /\ Live(d) = {} /\ Live(e) = {}
  BY <1>1 DEF Reply, Live
<1>4. Flight(e, d) = {PairComplete}
  BY <1>1, <1>2, <1>3, NothingQueued DEF Flight
<1>5. Handshakes(e, d) = {} /\ Ciphertexts(e, d) = {}
  BY <1>2, <1>4 DEF Handshakes, Ciphertexts
<1>6. FifoInv(e, d)
  BY <1>1, <1>2, <1>3, NothingQueued DEF FifoInv
<1>7. last[d] <= sent[e]
  BY SMT, <1>1
<1> QED BY <1>1, <1>3, <1>5, <1>6, <1>7
        DEF Linked, SessionsInv, MessagesInv, MatesInv, CiphersInv, OrderInv

(* The invariant depends on the variables alone.                           *)
LEMMA StutterChannel ==
    ASSUME ChannelInv, UNCHANGED vars
    PROVE  ChannelInv'
<1>1. /\ net' = net /\ sends' = sends /\ held' = held /\ peer' = peer /\ busy' = busy
      /\ made' = made /\ sent' = sent /\ last' = last
  BY DEF vars, linkVars, appVars
<1> SUFFICES ASSUME NEW d \in Device, NEW e \in Device, d # e PROVE Linked(e, d)'
  BY DEF ChannelInv
<1>2. Linked(e, d)
  BY DEF ChannelInv
<1>3. /\ Live(d)' = Live(d) /\ Live(e)' = Live(e) /\ Reply(e)' = Reply(e)
      /\ Flight(e, d)' = Flight(e, d)
  BY <1>1 DEF Live, Reply, Flight
<1>4. Handshakes(e, d)' = Handshakes(e, d) /\ Ciphertexts(e, d)' = Ciphertexts(e, d)
  BY <1>3 DEF Handshakes, Ciphertexts
<1>5. SessionsInv(d, e)'
  BY <1>1, <1>2, <1>3 DEF Linked, SessionsInv, Sound, KeyOf
<1>6. MessagesInv(e, d)'
  BY <1>1, <1>2, <1>3, <1>4 DEF Linked, MessagesInv, Addressed, KeyOf
<1>7. MatesInv(e, d)' /\ OrderInv(e, d)' /\ FifoInv(e, d)'
  BY <1>1, <1>2, <1>3, <1>4 DEF Linked, MatesInv, OrderInv, FifoInv
<1>8. CiphersInv(e, d)'
  BY <1>1, <1>2, <1>3, <1>4 DEF Linked, CiphersInv, Between, KeyOf, Undelivered
<1> QED BY <1>5, <1>6, <1>7, <1>8 DEF Linked

(* Every step keeps the invariant.                                         *)
LEMMA NextChannel == Inv /\ Inv' /\ ChannelInv /\ [Next]_vars => ChannelInv'
<1> SUFFICES ASSUME Inv, Inv', ChannelInv, [Next]_vars PROVE ChannelInv'
  OBVIOUS
<1>1. Typed /\ Typed' /\ WorkInv
  BY DEF Inv
<1>2. CASE UNCHANGED vars
  BY <1>2, StutterChannel
<1>3. ASSUME NEW x \in Device, HandlePairComplete(x) \/ HandlePeerStatus(x) PROVE ChannelInv'
  BY <1>1, <1>3, PairCompleteChannel, PeerStatusChannel
<1>4. ASSUME NEW x \in Device, ContinueHandshake(x) \/ AnswerHandshake(x) PROVE ChannelInv'
  BY <1>1, <1>4, ContinueChannel, AnswerChannel
<1>5. ASSUME NEW x \in Device, DropHandshake(x) PROVE ChannelInv'
  <2>1. /\ Takes(x, "handshake") /\ sends' = sends /\ held' = held /\ busy' = busy
        /\ peer' = peer /\ made' = made /\ sent' = sent /\ last' = last
    BY <1>5 DEF DropHandshake, appVars
  <2> QED BY <1>1, <2>1, DropQuiet
<1>6. ASSUME NEW x \in Device, EnqueueReply(x) \/ ResolveHandshake(x) PROVE ChannelInv'
  BY <1>1, <1>6, QuietActions
<1>7. ASSUME NEW x \in Device, HandleTransportEnvelope(x) \/ Encrypt(x) PROVE ChannelInv'
  BY <1>1, <1>7, TransportChannel, EncryptChannel
<1>8. ASSUME NEW x \in Device, QueueOrGiveUp(x) \/ WriteFrame(x) \/ IntervalElapses(x)
      PROVE  ChannelInv'
  BY <1>1, <1>8, QuietActions
<1>9. ASSUME NEW x \in Device, Lose(x) \/ Restart(x) \/ Reconnect(x) PROVE ChannelInv'
  BY <1>1, <1>9, QuietActions
<1> QED BY <1>2, <1>3, <1>4, <1>5, <1>6, <1>7, <1>8, <1>9 DEF Next

(* Whatever handshakes are started, crossed, lost or failed, the sessions  *)
(* of the two ends and the frames between them fit together.               *)
THEOREM SessionsFit == Spec => []ChannelInv
BY Invariance, InitChannel, NextChannel, PTL DEF Spec

(* Only Send and delivery change what the applications see, and they do    *)
(* what a lossy channel may do.                                            *)
LEMMA ChannelStep ==
    ASSUME Inv, Inv', ChannelInv, [Next]_vars
    PROVE  [Channel!Next]_<<[d \in Device |-> sent[Other(d)]], last>>
<1> DEFINE S == [d \in Device |-> sent[Other(d)]]
<1>1. Typed /\ Typed'
  BY DEF Inv
<1>2. ASSUME sent' = sent, last' = last PROVE UNCHANGED <<S, last>>
  BY <1>2
<1>3. ASSUME NEW x \in Device, Encrypt(x) PROVE Channel!Next
  <2>1. PICK y \in Device : y # x
    BY OtherDevice
  <2>2. Other(x) = y /\ Other(y) = x
    BY <2>1, TwoDevices
  <2>3. sent' = [sent EXCEPT ![x] = @ + 1] /\ last' = last
    BY <1>3 DEF Encrypt
  <2>4. ASSUME NEW z \in Device PROVE sent'[Other(z)] = [S EXCEPT ![y] = @ + 1][z]
    <3>1. z = x \/ z = y
      BY <2>1, TwoDevices
    <3>2. DOMAIN sent = Device
      BY <1>1 DEF Typed
    <3>3. CASE z = x
      <4>1. sent'[Other(z)] = sent[y] /\ S[z] = sent[y]
        BY <2>1, <2>2, <2>3, <3>2, <3>3
      <4> QED BY <2>1, <3>3, <4>1
    <3>4. CASE z = y
      <4>1. sent'[Other(z)] = sent[x] + 1 /\ S[z] = sent[x]
        BY <2>1, <2>2, <2>3, <3>2, <3>4
      <4> QED BY <3>4, <4>1
    <3> QED BY <3>1, <3>3, <3>4
  <2>5. S' = [S EXCEPT ![y] = @ + 1]
    BY <2>4
  <2> QED BY <2>1, <2>3, <2>5 DEF Channel!Next, Channel!Send
<1>4. ASSUME NEW x \in Device, HandleTransportEnvelope(x)
      PROVE  Channel!Next \/ UNCHANGED <<S, last>>
  <2>1. PICK y \in Device : y # x
    BY OtherDevice
  <2>2. sent' = sent /\ Other(x) = y
    BY <1>4, <2>1, TwoDevices DEF HandleTransportEnvelope, appVars
  <2>3. CASE last' = last
    BY <1>2, <2>2, <2>3
  <2>4. CASE \E s, u, f : Receives(x, y, s, u, f)
    <3>1. PICK s, u, f : Receives(x, y, s, u, f)
      BY <2>4
    <3>2. f.m \in Nat /\ last[x] < f.m /\ f.m <= sent[y]
      BY <1>1, <2>1, <3>1, ReceivesIn
    <3>3. f.m \in (last[x] + 1) .. S[x]
      <4>1. last[x] \in Nat /\ sent[y] \in Nat /\ S[x] = sent[y]
        BY <1>1, <2>1, <2>2 DEF Typed
      <4> HIDE DEF S
      <4> QED BY SMT, <3>2, <4>1
    <3>4. last' = last \/ last' = [last EXCEPT ![x] = f.m]
      BY <3>1 DEF Receives
    <3>5. CASE last' = [last EXCEPT ![x] = f.m]
      BY <2>2, <3>3, <3>5 DEF Channel!Next, Channel!Deliver
    <3> QED BY <2>3, <3>4, <3>5
  <2> QED BY <1>1, <2>1, <2>3, <2>4, <1>4, TransportStep
<1>5. ASSUME ~(\E x \in Device : Encrypt(x) \/ HandleTransportEnvelope(x))
      PROVE  sent' = sent /\ last' = last
  <2>1. CASE UNCHANGED vars
    BY <2>1 DEF vars, appVars
  <2>2. ASSUME NEW x \in Device,
               \/ HandlePairComplete(x) \/ HandlePeerStatus(x)
               \/ ContinueHandshake(x) \/ AnswerHandshake(x) \/ DropHandshake(x)
        PROVE  sent' = sent /\ last' = last
    BY <2>2 DEF HandlePairComplete, HandlePeerStatus, ContinueHandshake,
                       AnswerHandshake, DropHandshake, Feed, appVars
  <2>3. ASSUME NEW x \in Device,
               \/ EnqueueReply(x) \/ ResolveHandshake(x) \/ QueueOrGiveUp(x) \/ WriteFrame(x)
               \/ IntervalElapses(x) \/ Lose(x) \/ Restart(x) \/ Reconnect(x)
        PROVE  sent' = sent /\ last' = last
    BY <2>3 DEF EnqueueReply, ResolveHandshake, ResolveWith, QueueOrGiveUp, WriteFrame,
                       IntervalElapses, Lose, Restart, Reconnect, appVars
  <2> QED BY <1>5, <2>1, <2>2, <2>3 DEF Next
<1> QED BY <1>2, <1>3, <1>4, <1>5

(* Each direction of a paired connection is a lossy channel: messages that *)
(* are delivered were sent, and come in the order of sending and only      *)
(* once, across rekeys, reconnections, restarts and concurrent calls of    *)
(* Send.                                                                   *)
THEOREM SessionsImplementChannel == Spec => RefinesChannel
<1>1. Init => Channel!Init
  BY OtherDevice DEF Init, Channel!Init
<1> QED BY <1>1, Invariance, SessionsFit, ChannelStep, PTL DEF Spec, RefinesChannel, Channel!Spec

-----------------------------------------------------------------------------
(* How many ciphertexts Send may hold at a time.                           *)
INSTANCE FiniteSetTheorems

(* Only Send changes what it holds, by one ciphertext at a time, but for a *)
(* restart, which forgets them all.                                        *)
LEMMA HeldStep ==
    ASSUME Typed, HeldBounded, [Next]_vars
    PROVE  HeldBounded'
<1>1. ASSUME NEW d \in Device, NEW S, IsFiniteSet(S), Cardinality(S) <= MaxHeld,
             held' = [held EXCEPT ![d] = S]
      PROVE  HeldBounded'
  BY <1>1 DEF HeldBounded, Typed
<1>2. ASSUME NEW d \in Device PROVE Cardinality(held[d]) \in Nat
  BY FS_CardinalityType DEF HeldBounded
<1>3. ASSUME NEW d \in Device, Encrypt(d) PROVE HeldBounded'
  <2>1. PICK f : /\ held' = [held EXCEPT ![d] = @ \cup {f}]
                 /\ Cardinality(held[d]) < MaxHeld
    BY <1>3 DEF Encrypt
  <2>2. /\ IsFiniteSet(held[d] \cup {f})
        /\ Cardinality(held[d] \cup {f}) =
               IF f \in held[d] THEN Cardinality(held[d]) ELSE Cardinality(held[d]) + 1
    BY FS_AddElement DEF HeldBounded
  <2>3. Cardinality(held[d] \cup {f}) <= MaxHeld
    BY SMT, <1>2, <2>1, <2>2, BoundsAssumption
  <2> QED BY <1>1, <2>1, <2>2, <2>3
<1>4. ASSUME NEW d \in Device, QueueOrGiveUp(d) PROVE HeldBounded'
  <2>1. PICK f \in held[d] : held' = [held EXCEPT ![d] = @ \ {f}]
    BY <1>4 DEF QueueOrGiveUp
  <2>2. /\ IsFiniteSet(held[d] \ {f})
        /\ Cardinality(held[d] \ {f}) = Cardinality(held[d]) - 1
    BY FS_RemoveElement DEF HeldBounded
  <2>3. Cardinality(held[d] \ {f}) <= MaxHeld
    BY SMT, <1>2, <2>2, BoundsAssumption DEF HeldBounded
  <2> QED BY <1>1, <2>1, <2>2, <2>3
<1>5. ASSUME NEW d \in Device, Restart(d) PROVE HeldBounded'
  <2>1. IsFiniteSet({}) /\ Cardinality({}) <= MaxHeld
    BY SMT, FS_EmptySet, BoundsAssumption
  <2>2. held' = [held EXCEPT ![d] = {}]
    BY <1>5 DEF Restart
  <2> QED BY <1>1, <2>1, <2>2
<1>6. CASE held' = held
  BY <1>6 DEF HeldBounded
<1>7. ASSUME NEW d \in Device,
             \/ HandlePairComplete(d) \/ HandlePeerStatus(d) \/ DropHandshake(d)
             \/ HandleTransportEnvelope(d) \/ WriteFrame(d) \/ IntervalElapses(d)
             \/ Lose(d) \/ Reconnect(d) \/ EnqueueReply(d)
      PROVE  held' = held
  BY <1>7 DEF HandlePairComplete, HandlePeerStatus, DropHandshake, HandleTransportEnvelope,
              WriteFrame, IntervalElapses, Lose, Reconnect, EnqueueReply, appVars
<1>8. ASSUME NEW d \in Device,
             ContinueHandshake(d) \/ AnswerHandshake(d) \/ ResolveHandshake(d)
      PROVE  held' = held
  BY <1>8 DEF ContinueHandshake, AnswerHandshake, Feed, ResolveHandshake, ResolveWith, appVars
<1>9. CASE UNCHANGED vars
  BY <1>6, <1>9 DEF vars, appVars
<1> QED BY <1>3, <1>4, <1>5, <1>6, <1>7, <1>8, <1>9 DEF Next

(* The types, and no replacement is left behind when readLoop is done with *)
(* a handshake message (resolveHandshake promotes or abandons it).         *)
THEOREM Typing == Spec => []TypeOK
<1>1. Init => HeldBounded
  BY SMT, FS_EmptySet, BoundsAssumption DEF Init, HeldBounded
<1>2. Inv => Typed
  BY DEF Inv
<1>3. Inv /\ HeldBounded /\ [Next]_vars => HeldBounded'
  BY <1>2, HeldStep
<1>4. Inv /\ HeldBounded => TypeOK
  BY <1>2 DEF TypeOK
<1> QED BY <1>1, <1>3, <1>4, Invariance, PTL DEF Spec
=============================================================================
