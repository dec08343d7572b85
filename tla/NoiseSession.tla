---------------------------- MODULE NoiseSession ----------------------------
(***************************************************************************)
(* One Noise XX session of the Go SDK (sdk/go/noise.go): the handshake of  *)
(* either role, then encryption and decryption with counted nonces.        *)
(*                                                                         *)
(* The cryptography is perfect: a message 2 or 3 is accepted only by the   *)
(* session it was computed for.  Message 1 is a bare public key, so a      *)
(* responder takes any handshake message for one, and is then bound to     *)
(* nobody.                                                                 *)
(***************************************************************************)
EXTENDS Naturals

CONSTANT NULL

(* A noiseSession.  id names its ephemeral key, remote the peer's.         *)
NewSession(id, initiator) ==
    [id |-> id, initiator |-> initiator, status |-> "handshaking",
     gotMsg1 |-> FALSE, remote |-> NULL, sendN |-> 0, recvN |-> 0]

Msg(n, from, to) == [type |-> "handshake", n |-> n, from |-> from, to |-> to]

Finish(s, remote) == [s EXCEPT !.status = "ready", !.remote = remote]
Fail(s) == [s EXCEPT !.status = "failed"]

(* What handleHandshakeMessage makes of the session, and what it returns.  *)
Outcome(s, reply, done) ==
    [session |-> s, reply |-> reply, done |-> done,
     err |-> done /\ s.status # "ready"]

(* Can the session read m as the message it waits for?                     *)
Reads(s, m) ==
    CASE s.initiator -> m.n = 2 /\ m.to = s.id
      [] ~s.initiator /\ ~s.gotMsg1 -> TRUE
      [] OTHER -> m.n = 3 /\ m.to = s.id

InitiatorStep(s, m) ==
    Outcome(Finish(s, m.from), Msg(3, s.id, m.from), TRUE)

ResponderStep(s, m) ==
    IF s.gotMsg1
    THEN Outcome(Finish(s, m.from), NULL, TRUE)
    ELSE LET remote == IF m.n = 1 THEN m.from ELSE NULL
         IN  Outcome([s EXCEPT !.gotMsg1 = TRUE, !.remote = remote],
                     Msg(2, s.id, remote), FALSE)

HandleHandshakeMessage(s, m) ==
    CASE s.status # "handshaking" -> Outcome(s, NULL, TRUE)
      [] s.status = "handshaking" /\ ~Reads(s, m) -> Outcome(Fail(s), NULL, TRUE)
      [] OTHER -> IF s.initiator THEN InitiatorStep(s, m) ELSE ResponderStep(s, m)

Ready(s) == s # NULL /\ s.status = "ready"

(* The two cipher states come from the transcript: both ends have them     *)
(* when they agree on both ephemeral keys.                                 *)
Key(s) == IF s.initiator THEN <<s.id, s.remote>> ELSE <<s.remote, s.id>>

Ciphertext(s, m) == [type |-> "transport", key |-> Key(s), n |-> s.sendN, m |-> m]

(* A wrong form: a cipher state that takes messages in any order.          *)
DecryptsAnyNonce(s, f) == Ready(s) /\ f.key = Key(s)

(* Decrypt fails, and the nonce stays, unless this is the next message.    *)
Decrypts(s, f) == Ready(s) /\ f.key = Key(s) /\ f.n = s.recvN
=============================================================================
