-------------------------- MODULE SDKClientProofs --------------------------
(***************************************************************************)
(* Why readLoop never blocks on a waiter and no waiting call is forgotten, *)
(* for any number of calls, reconnections and pings.                       *)
(*                                                                         *)
(* A waiter's channel is in one place at a time: registered under one key, *)
(* or held by the peer that is handshaking for the first time, or with its *)
(* result.  ChannelsInv says so, and where the channels of a call are at   *)
(* each point of the call.  It rests on two things outside the waiters:    *)
(* FramesInv, that the server completes one pairing, so that no            *)
(* firstPairWaiter is replaced; and CountInv, that it grants no more codes *)
(* than were requested.                                                    *)
(***************************************************************************)
EXTENDS SDKClient, TLAPS

PairResult == {Failed, Paired} \cup {Granted(c) : c \in Code}
Holding == {<<>>} \cup {<<r>> : r \in PairResult}
Stage == {"idle", "enqueue", "await", "register", "wait", "returned", "failed", "aborted"}
Answer == [type : {"pair_code", "pair_complete", "error"}, code : WaiterKey \cup {NULL}]
Outgoing == [type : {"pair_request", "pair_accept", "handshake", "ping"}, code : {NULL}]

(* The connection that dial replaces is not open.                          *)
LoopTypes ==
    /\ conn \in 1 .. (MaxDials + 1)
    /\ reader \in {"read", "enqueue", "backoff", "dial", "welcome", "announce", "ended"}
    /\ pinger \in {"select", "send", "ended"}
    /\ sends \in Seq(Outgoing) /\ Len(sends) <= SendsCap
    /\ writer.at \in {"select", "write", "ended"}
    /\ writer.at = "write" => writer.frame \in Outgoing
ConnInv ==
    /\ open \subseteq {conn}
    /\ reader \in {"backoff", "dial"} => open = {}
    /\ reader = "dial" => conn <= MaxDials
LoopInv == LoopTypes /\ ConnInv

(* A request is being written.                                             *)
Writing == IF writer.at = "write" /\ writer.frame.type = "pair_request" THEN 1 ELSE 0

(* pair_complete comes once.                                               *)
FramesInv ==
    /\ inbox \in Seq(Answer) /\ paired \in BOOLEAN
    /\ \A i \in 1 .. Len(inbox) :
           /\ inbox[i].type = "pair_code" => inbox[i].code \in Code
           /\ inbox[i].type = "pair_complete" =>
                  /\ inbox[i].code \in Code \cup {OtherCode}
                  /\ paired /\ first = NULL
                  /\ \A j \in 1 .. Len(inbox) : inbox[j].type = "pair_complete" => i = j
    /\ first # NULL => paired

(* Where the channels are.                                                 *)
ChannelTypes ==
    /\ waiters \in [WaiterKey -> Chan \cup {NULL}] /\ first \in Chan \cup {NULL}
    /\ results \in [Chan -> Holding]
    /\ call \in [Call -> Stage] /\ code \in [Call -> Code \cup {NULL}]
Nowhere(ch) ==
    (\A key \in WaiterKey : waiters[key] # ch) /\ first # ch /\ results[ch] = <<>>
Fresh(k) ==
    /\ call[k] = "idle" => Nowhere(<<k, "call">>)
    /\ call[k] \in {"idle", "enqueue", "await", "register"} => Nowhere(<<k, "code">>)
Kept(key, ch) == waiters[key] = ch \/ first = ch \/ results[ch] # <<>>
Found(k) ==
    /\ call[k] \in {"enqueue", "await"} => Kept(KeyOf(k), <<k, "call">>)
    /\ call[k] = "wait" => Kept(code[k], <<k, "code">>)

(* Only a requester gets a code, and one call of a kind runs at a time.    *)
Coded(k) ==
    /\ call[k] \in {"register", "wait"} => k \in Requester /\ code[k] \in Code
    /\ k \notin Requester => /\ results[<<k, "call">>] \in {<<>>, <<Failed>>, <<Paired>>}
                             /\ waiters[Request] # <<k, "call">>
OneOfAKind ==
    \A j, k \in Call :
        Active(j) /\ Active(k) /\ (j \in Requester <=> k \in Requester) => j = k
CallsInv == \A k \in Call : Fresh(k) /\ Found(k) /\ Coded(k)
ChannelsInv == ChannelTypes /\ RoomForResult /\ CallsInv /\ OneOfAKind

-----------------------------------------------------------------------------
(* Sequences.                                                              *)
LEMMA EmptyFacts ==
    ASSUME NEW S
    PROVE  /\ <<>> \in Seq(S) /\ Len(<<>>) = 0
           /\ \A s \in Seq(S) : s # <<>> => Len(s) \in Nat \ {0}
OBVIOUS

LEMMA LenFacts ==
    ASSUME NEW S, NEW s \in Seq(S)
    PROVE  Len(s) \in Nat
OBVIOUS

LEMMA AppendFacts ==
    ASSUME NEW S, NEW s \in Seq(S), NEW e \in S
    PROVE  /\ Append(s, e) \in Seq(S) /\ Len(Append(s, e)) = Len(s) + 1
           /\ \A i \in 1 .. Len(s) : Append(s, e)[i] = s[i]
           /\ Append(s, e)[Len(s) + 1] = e
OBVIOUS

LEMMA TailFacts ==
    ASSUME NEW S, NEW s \in Seq(S), s # <<>>
    PROVE  /\ Head(s) \in S /\ Tail(s) \in Seq(S) /\ Len(Tail(s)) = Len(s) - 1
           /\ \A i \in 1 .. Len(Tail(s)) : Tail(s)[i] = s[i + 1]
OBVIOUS

(* Channels and keys are what their names say.                             *)
LEMMA ChannelFacts ==
    /\ NULL \notin Chan
    /\ \A k \in Call : <<k, "call">> \in Chan /\ <<k, "code">> \in Chan
    /\ \A j, k \in Call : <<j, "call">> # <<k, "code">>
    /\ \A j, k \in Call : <<j, "call">> = <<k, "call">> \/ <<j, "code">> = <<k, "code">> => j = k
<1>1. NULL \notin Chan
  BY Zenon, KeysAssumption
<1> QED BY Zenon, <1>1 DEF Chan

LEMMA KeyFacts ==
    /\ Requester \subseteq Call /\ Code \subseteq Nat \ {0} /\ Code \subseteq WaiterKey
    /\ {Request, OtherCode} \subseteq WaiterKey
    /\ Request \notin Code /\ OtherCode \notin Code /\ Request # OtherCode
    /\ NULL \notin WaiterKey /\ NULL \notin Code
<1>1. MaxRequests \in Nat /\ MaxAccepts \in Nat
  BY Zenon, BoundsAssumption
<1>2. Requester \subseteq Call /\ Code \subseteq Nat \ {0}
  BY <1>1 DEF Requester, Call, Code
<1>3. OtherCode \in Nat /\ OtherCode \notin Code
  BY Zenon, <1>2 DEF OtherCode
<1>4. Request \notin Nat /\ NULL \notin Nat /\ NULL # Request
  BY Zenon, KeysAssumption
<1>5. Code \subseteq WaiterKey /\ {Request, OtherCode} \subseteq WaiterKey
  BY Zenon DEF WaiterKey
<1>6. NULL \notin WaiterKey
  BY Zenon, <1>2, <1>3, <1>4 DEF WaiterKey
<1> QED BY Zenon, <1>2, <1>3, <1>4, <1>5, <1>6

LEMMA KeyOfFacts ==
    /\ \A k \in Call : KeyOf(k) \in WaiterKey /\ KeyOf(k) \notin Code
    /\ \A j, k \in Call : KeyOf(j) = KeyOf(k) => (j \in Requester <=> k \in Requester)
    /\ \A k \in Call : KeyOf(k) = Request => k \in Requester
BY Zenon, KeyFacts DEF KeyOf

LEMMA ResultFacts ==
    /\ Failed \in PairResult /\ Paired \in PairResult
    /\ \A c \in Code : Granted(c) \in PairResult /\ Granted(c) \notin {Failed, Paired}
    /\ \A r \in PairResult :
           r.code \in Code \cup {NULL} /\ (r \notin {Failed, Paired} => r.code \in Code)
<1>1. NULL \notin Code
  BY Zenon, KeyFacts
<1>2. ASSUME NEW c \in Code PROVE Granted(c) \notin {Failed, Paired} /\ Granted(c).code = c
  BY Zenon, <1>1 DEF Granted, Failed, Paired
<1>3. Failed.code = NULL /\ Paired.code = NULL
  BY Zenon DEF Failed, Paired
<1> QED BY Zenon, <1>2, <1>3 DEF PairResult

-----------------------------------------------------------------------------
(* The loops and their connections.                                        *)
LEMMA EnqueueTyped ==
    ASSUME LoopTypes, NEW f \in Outgoing, Enqueue(f)
    PROVE  sends' = Append(sends, f) /\ sends' \in Seq(Outgoing) /\ Len(sends') <= SendsCap
<1>1. sends \in Seq(Outgoing) /\ Len(sends) < SendsCap /\ sends' = Append(sends, f)
  BY Zenon DEF LoopTypes, Enqueue, CanEnqueue
<1>2. Len(Append(sends, f)) = Len(sends) + 1 /\ Append(sends, f) \in Seq(Outgoing)
  BY Zenon, <1>1, AppendFacts
<1> QED BY <1>1, <1>2, BoundsAssumption

LEMMA OutgoingFrames ==
    \A type \in {"pair_request", "pair_accept", "handshake", "ping"} :
        Frame(type, NULL) \in Outgoing /\ Frame(type, NULL).type = type
BY Zenon DEF Frame, Outgoing

LEMMA LoopInit == Init => LoopInv
<1> SUFFICES ASSUME Init PROVE LoopInv
  OBVIOUS
<1>1. <<>> \in Seq(Outgoing) /\ Len(<<>>) = 0
  BY Zenon, EmptyFacts
<1>2. LoopTypes
  BY <1>1, BoundsAssumption DEF Init, LoopTypes, Selecting
<1>3. ConnInv
  BY Zenon DEF Init, ConnInv
<1> QED BY Zenon, <1>2, <1>3 DEF LoopInv

LEMMA LoopNext ==
    ASSUME LoopInv, Next
    PROVE  LoopInv'
<1> USE DEF LoopInv
<1>1. ASSUME UNCHANGED <<conn, open, reader, writer, pinger, sends>> PROVE LoopInv'
  BY Zenon, <1>1 DEF LoopTypes, ConnInv
<1>2. CASE \E k \in Call : CallStep(k)
  <2>1. PICK k \in Call : CallStep(k)
    BY Zenon, <1>2
  <2>2. CASE EnqueueRequest(k)
    <3>1. PICK f \in Outgoing : Enqueue(f)
      BY Zenon, <2>2, OutgoingFrames DEF EnqueueRequest
    <3> QED BY Zenon, <2>2, <3>1, EnqueueTyped DEF EnqueueRequest, loopVars, LoopTypes, ConnInv
  <2>3. CASE ~EnqueueRequest(k)
    BY Zenon, <1>1, <2>1, <2>3 DEF CallStep, CallReturns, RegisterWaiter, Cancel, ClientClosed,
       Abort,
       Answered, TakeResult, RegisterCode, WaitReturns, loopVars
  <2> QED BY Zenon, <2>2, <2>3
<1>3. CASE HandlePairCode \/ HandleError \/ ResolveFirst \/ PeerAccepts
  BY Zenon, <1>1, <1>3 DEF HandlePairCode, HandleError, ResolveFirst, PeerAccepts, loopVars
<1>4. CASE HandlePairComplete
  BY Zenon, <1>4 DEF HandlePairComplete, ReadFrame, LoopTypes, ConnInv
<1>5. CASE EnqueueMsg1
  <2>1. sends' \in Seq(Outgoing) /\ Len(sends') <= SendsCap
    BY Zenon, <1>5, EnqueueTyped, OutgoingFrames DEF EnqueueMsg1, LoopTypes
  <2> QED BY Zenon, <1>5, <2>1 DEF EnqueueMsg1, LoopTypes, ConnInv
<1>6. CASE ReadFails \/ BackoffElapses \/ BackoffInterrupted \/ ReadWelcome \/ AnnounceKey
  BY Zenon, <1>6 DEF ReadFails, BackoffElapses, BackoffInterrupted, ReadWelcome, AnnounceKey, Goto,
     LoopTypes, ConnInv
<1>7. CASE DialConnects
  <2>1. conn' \in 1 .. (MaxDials + 1)
    BY <1>7, BoundsAssumption DEF DialConnects, LoopTypes, ConnInv
  <2> QED BY Zenon, <1>7, <2>1 DEF DialConnects, Goto, LoopTypes, ConnInv
<1>8. CASE DialFails
  BY Zenon, <1>8 DEF DialFails, Goto, LoopTypes, ConnInv
<1>9. CASE TakeFrame
  <2>1. /\ Head(sends) \in Outgoing /\ Tail(sends) \in Seq(Outgoing)
        /\ Len(Tail(sends)) = Len(sends) - 1
    BY Zenon, <1>9, TailFacts DEF TakeFrame, LoopTypes
  <2>2. Len(Tail(sends)) <= SendsCap
    BY <2>1, BoundsAssumption DEF LoopTypes
  <2> QED BY Zenon, <1>9, <2>1, <2>2 DEF TakeFrame, LoopTypes, ConnInv
<1>10. CASE WriteFrame \/ WriterDone
  BY <1>10 DEF WriteFrame, WriterDone, Selecting, LoopTypes, ConnInv
<1>11. CASE Tick \/ PingerDone
  BY Zenon, <1>11 DEF Tick, PingerDone, PingLoop, LoopTypes, ConnInv
<1>12. CASE EnqueuePing
  BY Zenon, <1>12, EnqueueTyped, OutgoingFrames DEF EnqueuePing, PingLoop, LoopTypes, ConnInv
<1>13. CASE Close \/ Lose
  BY Zenon, <1>13 DEF Close, Lose, LoopTypes, ConnInv
<1> QED BY Zenon, <1>2, <1>3, <1>4, <1>5, <1>6, <1>7, <1>8, <1>9, <1>10, <1>11, <1>12, <1>13
        DEF Next, Reader, Writer, Pinger

-----------------------------------------------------------------------------
(* What the server sends.                                                  *)
LEMMA FramesRead ==
    ASSUME FramesInv, inbox # <<>>, inbox' = Tail(inbox), paired' = paired,
           first' = first \/ Head(inbox).type = "pair_complete"
    PROVE  FramesInv'
<1>1. /\ inbox' \in Seq(Answer) /\ Len(inbox') = Len(inbox) - 1 /\ Len(inbox) \in Nat \ {0}
      /\ \A i \in 1 .. Len(inbox') : inbox'[i] = inbox[i + 1]
      /\ Head(inbox) = inbox[1]
  BY TailFacts, EmptyFacts DEF FramesInv
<1>2. ASSUME NEW i \in 1 .. Len(inbox')
      PROVE  i + 1 \in 1 .. Len(inbox) /\ 1 \in 1 .. Len(inbox) /\ i + 1 # 1
  BY <1>1, <1>2
<1>3. ASSUME NEW i \in 1 .. Len(inbox'), inbox'[i].type = "pair_complete"
      PROVE  /\ inbox'[i].code \in Code \cup {OtherCode} /\ paired' /\ first' = NULL
             /\ \A j \in 1 .. Len(inbox') : inbox'[j].type = "pair_complete" => i = j
  <2>1. /\ inbox[i + 1].type = "pair_complete" /\ i + 1 \in 1 .. Len(inbox)
        /\ inbox'[i] = inbox[i + 1]
    BY Zenon, <1>1, <1>2, <1>3
  <2>2. /\ inbox[i + 1].code \in Code \cup {OtherCode} /\ paired /\ first = NULL
        /\ \A j \in 1 .. Len(inbox) : inbox[j].type = "pair_complete" => i + 1 = j
    BY Zenon, <2>1 DEF FramesInv
  <2>3. Head(inbox).type # "pair_complete"
    BY Zenon, <1>1, <1>2, <2>2
  <2>4. ASSUME NEW j \in 1 .. Len(inbox'), inbox'[j].type = "pair_complete" PROVE i = j
    BY <1>1, <1>2, <2>2, <2>4
  <2> QED BY Zenon, <2>1, <2>2, <2>3, <2>4
<1>4. \A i \in 1 .. Len(inbox') : inbox'[i].type = "pair_code" => inbox'[i].code \in Code
  BY Zenon, <1>1, <1>2 DEF FramesInv
<1>5. first' # NULL => paired'
  <2>1. Head(inbox).type = "pair_complete" => paired
    BY <1>1 DEF FramesInv
  <2> QED BY Zenon, <2>1 DEF FramesInv
<1>6. paired' \in BOOLEAN
  BY Zenon DEF FramesInv
<1> QED BY Zenon, <1>1, <1>3, <1>4, <1>5, <1>6 DEF FramesInv

LEMMA FramesSent ==
    ASSUME FramesInv, NEW f \in Answer, inbox' = Append(inbox, f), first' = first,
           f.type = "pair_code" => f.code \in Code,
           f.type = "pair_complete" => ~paired /\ f.code \in Code \cup {OtherCode},
           paired' = (paired \/ f.type = "pair_complete")
    PROVE  FramesInv'
<1> DEFINE n == Len(inbox) + 1
<1>1. /\ inbox' \in Seq(Answer) /\ Len(inbox') = n /\ Len(inbox) \in Nat /\ inbox'[n] = f
      /\ \A i \in 1 .. Len(inbox) : inbox'[i] = inbox[i]
  BY AppendFacts, LenFacts DEF FramesInv
<1>2. \A i \in 1 .. Len(inbox') : i = n \/ i \in 1 .. Len(inbox)
  BY <1>1
<1>3. paired' \in BOOLEAN /\ (first' # NULL => paired')
  BY Zenon DEF FramesInv
<1>4. CASE f.type = "pair_complete"
  <2>1. first = NULL /\ \A i \in 1 .. Len(inbox) : inbox[i].type # "pair_complete"
    BY Zenon, <1>4 DEF FramesInv
  <2> HIDE DEF n
  <2> QED BY <1>1, <1>2, <1>3, <1>4, <2>1 DEF FramesInv
<1>5. CASE f.type # "pair_complete"
  <2> HIDE DEF n
  <2>1. ASSUME NEW i \in 1 .. Len(inbox'), inbox'[i].type = "pair_complete"
        PROVE  i \in 1 .. Len(inbox) /\ inbox[i].type = "pair_complete" /\ inbox'[i] = inbox[i]
    BY Zenon, <1>1, <1>2, <1>5, <2>1
  <2>2. \A i \in 1 .. Len(inbox') : inbox'[i].type = "pair_code" => inbox'[i].code \in Code
    BY Zenon, <1>1, <1>2 DEF FramesInv
  <2>3. ASSUME NEW i \in 1 .. Len(inbox'), inbox'[i].type = "pair_complete"
        PROVE  /\ inbox'[i].code \in Code \cup {OtherCode} /\ paired' /\ first' = NULL
               /\ \A j \in 1 .. Len(inbox') : inbox'[j].type = "pair_complete" => i = j
    BY Zenon, <2>1, <2>3, <1>5 DEF FramesInv
  <2> QED BY Zenon, <1>1, <1>3, <2>2, <2>3 DEF FramesInv
<1> QED BY Zenon, <1>4, <1>5

LEMMA FramesInit == Init => FramesInv
<1> SUFFICES ASSUME Init PROVE FramesInv
  OBVIOUS
<1>1. inbox = <<>> /\ Len(<<>>) = 0 /\ <<>> \in Seq(Answer)
  BY Zenon, EmptyFacts DEF Init
<1>2. 1 .. Len(inbox) = {}
  BY <1>1
<1> QED BY Zenon, <1>1, <1>2 DEF Init, FramesInv

LEMMA FramesNext ==
    ASSUME FramesInv, ChannelTypes, Writing = 1 => granted + 1 \in Code, Next
    PROVE  FramesInv'
<1>1. ASSUME UNCHANGED <<inbox, paired, first>> PROVE FramesInv'
  BY Zenon, <1>1 DEF FramesInv
<1>2. CASE \E k \in Call : CallStep(k)
  <2>1. PICK k \in Call : CallStep(k)
    BY Zenon, <1>2
  <2> QED BY Zenon, <1>1, <2>1 DEF CallStep, CallReturns, RegisterWaiter, EnqueueRequest, Cancel,
             ClientClosed, Abort, Answered, TakeResult, RegisterCode, WaitReturns, serverVars,
             waiterVars
<1>3. CASE HandlePairCode \/ HandlePairComplete \/ HandleError
  <2>1. inbox # <<>> /\ inbox' = Tail(inbox) /\ paired' = paired
    BY Zenon, <1>3 DEF HandlePairCode, HandlePairComplete, HandleError, ReadFrame, serverVars
  <2>2. first' = first \/ Head(inbox).type = "pair_complete"
    BY Zenon, <1>3 DEF HandlePairCode, HandlePairComplete, HandleError, ReadFrame
  <2> QED BY Zenon, <2>1, <2>2, FramesRead
<1>4. CASE ResolveFirst
  <2>1. first # NULL /\ first' = NULL /\ UNCHANGED <<inbox, paired>>
    BY Zenon, <1>4 DEF ResolveFirst, serverVars
  <2> QED BY Zenon, <2>1 DEF FramesInv
<1>5. CASE DialConnects
  <2>1. inbox' = <<>> /\ UNCHANGED <<paired, first>> /\ <<>> \in Seq(Answer) /\ 1 .. Len(<<>>) = {}
    BY <1>5, EmptyFacts DEF DialConnects, Goto, serverVars, waiterVars
  <2> QED BY Zenon, <2>1 DEF FramesInv
<1>6. CASE WriteFrame
  <2>0. first' = first /\ writer.at = "write"
    BY Zenon, <1>6 DEF WriteFrame, waiterVars
  <2>1. CASE UNCHANGED <<inbox, paired>>
    BY Zenon, <1>1, <2>0, <2>1
  <2>2. CASE ~(UNCHANGED <<inbox, paired>>)
    <3>1. PICK f \in Answers(writer.frame) :
              inbox' = Append(inbox, f) /\ paired' = (paired \/ f.type = "pair_complete")
      BY Zenon, <1>6, <2>2 DEF WriteFrame
    <3>2. \/ f = Frame("pair_code", granted + 1) /\ writer.frame.type = "pair_request"
          \/ f = Frame("error", NULL)
          \/ f = Frame("pair_complete", OtherCode) /\ ~paired
      BY Zenon, <3>1 DEF Answers
    <3>3. f = Frame("pair_code", granted + 1) => granted + 1 \in Code
      <4>1. ASSUME writer.frame.type = "pair_request" PROVE granted + 1 \in Code
        BY Zenon, <2>0, <4>1 DEF Writing
      <4> QED BY <3>2, <4>1 DEF Frame
    <3>4. /\ f \in Answer /\ (f.type = "pair_code" => f.code \in Code)
          /\ f.type = "pair_complete" => ~paired /\ f.code \in Code \cup {OtherCode}
      <4>1. CASE f = Frame("pair_code", granted + 1) /\ granted + 1 \in Code
        BY Zenon, <4>1, KeyFacts DEF Frame, Answer
      <4>2. CASE f = Frame("error", NULL)
        BY Zenon, <4>2 DEF Frame, Answer
      <4>3. CASE f = Frame("pair_complete", OtherCode) /\ ~paired
        BY Zenon, <4>3, KeyFacts DEF Frame, Answer
      <4> QED BY Zenon, <3>2, <3>3, <4>1, <4>2, <4>3
    <3> QED BY Zenon, <2>0, <3>1, <3>4, FramesSent
  <2> QED BY Zenon, <2>1, <2>2
<1>7. CASE PeerAccepts
  <2>1. PICK k \in Requester :
            code[k] # NULL /\ inbox' = Append(inbox, Frame("pair_complete", code[k]))
    BY Zenon, <1>7 DEF PeerAccepts
  <2>2. ~paired /\ paired' = TRUE /\ first' = first /\ code[k] \in Code
    BY Zenon, <1>7, <2>1, KeyFacts DEF PeerAccepts, waiterVars, ChannelTypes
  <2>3. PICK f : f = Frame("pair_complete", code[k])
    OBVIOUS
  <2>4. f \in Answer /\ f.type = "pair_complete" /\ f.code \in Code
    BY Zenon, <2>2, <2>3, KeyFacts DEF Frame, Answer
  <2> QED BY Zenon, <2>1, <2>2, <2>3, <2>4, FramesSent
<1>8. CASE \/ ReadFails \/ BackoffElapses \/ BackoffInterrupted \/ ReadWelcome \/ AnnounceKey
           \/ DialFails \/ EnqueueMsg1
  BY Zenon, <1>1, <1>8 DEF ReadFails, BackoffElapses, BackoffInterrupted, ReadWelcome, AnnounceKey,
     DialFails, EnqueueMsg1, Goto, serverVars, waiterVars
<1>9. CASE TakeFrame \/ WriterDone \/ EnqueuePing \/ Tick \/ PingerDone \/ Close \/ Lose
  BY Zenon, <1>1, <1>9 DEF TakeFrame, WriterDone, EnqueuePing, Tick, PingerDone, PingLoop, Close,
     Lose,
     serverVars, waiterVars
<1> QED BY Zenon, <1>2, <1>3, <1>4, <1>5, <1>6, <1>7, <1>8, <1>9 DEF Next, Reader, Writer, Pinger

-----------------------------------------------------------------------------
(* The channels.  A channel that is nowhere is registered ...              *)
LEMMA Registers ==
    ASSUME ChannelsInv, NEW key \in WaiterKey, NEW ch \in Chan, Nowhere(ch),
           waiters' = [waiters EXCEPT ![key] = ch], UNCHANGED <<results, first>>
    PROVE  /\ RoomForResult' /\ waiters' \in [WaiterKey -> Chan \cup {NULL}] /\ waiters'[key] = ch
           /\ \A j \in WaiterKey : j # key => waiters'[j] = waiters[j]
           /\ \A c \in Chan : c # ch /\ Nowhere(c) => Nowhere(c)'
<1>1. /\ waiters \in [WaiterKey -> Chan \cup {NULL}] /\ RoomForResult
      /\ waiters'[key] = ch /\ \A j \in WaiterKey : j # key => waiters'[j] = waiters[j]
      /\ waiters' \in [WaiterKey -> Chan \cup {NULL}]
  BY Zenon DEF ChannelsInv, ChannelTypes
<1>2. /\ \A j \in WaiterKey : waiters[j] # ch
      /\ first # ch /\ results[ch] = <<>>
  BY Zenon DEF Nowhere
<1>3. RoomForResult'
  BY Zenon, <1>1, <1>2 DEF RoomForResult, HasRoom
<1>4. \A c \in Chan : c # ch /\ Nowhere(c) => Nowhere(c)'
  BY Zenon, <1>1 DEF Nowhere
<1> QED BY Zenon, <1>1, <1>3, <1>4

(* ... a result is taken ...                                               *)
LEMMA Takes ==
    ASSUME ChannelsInv, NEW k \in Call, NEW ch \in Chan, TakeResult(k, ch)
    PROVE  /\ RoomForResult' /\ results' \in [Chan -> Holding] /\ results'[ch] = <<>>
           /\ \E r \in PairResult : results[ch] = <<r>> /\ Head(results[ch]) = r
           /\ \A c \in Chan : c # ch => results'[c] = results[c]
           /\ \A c \in Chan : Nowhere(c) => Nowhere(c)'
<1>1. /\ results \in [Chan -> Holding] /\ RoomForResult /\ results[ch] # <<>>
      /\ results' = [results EXCEPT ![ch] = Tail(results[ch])] /\ UNCHANGED <<waiters, first>>
  BY Zenon DEF ChannelsInv, ChannelTypes, TakeResult
<1>2. PICK r \in PairResult : results[ch] = <<r>>
  BY Zenon, <1>1 DEF Holding
<1>3. Head(<<r>>) = r /\ Tail(<<r>>) = <<>>
  OBVIOUS
<1>4. /\ results'[ch] = <<>> /\ results' \in [Chan -> Holding]
      /\ \A c \in Chan : c # ch => results'[c] = results[c]
  BY Zenon, <1>1, <1>2, <1>3 DEF Holding
<1>5. RoomForResult'
  BY <1>1, <1>4 DEF RoomForResult, HasRoom
<1>6. \A c \in Chan : Nowhere(c) => Nowhere(c)'
  BY Zenon, <1>1, <1>4 DEF Nowhere
<1> QED BY Zenon, <1>2, <1>3, <1>4, <1>5, <1>6

(* ... a call that is active moves on ...                                  *)
LEMMA MovesOn ==
    ASSUME ChannelsInv, NEW k \in Call, NEW to \in Stage, call' = [call EXCEPT ![k] = to],
           Active(k) \/ to \notin {"enqueue", "await", "register", "wait"}
    PROVE  OneOfAKind' /\ call' \in [Call -> Stage] /\ call'[k] = to
           /\ \A j \in Call : j # k => call'[j] = call[j]
<1>1. call \in [Call -> Stage] /\ OneOfAKind
  BY Zenon DEF ChannelsInv, ChannelTypes
<1>2. call' \in [Call -> Stage] /\ call'[k] = to /\ \A j \in Call : j # k => call'[j] = call[j]
  BY Zenon, <1>1
<1>3. \A j \in Call : Active(j)' => Active(j)
  BY Zenon, <1>2 DEF Active
<1> QED BY Zenon, <1>1, <1>2, <1>3 DEF OneOfAKind

(* ... and one that holds its place, whatever readLoop does, is kept.      *)
LEMMA OthersKept ==
    ASSUME ChannelsInv, UNCHANGED <<call, code>>, ChannelTypes', RoomForResult',
           \A c \in Chan : Nowhere(c) => Nowhere(c)',
           \A key \in WaiterKey, c \in Chan : Kept(key, c) => Kept(key, c)',
           \A k \in Call \ Requester :
               /\ results'[<<k, "call">>] \in {results[<<k, "call">>], <<Failed>>, <<Paired>>}
               /\ waiters'[Request] \in {waiters[Request], NULL}
    PROVE  ChannelsInv'
<1>1. ASSUME NEW k \in Call PROVE (Fresh(k) /\ Found(k) /\ Coded(k))'
  <2>1. Fresh(k) /\ Found(k) /\ Coded(k)
    BY Zenon DEF ChannelsInv, CallsInv
  <2>2. <<k, "call">> \in Chan /\ <<k, "code">> \in Chan /\ <<k, "call">> # NULL
    BY Zenon, ChannelFacts
  <2>3. Fresh(k)'
    BY Zenon, <2>1, <2>2 DEF Fresh
  <2>4. Found(k)'
    BY Zenon, <2>1, <2>2, KeyOfFacts, KeyFacts DEF Found, Coded
  <2>5. Coded(k)'
    BY Zenon, <2>1, <2>2 DEF Coded
  <2> QED BY Zenon, <2>3, <2>4, <2>5
<1>2. OneOfAKind'
  BY Zenon DEF ChannelsInv, OneOfAKind, Active
<1> QED BY Zenon, <1>1, <1>2 DEF ChannelsInv, CallsInv

-----------------------------------------------------------------------------
(* The steps of calls.                                                     *)
LEMMA KeepsRegisterWaiter ==
    ASSUME ChannelsInv, NEW k \in Call, RegisterWaiter(k)
    PROVE  ChannelsInv'
<1> DEFINE ch == <<k, "call">>
<1>1. /\ call[k] = "idle" /\ NextOfItsKind(k) /\ call' = [call EXCEPT ![k] = "enqueue"]
      /\ waiters' = [waiters EXCEPT ![KeyOf(k)] = ch] /\ UNCHANGED <<code, results, first>>
      /\ ch \in Chan /\ KeyOf(k) \in WaiterKey /\ Nowhere(ch)
  BY Zenon, ChannelFacts, KeyOfFacts DEF RegisterWaiter, ChannelsInv, CallsInv, Fresh
<1>2. /\ RoomForResult' /\ waiters' \in [WaiterKey -> Chan \cup {NULL}] /\ waiters'[KeyOf(k)] = ch
      /\ \A j \in WaiterKey : j # KeyOf(k) => waiters'[j] = waiters[j]
      /\ \A c \in Chan : c # ch /\ Nowhere(c) => Nowhere(c)'
  BY Zenon, <1>1, Registers
<1>3. call' \in [Call -> Stage] /\ call'[k] = "enqueue" /\ \A j \in Call : j # k => call'[j] = call[j]
  BY Zenon, <1>1 DEF ChannelsInv, ChannelTypes, Stage
<1>4. ChannelTypes'
  BY Zenon, <1>1, <1>2, <1>3 DEF ChannelsInv, ChannelTypes
<1>5. \A j \in Call : Active(j) => ~(j \in Requester <=> k \in Requester)
  BY <1>1 DEF NextOfItsKind
<1>6. OneOfAKind'
  BY <1>3, <1>5 DEF ChannelsInv, OneOfAKind, Active
<1>7. ASSUME NEW j \in Call PROVE (Fresh(j) /\ Found(j) /\ Coded(j))'
  <2>1. Fresh(j) /\ Found(j) /\ Coded(j)
    BY Zenon DEF ChannelsInv, CallsInv
  <2>2. /\ <<j, "call">> \in Chan /\ <<j, "code">> \in Chan /\ <<j, "code">> # ch
        /\ j # k => <<j, "call">> # ch
    BY Zenon, ChannelFacts
  <2>3. Fresh(j)'
    BY Zenon, <1>1, <1>2, <1>3, <2>1, <2>2 DEF Fresh
  <2>4. Found(j)'
    <3>1. CASE j = k
      BY Zenon, <1>2, <1>3, <3>1 DEF Found, Kept
    <3>2. CASE j # k
      <4>1. call[j] \in {"enqueue", "await"} => KeyOf(j) \in WaiterKey /\ KeyOf(j) # KeyOf(k)
        BY Zenon, <1>5, KeyOfFacts DEF Active
      <4>2. call[j] = "wait" => code[j] \in WaiterKey /\ code[j] # KeyOf(k)
        BY Zenon, <2>1, KeyOfFacts, KeyFacts DEF Coded
      <4> QED BY Zenon, <1>1, <1>2, <1>3, <2>1, <3>2, <4>1, <4>2 DEF Found, Kept
    <3> QED BY Zenon, <3>1, <3>2
  <2>5. Coded(j)'
    <3>1. j \notin Requester => waiters'[Request] # <<j, "call">>
      <4>1. CASE KeyOf(k) = Request
        BY Zenon, <1>2, <2>2, <4>1, KeyOfFacts
      <4>2. CASE KeyOf(k) # Request
        BY Zenon, <1>2, <2>1, <4>2, KeyFacts DEF Coded
      <4> QED BY Zenon, <4>1, <4>2
    <3> QED BY Zenon, <1>1, <1>3, <2>1, <3>1 DEF Coded
  <2> QED BY Zenon, <2>3, <2>4, <2>5
<1> QED BY Zenon, <1>2, <1>4, <1>6, <1>7 DEF ChannelsInv, CallsInv

LEMMA KeepsRegisterCode ==
    ASSUME ChannelsInv, NEW k \in Call, RegisterCode(k)
    PROVE  ChannelsInv'
<1> DEFINE ch == <<k, "code">>
<1>1. /\ call[k] = "register" /\ call' = [call EXCEPT ![k] = "wait"]
      /\ waiters' = [waiters EXCEPT ![code[k]] = ch] /\ UNCHANGED <<code, results, first>>
      /\ k \in Requester /\ code[k] \in Code /\ code[k] \in WaiterKey
      /\ ch \in Chan /\ Nowhere(ch) /\ Active(k)
  BY Zenon, ChannelFacts, KeyFacts DEF RegisterCode, ChannelsInv, CallsInv, Fresh, Coded, Active
<1>2. /\ RoomForResult' /\ waiters' \in [WaiterKey -> Chan \cup {NULL}] /\ waiters'[code[k]] = ch
      /\ \A j \in WaiterKey : j # code[k] => waiters'[j] = waiters[j]
      /\ \A c \in Chan : c # ch /\ Nowhere(c) => Nowhere(c)'
  BY Zenon, <1>1, Registers
<1>3. /\ OneOfAKind' /\ call' \in [Call -> Stage] /\ call'[k] = "wait"
      /\ \A j \in Call : j # k => call'[j] = call[j]
  BY Zenon, <1>1, MovesOn DEF Stage
<1>4. ChannelTypes'
  BY Zenon, <1>1, <1>2, <1>3 DEF ChannelsInv, ChannelTypes
<1>5. ASSUME NEW j \in Call PROVE (Fresh(j) /\ Found(j) /\ Coded(j))'
  <2>1. Fresh(j) /\ Found(j) /\ Coded(j)
    BY Zenon DEF ChannelsInv, CallsInv
  <2>2. /\ <<j, "call">> \in Chan /\ <<j, "code">> \in Chan /\ <<j, "call">> # ch
        /\ j # k => <<j, "code">> # ch
    BY Zenon, ChannelFacts
  <2>3. Fresh(j)'
    BY Zenon, <1>1, <1>2, <1>3, <2>1, <2>2 DEF Fresh
  <2>4. Found(j)'
    <3>1. CASE j = k
      BY Zenon, <1>1, <1>2, <1>3, <3>1 DEF Found, Kept
    <3>2. CASE j # k
      <4>1. KeyOf(j) \in WaiterKey /\ KeyOf(j) # code[k]
        BY Zenon, <1>1, KeyOfFacts
      <4>2. call[j] # "wait"
        BY Zenon, <1>1, <2>1, <3>2 DEF Coded, ChannelsInv, OneOfAKind, Active
      <4> QED BY Zenon, <1>1, <1>2, <1>3, <2>1, <3>2, <4>1, <4>2 DEF Found, Kept
    <3> QED BY Zenon, <3>1, <3>2
  <2>5. Coded(j)'
    <3>1. waiters'[Request] = waiters[Request]
      BY Zenon, <1>1, <1>2, KeyFacts
    <3> QED BY Zenon, <1>1, <1>3, <2>1, <3>1 DEF Coded
  <2> QED BY Zenon, <2>3, <2>4, <2>5
<1> QED BY Zenon, <1>2, <1>3, <1>4, <1>5 DEF ChannelsInv, CallsInv

LEMMA KeepsEnqueueRequest ==
    ASSUME ChannelsInv, NEW k \in Call, EnqueueRequest(k)
    PROVE  ChannelsInv'
<1>1. /\ call[k] = "enqueue" /\ call' = [call EXCEPT ![k] = "await"] /\ Active(k)
      /\ UNCHANGED <<code, waiters, results, first>>
  BY Zenon DEF EnqueueRequest, Active, waiterVars
<1>2. /\ OneOfAKind' /\ call' \in [Call -> Stage] /\ call'[k] = "await"
      /\ \A j \in Call : j # k => call'[j] = call[j]
  BY Zenon, <1>1, MovesOn DEF Stage
<1>3. ChannelTypes' /\ RoomForResult'
  BY Zenon, <1>1, <1>2 DEF ChannelsInv, ChannelTypes, RoomForResult, HasRoom
<1>4. ASSUME NEW j \in Call PROVE (Fresh(j) /\ Found(j) /\ Coded(j))'
  <2>1. Fresh(j) /\ Found(j) /\ Coded(j)
    BY Zenon DEF ChannelsInv, CallsInv
  <2>2. Fresh(j)'
    BY Zenon, <1>1, <1>2, <2>1 DEF Fresh, Nowhere
  <2>3. Found(j)'
    BY Zenon, <1>1, <1>2, <2>1 DEF Found, Kept
  <2>4. Coded(j)'
    BY Zenon, <1>1, <1>2, <2>1 DEF Coded
  <2> QED BY Zenon, <2>2, <2>3, <2>4
<1> QED BY Zenon, <1>2, <1>3, <1>4 DEF ChannelsInv, CallsInv

LEMMA KeepsAnswered ==
    ASSUME ChannelsInv, NEW k \in Call, Answered(k)
    PROVE  ChannelsInv'
<1> DEFINE ch == <<k, "call">>
<1>1. /\ ch \in Chan /\ call[k] = "await" /\ Active(k) /\ TakeResult(k, ch)
      /\ UNCHANGED <<waiters, first>> /\ Fresh(k) /\ Coded(k)
  BY Zenon, ChannelFacts DEF Answered, TakeResult, Active, ChannelsInv, CallsInv
<1>2. /\ RoomForResult' /\ results' \in [Chan -> Holding] /\ results'[ch] = <<>>
      /\ \E r \in PairResult : results[ch] = <<r>> /\ Head(results[ch]) = r
      /\ \A c \in Chan : c # ch => results'[c] = results[c]
      /\ \A c \in Chan : Nowhere(c) => Nowhere(c)'
  BY Zenon, <1>1, Takes
<1>3. PICK r \in PairResult : results[ch] = <<r>> /\ Head(results[ch]) = r
  BY Zenon, <1>2
<1>4. PICK to \in {"failed", "returned", "register"} :
          /\ call' = [call EXCEPT ![k] = to]
          /\ to = "register" => r \notin {Failed, Paired}
  <2> DEFINE to == CASE r = Failed -> "failed" [] r = Paired -> "returned" [] OTHER -> "register"
  <2>1. call' = [call EXCEPT ![k] = to]
    BY Zenon, <1>3 DEF Answered
  <2>2. /\ to \in {"failed", "returned", "register"}
        /\ to = "register" => r \notin {Failed, Paired}
    BY Zenon DEF Failed, Paired
  <2> QED BY Zenon, <2>1, <2>2
<1>5. code' = [code EXCEPT ![k] = r.code]
  BY Zenon, <1>3 DEF Answered
<1>6. /\ OneOfAKind' /\ call' \in [Call -> Stage] /\ call'[k] = to
      /\ \A j \in Call : j # k => call'[j] = call[j]
  BY Zenon, <1>1, <1>4, MovesOn DEF Stage
<1>7. /\ code' \in [Call -> Code \cup {NULL}] /\ code'[k] = r.code
      /\ \A j \in Call : j # k => code'[j] = code[j]
      /\ to = "register" => code'[k] \in Code
  BY Zenon, <1>3, <1>4, <1>5, ResultFacts DEF ChannelsInv, ChannelTypes
<1>8. to = "register" => k \in Requester
  <2>1. ASSUME k \notin Requester PROVE r \in {Failed, Paired}
    <3>1. <<r>> \in {<<>>, <<Failed>>, <<Paired>>}
      BY Zenon, <1>1, <1>3, <2>1 DEF Coded
    <3> QED BY Zenon, <3>1
  <2> QED BY Zenon, <1>4, <2>1
<1>9. ChannelTypes'
  BY Zenon, <1>1, <1>2, <1>6, <1>7 DEF ChannelsInv, ChannelTypes
<1>10. ASSUME NEW j \in Call PROVE (Fresh(j) /\ Found(j) /\ Coded(j))'
  <2>1. Fresh(j) /\ Found(j) /\ Coded(j)
    BY Zenon DEF ChannelsInv, CallsInv
  <2>2. /\ <<j, "call">> \in Chan /\ <<j, "code">> \in Chan /\ <<j, "code">> # ch
        /\ j # k => <<j, "call">> # ch
    BY Zenon, ChannelFacts
  <2>3. Fresh(j)'
    BY Zenon, <1>1, <1>2, <1>4, <1>6, <2>1, <2>2 DEF Fresh
  <2>4. Found(j)'
    BY Zenon, <1>1, <1>2, <1>4, <1>6, <1>7, <2>1, <2>2 DEF Found, Kept
  <2>5. Coded(j)'
    BY Zenon, <1>1, <1>2, <1>4, <1>6, <1>7, <1>8, <2>1, <2>2 DEF Coded
  <2> QED BY Zenon, <2>3, <2>4, <2>5
<1> QED BY Zenon, <1>2, <1>6, <1>9, <1>10 DEF ChannelsInv, CallsInv

LEMMA KeepsWaitReturns ==
    ASSUME ChannelsInv, NEW k \in Call, WaitReturns(k)
    PROVE  ChannelsInv'
<1> DEFINE ch == <<k, "code">>
<1>1. /\ ch \in Chan /\ call[k] = "wait" /\ Active(k) /\ TakeResult(k, ch)
      /\ UNCHANGED <<waiters, first, code>>
  BY Zenon, ChannelFacts DEF WaitReturns, TakeResult, Active
<1>2. /\ RoomForResult' /\ results' \in [Chan -> Holding]
      /\ \A c \in Chan : c # ch => results'[c] = results[c]
      /\ \A c \in Chan : Nowhere(c) => Nowhere(c)'
  BY Zenon, <1>1, Takes
<1>3. PICK to \in {"failed", "returned"} : call' = [call EXCEPT ![k] = to]
  BY Zenon DEF WaitReturns
<1>4. /\ OneOfAKind' /\ call' \in [Call -> Stage] /\ call'[k] = to
      /\ \A j \in Call : j # k => call'[j] = call[j]
  BY Zenon, <1>1, <1>3, MovesOn DEF Stage
<1>5. ChannelTypes'
  BY Zenon, <1>1, <1>2, <1>4 DEF ChannelsInv, ChannelTypes
<1>6. ASSUME NEW j \in Call PROVE (Fresh(j) /\ Found(j) /\ Coded(j))'
  <2>1. Fresh(j) /\ Found(j) /\ Coded(j)
    BY Zenon DEF ChannelsInv, CallsInv
  <2>2. /\ <<j, "call">> \in Chan /\ <<j, "code">> \in Chan /\ <<j, "call">> # ch
        /\ j # k => <<j, "code">> # ch
    BY Zenon, ChannelFacts
  <2>3. Fresh(j)'
    BY Zenon, <1>2, <1>3, <1>4, <2>1, <2>2 DEF Fresh
  <2>4. Found(j)'
    BY Zenon, <1>1, <1>2, <1>3, <1>4, <2>1, <2>2 DEF Found, Kept
  <2>5. Coded(j)'
    BY Zenon, <1>1, <1>2, <1>3, <1>4, <2>1, <2>2 DEF Coded
  <2> QED BY Zenon, <2>3, <2>4, <2>5
<1> QED BY Zenon, <1>2, <1>4, <1>5, <1>6 DEF ChannelsInv, CallsInv

LEMMA KeepsAbort ==
    ASSUME ChannelsInv, NEW k \in Call, Abort(k)
    PROVE  ChannelsInv'
<1>1. /\ call' = [call EXCEPT ![k] = "aborted"] /\ UNCHANGED <<code, results, first>>
      /\ KeyOf(k) \in WaiterKey /\ waiters \in [WaiterKey -> Chan \cup {NULL}]
  BY Zenon, KeyOfFacts DEF Abort, ChannelsInv, ChannelTypes
<1>2. /\ OneOfAKind' /\ call' \in [Call -> Stage] /\ call'[k] = "aborted"
      /\ \A j \in Call : j # k => call'[j] = call[j]
  BY Zenon, <1>1, MovesOn DEF Stage
<1>3. /\ waiters' \in [WaiterKey -> Chan \cup {NULL}]
      /\ \A key \in WaiterKey : waiters'[key] = waiters[key] \/ waiters'[key] = NULL
      /\ call[k] \in {"enqueue", "await"} =>
             \A key \in WaiterKey : key # KeyOf(k) => waiters'[key] = waiters[key]
      /\ call[k] \notin {"enqueue", "await"} => waiters' = waiters
  BY Zenon, <1>1 DEF Abort
<1>4. ChannelTypes'
  BY Zenon, <1>1, <1>2, <1>3 DEF ChannelsInv, ChannelTypes
<1>5. RoomForResult'
  BY Zenon, <1>1, <1>3 DEF ChannelsInv, RoomForResult, HasRoom
<1>6. \A c \in Chan : Nowhere(c) => Nowhere(c)'
  BY Zenon, <1>1, <1>3, ChannelFacts DEF Nowhere
<1>7. ASSUME NEW j \in Call PROVE (Fresh(j) /\ Found(j) /\ Coded(j))'
  <2>1. /\ Fresh(j) /\ Found(j) /\ Coded(j)
        /\ <<j, "call">> \in Chan /\ <<j, "code">> \in Chan /\ <<j, "call">> # NULL
    BY Zenon, ChannelFacts DEF ChannelsInv, CallsInv
  <2>2. Fresh(j)'
    BY Zenon, <1>2, <1>6, <2>1 DEF Fresh
  <2>3. Found(j)'
    <3>1. CASE j = k
      BY Zenon, <1>2, <3>1 DEF Found
    <3>2. CASE j # k
      <4>1. ASSUME call[k] \in {"enqueue", "await"}, call[j] \in {"enqueue", "await"}
            PROVE  KeyOf(j) \in WaiterKey /\ KeyOf(j) # KeyOf(k)
        BY Zenon, <3>2, <4>1, KeyOfFacts DEF ChannelsInv, OneOfAKind, Active
      <4>2. call[j] = "wait" => code[j] \in WaiterKey /\ code[j] # KeyOf(k)
        BY Zenon, <2>1, KeyOfFacts, KeyFacts DEF Coded
      <4> QED BY Zenon, <1>1, <1>2, <1>3, <2>1, <3>2, <4>1, <4>2 DEF Found, Kept
    <3> QED BY Zenon, <3>1, <3>2
  <2>4. Coded(j)'
    BY Zenon, <1>1, <1>2, <1>3, <2>1, KeyFacts DEF Coded
  <2> QED BY Zenon, <2>2, <2>3, <2>4
<1> QED BY Zenon, <1>2, <1>4, <1>5, <1>7 DEF ChannelsInv, CallsInv

-----------------------------------------------------------------------------
(* The steps of readLoop.                                                  *)
LEMMA Notifies ==
    ASSUME ChannelTypes, NEW ch \in Chan, NEW r \in PairResult, Notify(ch, r)
    PROVE  /\ results' \in [Chan -> Holding] /\ results'[ch] = <<r>> /\ results'[ch] # <<>>
           /\ \A c \in Chan : c # ch => results'[c] = results[c]
<1>1. results' = [results EXCEPT ![ch] = <<r>>]
  BY DEF Notify, HasRoom
<1>2. <<r>> # <<>> /\ <<r>> \in Holding
  BY Zenon DEF Holding
<1> QED BY Zenon, <1>1, <1>2 DEF ChannelTypes

LEMMA KeepsHandlePairCode ==
    ASSUME ChannelsInv, FramesInv, HandlePairCode
    PROVE  ChannelsInv'
<1> DEFINE ch == waiters[Request]
<1>1. /\ UNCHANGED <<call, code, first>> /\ Request \in WaiterKey /\ ChannelTypes /\ RoomForResult
      /\ waiters \in [WaiterKey -> Chan \cup {NULL}]
  BY Zenon, KeyFacts DEF HandlePairCode, callVars, ChannelsInv, ChannelTypes
<1>2. CASE ch = NULL
  BY <1>1, <1>2 DEF HandlePairCode, ChannelsInv, ChannelTypes, RoomForResult, HasRoom, CallsInv,
     Fresh, Nowhere, Found, Kept, Coded, OneOfAKind, Active
<1>3. CASE ch # NULL
  <2>1. ch \in Chan /\ waiters' = [waiters EXCEPT ![Request] = NULL]
    BY Zenon, <1>1, <1>3 DEF HandlePairCode, TakePairWaiter
  <2>2. PICK c \in Code : Notify(ch, Granted(c))
    <3>1. inbox # <<>> /\ Head(inbox).type = "pair_code" /\ Notify(ch, Granted(Head(inbox).code))
      BY Zenon, <1>3 DEF HandlePairCode, ReadFrame
    <3>2. Head(inbox) = inbox[1] /\ 1 \in 1 .. Len(inbox)
      BY <3>1, EmptyFacts DEF FramesInv
    <3> QED BY Zenon, <3>1, <3>2 DEF FramesInv
  <2>3. /\ results' \in [Chan -> Holding] /\ results'[ch] # <<>>
        /\ \A d \in Chan : d # ch => results'[d] = results[d]
    BY Zenon, <1>1, <2>1, <2>2, Notifies, ResultFacts
  <2>4. /\ waiters' \in [WaiterKey -> Chan \cup {NULL}] /\ waiters'[Request] = NULL
        /\ \A key \in WaiterKey : key # Request => waiters'[key] = waiters[key]
    BY Zenon, <1>1, <2>1
  <2>5. ChannelTypes'
    BY Zenon, <1>1, <2>3, <2>4 DEF ChannelTypes
  <2>6. ch # first /\ \A key \in WaiterKey : key # Request => waiters[key] # ch
    BY Zenon, <1>1, <1>3 DEF RoomForResult
  <2>7. RoomForResult'
    BY <1>1, <2>3, <2>4, <2>6 DEF RoomForResult, HasRoom, ChannelTypes
  <2>8. \A d \in Chan : Nowhere(d) => Nowhere(d)'
    BY <1>1, <2>3, <2>4, ChannelFacts DEF Nowhere
  <2>9. \A key \in WaiterKey, d \in Chan : Kept(key, d) => Kept(key, d)'
    BY Zenon, <1>1, <2>3, <2>4 DEF Kept
  <2>10. ASSUME NEW k \in Call \ Requester PROVE results'[<<k, "call">>] = results[<<k, "call">>]
    <3>1. ch # <<k, "call">> /\ <<k, "call">> \in Chan
      BY Zenon, ChannelFacts DEF ChannelsInv, CallsInv, Coded
    <3> QED BY Zenon, <2>3, <3>1
  <2> QED BY Zenon, <1>1, <2>4, <2>5, <2>7, <2>8, <2>9, <2>10, OthersKept
<1> QED BY Zenon, <1>2, <1>3

LEMMA KeepsHandlePairComplete ==
    ASSUME ChannelsInv, FramesInv, HandlePairComplete
    PROVE  ChannelsInv'
<1>1. PICK key : key = Head(inbox).code
  OBVIOUS
<1>2. key \in WaiterKey /\ first = NULL
  <2>1. inbox # <<>> /\ Head(inbox).type = "pair_complete"
    BY Zenon DEF HandlePairComplete, ReadFrame
  <2>2. Head(inbox) = inbox[1] /\ 1 \in 1 .. Len(inbox)
    BY <2>1, EmptyFacts DEF FramesInv
  <2> QED BY Zenon, <1>1, <2>1, <2>2, KeyFacts DEF FramesInv
<1>3. /\ UNCHANGED <<call, code, results>> /\ ChannelTypes /\ RoomForResult
      /\ waiters \in [WaiterKey -> Chan \cup {NULL}]
  BY Zenon DEF HandlePairComplete, callVars, ChannelsInv, ChannelTypes
<1>4. CASE waiters[key] = NULL
  BY <1>1, <1>3, <1>4 DEF HandlePairComplete, ChannelsInv, ChannelTypes, RoomForResult, HasRoom,
     CallsInv, Fresh, Nowhere, Found, Kept, Coded, OneOfAKind, Active
<1>5. CASE waiters[key] # NULL
  <2>1. first' = waiters[key] /\ waiters' = [waiters EXCEPT ![key] = NULL] /\ first' \in Chan
    BY Zenon, <1>1, <1>2, <1>3, <1>5 DEF HandlePairComplete, TakePairWaiter
  <2>2. /\ waiters' \in [WaiterKey -> Chan \cup {NULL}] /\ waiters'[key] = NULL
        /\ \A j \in WaiterKey : j # key => waiters'[j] = waiters[j]
    BY Zenon, <1>2, <1>3, <2>1
  <2>3. ChannelTypes'
    BY Zenon, <1>3, <2>1, <2>2 DEF ChannelTypes
  <2>4. RoomForResult'
    BY Zenon, <1>2, <1>3, <1>5, <2>1, <2>2 DEF RoomForResult, HasRoom
  <2>5. \A c \in Chan : Nowhere(c) => Nowhere(c)'
    BY Zenon, <1>2, <1>3, <2>1, <2>2, ChannelFacts DEF Nowhere
  <2>6. \A j \in WaiterKey, c \in Chan : Kept(j, c) => Kept(j, c)'
    BY Zenon, <1>2, <1>3, <2>1, <2>2, ChannelFacts DEF Kept
  <2>7. waiters'[Request] \in {waiters[Request], NULL}
    BY Zenon, <2>2, KeyFacts
  <2> QED BY Zenon, <1>3, <2>3, <2>4, <2>5, <2>6, <2>7, OthersKept
<1> QED BY Zenon, <1>4, <1>5

LEMMA KeepsHandleError ==
    ASSUME ChannelsInv, HandleError
    PROVE  ChannelsInv'
<1> DEFINE all == {waiters[k] : k \in WaiterKey} \ {NULL}
<1>1. /\ UNCHANGED <<call, code, first>> /\ ChannelTypes /\ RoomForResult
      /\ waiters' = [k \in WaiterKey |-> NULL] /\ results \in [Chan -> Holding]
  BY Zenon DEF HandleError, callVars, ChannelsInv, ChannelTypes
<1>2. /\ \A ch \in all : results[ch] = <<>>
      /\ results' = [ch \in Chan |-> IF ch \in all THEN Append(results[ch], Failed)
                                                  ELSE results[ch]]
  BY Zenon DEF HandleError, HasRoom
<1>3. Append(<<>>, Failed) = <<Failed>> /\ <<Failed>> # <<>> /\ <<Failed>> \in Holding
  BY ResultFacts DEF Holding
<1> HIDE DEF all
<1>4. /\ results' \in [Chan -> Holding]
      /\ \A ch \in Chan : ch \in all => results'[ch] = <<Failed>>
      /\ \A ch \in Chan : ch \notin all => results'[ch] = results[ch]
  BY Zenon, <1>1, <1>2, <1>3
<1>5. \A ch \in Chan : ch \in all <=> \E key \in WaiterKey : waiters[key] = ch
  BY Zenon, ChannelFacts DEF all
<1>6. ChannelTypes'
  BY Zenon, <1>1, <1>4 DEF ChannelTypes
<1>7. RoomForResult'
  <2>1. first # NULL => first \in Chan /\ first \notin all
    BY Zenon, <1>1, <1>5 DEF RoomForResult, ChannelTypes
  <2> QED BY Zenon, <1>1, <1>4, <2>1 DEF RoomForResult, HasRoom
<1>8. \A c \in Chan : Nowhere(c) => Nowhere(c)'
  BY Zenon, <1>1, <1>4, <1>5, ChannelFacts DEF Nowhere
<1>9. \A j \in WaiterKey, c \in Chan : Kept(j, c) => Kept(j, c)'
  BY Zenon, <1>1, <1>3, <1>4, <1>5 DEF Kept
<1>10. ASSUME NEW k \in Call \ Requester
       PROVE  /\ results'[<<k, "call">>] \in {results[<<k, "call">>], <<Failed>>, <<Paired>>}
              /\ waiters'[Request] \in {waiters[Request], NULL}
  BY Zenon, <1>1, <1>4, ChannelFacts, KeyFacts
<1> QED BY Zenon, <1>1, <1>6, <1>7, <1>8, <1>9, <1>10, OthersKept

LEMMA KeepsResolveFirst ==
    ASSUME ChannelsInv, ResolveFirst
    PROVE  ChannelsInv'
<1>1. /\ UNCHANGED <<call, code, waiters>> /\ ChannelTypes /\ RoomForResult
      /\ first \in Chan /\ first' = NULL
  BY Zenon DEF ResolveFirst, callVars, ChannelsInv, ChannelTypes
<1>2. PICK r \in {Paired, Failed} : Notify(first, r)
  BY Zenon DEF ResolveFirst
<1>3. /\ results' \in [Chan -> Holding] /\ results'[first] = <<r>> /\ results'[first] # <<>>
      /\ \A c \in Chan : c # first => results'[c] = results[c]
  BY Zenon, <1>1, <1>2, Notifies, ResultFacts
<1>4. ChannelTypes'
  BY Zenon, <1>1, <1>3 DEF ChannelTypes
<1>5. RoomForResult'
  BY Zenon, <1>1, <1>3 DEF RoomForResult, HasRoom, ChannelTypes
<1>6. \A c \in Chan : Nowhere(c) => Nowhere(c)'
  BY Zenon, <1>1, <1>3, ChannelFacts DEF Nowhere
<1>7. \A j \in WaiterKey, c \in Chan : Kept(j, c) => Kept(j, c)'
  BY Zenon, <1>1, <1>3 DEF Kept
<1>8. ASSUME NEW k \in Call \ Requester
      PROVE  results'[<<k, "call">>] \in {results[<<k, "call">>], <<Failed>>, <<Paired>>}
  <2>1. <<k, "call">> \in Chan
    BY Zenon, ChannelFacts
  <2> QED BY Zenon, <1>2, <1>3, <2>1
<1> QED BY Zenon, <1>1, <1>4, <1>5, <1>6, <1>7, <1>8, OthersKept

-----------------------------------------------------------------------------
LEMMA ChannelsInit == Init => ChannelsInv
<1> SUFFICES ASSUME Init PROVE ChannelsInv
  OBVIOUS
<1>1. /\ waiters = [k \in WaiterKey |-> NULL] /\ results = [ch \in Chan |-> <<>>] /\ first = NULL
      /\ call = [k \in Call |-> "idle"] /\ code = [k \in Call |-> NULL]
  BY Zenon DEF Init
<1>2. ChannelTypes
  BY Zenon, <1>1 DEF ChannelTypes, Holding, Stage
<1>3. RoomForResult
  BY Zenon, <1>1 DEF RoomForResult
<1>4. ASSUME NEW k \in Call PROVE Fresh(k) /\ Found(k) /\ Coded(k)
  BY Zenon, <1>1, ChannelFacts, KeyFacts DEF Fresh, Nowhere, Found, Coded
<1>5. OneOfAKind
  BY Zenon, <1>1 DEF OneOfAKind, Active
<1> QED BY Zenon, <1>2, <1>3, <1>4, <1>5 DEF ChannelsInv, CallsInv

LEMMA ChannelsNext ==
    ASSUME FramesInv, ChannelsInv, Next
    PROVE  ChannelsInv'
<1>1. ASSUME UNCHANGED <<waiters, results, first, call, code>> PROVE ChannelsInv'
  BY Zenon, <1>1 DEF ChannelsInv, ChannelTypes, RoomForResult, HasRoom, CallsInv, Fresh, Nowhere,
     Found,
     Kept, Coded, OneOfAKind, Active
<1>2. CASE \E k \in Call : CallStep(k)
  BY Zenon, <1>2, KeepsRegisterWaiter, KeepsRegisterCode, KeepsEnqueueRequest, KeepsAnswered,
     KeepsWaitReturns, KeepsAbort DEF CallStep, CallReturns, Cancel, ClientClosed
<1>3. CASE HandlePairCode \/ HandlePairComplete \/ HandleError \/ ResolveFirst
  BY Zenon, <1>3, KeepsHandlePairCode, KeepsHandlePairComplete, KeepsHandleError, KeepsResolveFirst
<1>4. CASE \/ ReadFails \/ BackoffElapses \/ BackoffInterrupted \/ ReadWelcome \/ AnnounceKey
           \/ DialConnects \/ DialFails \/ EnqueueMsg1
  BY Zenon, <1>1, <1>4 DEF ReadFails, BackoffElapses, BackoffInterrupted, ReadWelcome, AnnounceKey,
     DialConnects, DialFails, EnqueueMsg1, Goto, callVars, waiterVars
<1>5. CASE \/ TakeFrame \/ WriteFrame \/ WriterDone \/ EnqueuePing \/ Tick \/ PingerDone
           \/ Close \/ Lose \/ PeerAccepts
  BY Zenon, <1>1, <1>5 DEF TakeFrame, WriteFrame, WriterDone, EnqueuePing, Tick, PingerDone,
     PingLoop,
     Close, Lose, PeerAccepts, callVars, waiterVars
<1> QED BY Zenon, <1>2, <1>3, <1>4, <1>5 DEF Next, Reader, Writer, Pinger

-----------------------------------------------------------------------------
(* Requests on their way, which are counted.                               *)
LOCAL INSTANCE FiniteSetTheorems

(* Each code was requested: by a frame that is still to be written, or by  *)
(* one that was answered.                                                  *)
Requests(s) == {i \in 1 .. Len(s) : s[i].type = "pair_request"}
Asked == {k \in Requester : call[k] \notin {"idle", "enqueue"}}
CountInv ==
    granted \in Nat /\ granted + Cardinality(Requests(sends)) + Writing <= Cardinality(Asked)

LEMMA RequestsFinite ==
    ASSUME NEW s \in Seq(Outgoing)
    PROVE  IsFiniteSet(Requests(s)) /\ Cardinality(Requests(s)) \in Nat
<1>1. IsFiniteSet(1 .. Len(s)) /\ Requests(s) \in SUBSET (1 .. Len(s))
  BY FS_Interval, LenFacts DEF Requests
<1> QED BY Zenon, <1>1, FS_Subset, FS_CardinalityType

LEMMA RequestsAppend ==
    ASSUME NEW s \in Seq(Outgoing), NEW f \in Outgoing
    PROVE  Cardinality(Requests(Append(s, f))) =
               Cardinality(Requests(s)) + (IF f.type = "pair_request" THEN 1 ELSE 0)
<1> DEFINE t == Append(s, f)
           n == Len(s) + 1
<1>1. /\ Len(s) \in Nat /\ Len(t) = n /\ t[n] = f
      /\ \A i \in 1 .. Len(s) : t[i] = s[i]
  BY AppendFacts, LenFacts
<1>2. n \notin Requests(s)
  BY <1>1 DEF Requests
<1>3. CASE f.type = "pair_request"
  <2>1. Requests(t) = Requests(s) \cup {n}
    BY <1>1, <1>3 DEF Requests
  <2> QED BY Zenon, <1>2, <1>3, <2>1, RequestsFinite, FS_AddElement
<1>4. CASE f.type # "pair_request"
  <2>1. Requests(t) = Requests(s)
    BY <1>1, <1>4 DEF Requests
  <2> QED BY <1>4, <2>1, RequestsFinite
<1> QED BY Zenon, <1>3, <1>4

LEMMA RequestsTail ==
    ASSUME NEW s \in Seq(Outgoing), s # <<>>
    PROVE  Cardinality(Requests(s)) =
               Cardinality(Requests(Tail(s))) + (IF Head(s).type = "pair_request" THEN 1 ELSE 0)
<1> DEFINE t == Tail(s)
           P == Requests(s) \ {1}
           g == [i \in Requests(t) |-> i + 1]
<1>1. /\ t \in Seq(Outgoing) /\ Len(s) \in Nat \ {0} /\ Len(t) = Len(s) - 1
      /\ \A i \in 1 .. Len(t) : t[i] = s[i + 1]
  BY Zenon, TailFacts, EmptyFacts
<1>2. Head(s) = s[1]
  BY <1>1
<1>3. g \in Bijection(Requests(t), P)
  <2>1. ASSUME NEW i \in Requests(t) PROVE g[i] \in P
    BY <1>1, <2>1 DEF Requests
  <2>2. ASSUME NEW i \in P PROVE \E j \in Requests(t) : g[j] = i
    <3>1. i - 1 \in Requests(t) /\ g[i - 1] = i
      BY <1>1, <2>2 DEF Requests
    <3> QED BY Zenon, <3>1
  <2>3. \A i, j \in Requests(t) : g[i] = g[j] => i = j
    BY <1>1 DEF Requests
  <2> QED BY Zenon, <2>1, <2>2, <2>3 DEF Bijection, Injection, IsInjective, Surjection
<1>4. Cardinality(P) = Cardinality(Requests(t))
  BY Zenon, <1>1, <1>3, RequestsFinite, FS_Bijection DEF ExistsBijection
<1>5. 1 \in Requests(s) <=> Head(s).type = "pair_request"
  BY <1>1, <1>2 DEF Requests
<1>6. /\ IsFiniteSet(Requests(s)) /\ Cardinality(Requests(s)) \in Nat
      /\ Cardinality(P) = IF 1 \in Requests(s) THEN Cardinality(Requests(s)) - 1
                                               ELSE Cardinality(Requests(s))
  BY Zenon, RequestsFinite, FS_RemoveElement
<1> HIDE DEF P, g, t
<1>7. QED BY <1>4, <1>5, <1>6 DEF t

LEMMA AskedFinite ==
    /\ IsFiniteSet(Asked) /\ Cardinality(Asked) \in Nat /\ Cardinality(Asked) <= MaxRequests
    /\ IsFiniteSet(Asked')
<1>1. IsFiniteSet(Requester) /\ Cardinality(Requester) = MaxRequests
  BY BoundsAssumption, FS_Interval DEF Requester
<1>2. Asked \in SUBSET Requester /\ Asked' \in SUBSET Requester
  BY Zenon DEF Asked
<1> QED BY Zenon, <1>1, <1>2, FS_Subset, FS_CardinalityType

LEMMA CountMoves ==
    ASSUME LoopInv, CountInv, Asked \subseteq Asked', granted' \in Nat, sends' \in Seq(Outgoing),
           granted' + Cardinality(Requests(sends')) + Writing' <=
               granted + Cardinality(Requests(sends)) + Writing
    PROVE  CountInv'
<1>1. Cardinality(Asked) <= Cardinality(Asked') /\ Cardinality(Asked) \in Nat
      /\ Cardinality(Asked') \in Nat
  BY Zenon, AskedFinite, FS_Subset, FS_CardinalityType
<1>2. Cardinality(Requests(sends)) \in Nat /\ Cardinality(Requests(sends)') \in Nat
  BY Zenon, RequestsFinite DEF LoopInv, LoopTypes
<1>3. Writing \in {0, 1} /\ Writing' \in {0, 1}
  BY Zenon DEF Writing
<1>4. Requests(sends)' = Requests(sends')
  BY Zenon DEF Requests
<1> QED BY <1>1, <1>2, <1>3, <1>4 DEF CountInv

(* A frame that requests no code is queued.                                *)
LEMMA CountOthers ==
    ASSUME LoopInv, CountInv, NEW f \in Outgoing, f.type # "pair_request", Enqueue(f),
           UNCHANGED <<writer, granted>>, Asked \subseteq Asked'
    PROVE  CountInv'
<1>1. sends' = Append(sends, f) /\ sends' \in Seq(Outgoing) /\ sends \in Seq(Outgoing)
  BY Zenon, EnqueueTyped DEF LoopInv, LoopTypes
<1>2. Cardinality(Requests(sends')) = Cardinality(Requests(sends))
  BY <1>1, RequestsAppend, RequestsFinite
<1>3. Writing' = Writing /\ Writing \in {0, 1}
  BY Zenon DEF Writing
<1>4. Cardinality(Requests(sends)) \in Nat
  BY Zenon, <1>1, RequestsFinite
<1> QED BY <1>1, <1>2, <1>3, <1>4, CountMoves DEF CountInv

(* A call does not go back.                                                *)
LEMMA AskedGrows ==
    ASSUME call \in [Call -> Stage], NEW k \in Call, CallStep(k)
    PROVE  Asked \subseteq Asked'
<1>1. PICK to : call' = [call EXCEPT ![k] = to]
  BY Zenon DEF CallStep, CallReturns, RegisterWaiter, EnqueueRequest, Cancel, ClientClosed, Abort,
     Answered, RegisterCode, WaitReturns
<1>2. call[k] \notin {"idle", "enqueue"} => call'[k] \notin {"idle", "enqueue"}
  BY Zenon, <1>1 DEF CallStep, CallReturns, RegisterWaiter, EnqueueRequest, Cancel, ClientClosed,
     Abort,
     Answered, RegisterCode, WaitReturns
<1> QED BY <1>1, <1>2 DEF Asked

LEMMA CountCalls ==
    ASSUME LoopInv, CountInv, call \in [Call -> Stage], NEW k \in Call, CallStep(k)
    PROVE  CountInv'
<1>1. UNCHANGED <<granted, writer>> /\ Writing' = Writing
  BY Zenon DEF CallStep, CallReturns, RegisterWaiter, EnqueueRequest, Cancel, ClientClosed, Abort,
     Answered, TakeResult, RegisterCode, WaitReturns, loopVars, serverVars, Writing
<1>2. CASE EnqueueRequest(k) /\ k \in Requester
  <2> DEFINE f == Frame("pair_request", NULL)
  <2>1. f \in Outgoing /\ f.type = "pair_request" /\ Enqueue(f)
    BY Zenon, <1>2, OutgoingFrames DEF EnqueueRequest
  <2>2. sends' = Append(sends, f) /\ sends \in Seq(Outgoing) /\ sends' \in Seq(Outgoing)
    BY Zenon, <2>1, EnqueueTyped DEF LoopInv, LoopTypes
  <2>3. /\ Cardinality(Requests(sends')) = Cardinality(Requests(sends)) + 1
        /\ Cardinality(Requests(sends)) \in Nat
    BY Zenon, <2>1, <2>2, RequestsAppend, RequestsFinite
  <2>4. Asked' = Asked \cup {k} /\ k \notin Asked
    BY <1>2 DEF EnqueueRequest, Asked
  <2>5. Cardinality(Asked') = Cardinality(Asked) + 1 /\ Cardinality(Asked) \in Nat
    BY Zenon, <2>4, AskedFinite, FS_AddElement
  <2>6. Writing \in {0, 1} /\ Requests(sends)' = Requests(sends')
    BY Zenon DEF Writing, Requests
  <2> HIDE DEF f
  <2> QED BY <1>1, <2>3, <2>5, <2>6 DEF CountInv
<1>3. CASE EnqueueRequest(k) /\ k \notin Requester
  <2>1. PICK f \in Outgoing : f.type = "pair_accept" /\ Enqueue(f)
    BY Zenon, <1>3, OutgoingFrames DEF EnqueueRequest
  <2> QED BY Zenon, <1>1, <2>1, AskedGrows, CountOthers
<1>4. CASE ~EnqueueRequest(k)
  <2>1. UNCHANGED sends
    BY Zenon, <1>4 DEF CallStep, CallReturns, RegisterWaiter, Cancel, ClientClosed, Abort,
       Answered, TakeResult, RegisterCode, WaitReturns
  <2>2. sends \in Seq(Outgoing) /\ Writing \in {0, 1} /\ Cardinality(Requests(sends)) \in Nat
    BY Zenon, RequestsFinite DEF LoopInv, LoopTypes, Writing
  <2> QED BY <1>1, <2>1, <2>2, AskedGrows, CountMoves DEF CountInv
<1> QED BY Zenon, <1>2, <1>3, <1>4

LEMMA CountTakeFrame ==
    ASSUME LoopInv, CountInv, TakeFrame
    PROVE  CountInv'
<1>1. /\ sends \in Seq(Outgoing) /\ sends # <<>> /\ sends' = Tail(sends)
      /\ Tail(sends) \in Seq(Outgoing)
      /\ writer.at = "select" /\ writer' = [at |-> "write", frame |-> Head(sends), conn |-> conn]
      /\ granted' = granted /\ Asked' = Asked
  BY Zenon, TailFacts DEF TakeFrame, LoopInv, LoopTypes, serverVars, callVars, Asked
<1>2. Writing = 0 /\ Writing' = IF Head(sends).type = "pair_request" THEN 1 ELSE 0
  BY Zenon, <1>1 DEF Writing
<1>3. Cardinality(Requests(sends)) = Cardinality(Requests(sends')) + Writing'
  BY Zenon, <1>1, <1>2, RequestsTail
<1>4. Cardinality(Requests(sends')) \in Nat /\ Writing' \in {0, 1}
  BY Zenon, <1>1, <1>2, RequestsFinite
<1> QED BY <1>1, <1>2, <1>3, <1>4, CountMoves DEF CountInv

(* What the server answers, and what it has granted then.                  *)
LEMMA CountWriteFrame ==
    ASSUME LoopInv, CountInv, WriteFrame
    PROVE  CountInv'
<1>1. /\ sends' = sends /\ sends \in Seq(Outgoing) /\ Asked' = Asked
      /\ writer.at = "write" /\ Writing' = 0 /\ Cardinality(Requests(sends)) \in Nat
  BY Zenon, RequestsFinite
     DEF WriteFrame, LoopInv, LoopTypes, callVars, Asked, Writing, Selecting
<1>2. granted' = granted \/ (granted' = granted + 1 /\ Writing = 1)
  <2>1. CASE UNCHANGED granted
    BY Zenon, <2>1
  <2>2. CASE ~(UNCHANGED granted)
    <3>1. PICK f \in Answers(writer.frame) : f.type = "pair_code" /\ granted' = f.code
      BY Zenon, <2>2 DEF WriteFrame
    <3>2. writer.frame.type = "pair_request" /\ f.code = granted + 1
      BY <3>1 DEF Answers, Frame
    <3> QED BY Zenon, <1>1, <3>1, <3>2 DEF Writing
  <2> QED BY Zenon, <2>1, <2>2
<1>3. Writing \in {0, 1}
  BY Zenon DEF Writing
<1> QED BY <1>1, <1>2, <1>3, CountMoves DEF CountInv

LEMMA CountInit == Init => CountInv
<1> SUFFICES ASSUME Init PROVE CountInv
  OBVIOUS
<1>1. Requests(<<>>) = {} /\ Writing = 0
  BY DEF Init, Requests, Writing, Selecting
<1>2. Cardinality(Asked) \in Nat
  BY Zenon, AskedFinite
<1>3. granted = 0 /\ Cardinality(Requests(sends)) = 0
  BY Zenon, <1>1, FS_EmptySet DEF Init
<1> QED BY <1>1, <1>2, <1>3 DEF CountInv

LEMMA CountNext ==
    ASSUME LoopInv, CountInv, call \in [Call -> Stage], Next
    PROVE  CountInv'
<1>1. ASSUME UNCHANGED <<granted, sends, call>>, Writing' = Writing PROVE CountInv'
  BY Zenon, <1>1 DEF CountInv, Asked, Requests
<1>2. CASE \E k \in Call : CallStep(k)
  BY Zenon, <1>2, CountCalls
<1>3. CASE EnqueueMsg1 \/ EnqueuePing
  <2>1. UNCHANGED <<writer, granted, call>>
    BY Zenon, <1>3 DEF EnqueueMsg1, EnqueuePing, PingLoop, serverVars, callVars
  <2>2. CASE UNCHANGED sends
    BY Zenon, <1>1, <2>1, <2>2 DEF Writing
  <2>3. CASE ~(UNCHANGED sends)
    <3>1. PICK f \in Outgoing : f.type # "pair_request" /\ Enqueue(f)
      BY Zenon, <1>3, <2>3, OutgoingFrames DEF EnqueueMsg1, EnqueuePing
    <3> QED BY Zenon, <2>1, <3>1, CountOthers DEF Asked
  <2> QED BY Zenon, <2>2, <2>3
<1>4. CASE TakeFrame \/ WriteFrame
  BY Zenon, <1>4, CountTakeFrame, CountWriteFrame
<1>5. CASE WriterDone
  BY Zenon, <1>1, <1>5 DEF WriterDone, Selecting, Writing, serverVars, callVars
<1>6. CASE HandlePairCode \/ HandlePairComplete \/ HandleError \/ ResolveFirst \/ PeerAccepts
  BY Zenon, <1>1, <1>6 DEF HandlePairCode, HandlePairComplete, HandleError, ResolveFirst,
     PeerAccepts,
     loopVars, serverVars, callVars, Writing
<1>7. CASE \/ ReadFails \/ BackoffElapses \/ BackoffInterrupted \/ ReadWelcome \/ AnnounceKey
           \/ DialConnects \/ DialFails
  BY Zenon, <1>1, <1>7 DEF ReadFails, BackoffElapses, BackoffInterrupted, ReadWelcome, AnnounceKey,
     DialConnects, DialFails, Goto, serverVars, callVars, Writing
<1>8. CASE Tick \/ PingerDone \/ Close \/ Lose
  BY Zenon, <1>1, <1>8 DEF Tick, PingerDone, PingLoop, Close, Lose, serverVars, callVars, Writing
<1> QED BY Zenon, <1>2, <1>3, <1>4, <1>5, <1>6, <1>7, <1>8 DEF Next, Reader, Writer, Pinger

(* So a request that is being written is for one of the codes.             *)
LEMMA GrantedCode ==
    ASSUME LoopInv, CountInv
    PROVE  Writing = 1 => granted + 1 \in Code
<1>1. Cardinality(Requests(sends)) \in Nat
  BY Zenon, RequestsFinite DEF LoopInv, LoopTypes
<1> QED BY <1>1, AskedFinite, BoundsAssumption DEF CountInv, Code

-----------------------------------------------------------------------------
IInv == LoopInv /\ CountInv /\ FramesInv /\ ChannelsInv

LEMMA IInvNext == IInv /\ [Next]_vars => IInv'
<1>1. ASSUME IInv, Next PROVE IInv'
  <2>1. /\ LoopInv /\ CountInv /\ FramesInv /\ ChannelsInv /\ ChannelTypes
        /\ call \in [Call -> Stage] /\ (Writing = 1 => granted + 1 \in Code)
    BY Zenon, <1>1, GrantedCode DEF IInv, ChannelsInv, ChannelTypes
  <2> QED BY Zenon, <1>1, <2>1, LoopNext, CountNext, FramesNext, ChannelsNext DEF IInv
<1>2. ASSUME IInv, UNCHANGED vars PROVE IInv'
  <2>1. LoopInv' /\ CountInv'
    BY Zenon, <1>2 DEF IInv, LoopInv, LoopTypes, ConnInv, CountInv, Requests, Writing, Asked,
       vars, loopVars, callVars, serverVars
  <2>2. FramesInv'
    BY Zenon, <1>2 DEF IInv, FramesInv, vars, serverVars, waiterVars
  <2>3. ChannelsInv'
    BY Zenon, <1>2 DEF IInv, ChannelsInv, ChannelTypes, RoomForResult, HasRoom, CallsInv, Fresh,
       Nowhere,
       Found, Kept, Coded, OneOfAKind, Active, vars, callVars, waiterVars
  <2> QED BY Zenon, <2>1, <2>2, <2>3 DEF IInv
<1> QED BY Zenon, <1>1, <1>2

(* The four parts of the invariant hold together: see the head of the      *)
(* module.                                                                 *)
THEOREM SDKClientInvariant == Spec => []IInv
<1>1. Init => IInv
  BY Zenon, LoopInit, CountInit, FramesInit, ChannelsInit DEF IInv
<1>2. IInv /\ [Next]_vars => IInv'
  BY Zenon, IInvNext
<1> QED BY <1>1, <1>2, PTL DEF Spec

(* The client has one connection open at most, c.sends stays within its    *)
(* capacity, and the codes are those that were requested.                  *)
THEOREM SDKClientTypes == Spec => []TypeOK
<1>1. IInv => TypeOK
  <2> SUFFICES ASSUME IInv PROVE TypeOK
    OBVIOUS
  <2>1. LoopTypes /\ ConnInv /\ ChannelTypes
    BY Zenon DEF IInv, LoopInv, ChannelsInv
  <2> QED BY Zenon, <2>1 DEF LoopTypes, ConnInv, ChannelTypes, TypeOK
<1> QED BY <1>1, SDKClientInvariant, PTL

(* readLoop never blocks on the channel of a waiter: takePairWaiter,       *)
(* handleError and resolveHandshake notify each one once.                  *)
THEOREM SDKClientNeverBlocks == Spec => []RoomForResult
<1>1. IInv => RoomForResult
  BY Zenon DEF IInv, ChannelsInv
<1> QED BY <1>1, SDKClientInvariant, PTL

(* No call of RequestPairCode, AcceptPair or Wait that is waiting was      *)
(* forgotten, whatever other calls were cancelled or answered.             *)
THEOREM SDKClientKeepsWaiters == Spec => []WaiterKept
<1>1. IInv => WaiterKept
  BY Zenon DEF IInv, ChannelsInv, CallsInv, Found, Kept, WaiterKept
<1> QED BY <1>1, SDKClientInvariant, PTL
=============================================================================
