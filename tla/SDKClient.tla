----------------------------- MODULE SDKClient -----------------------------
(***************************************************************************)
(* A Client of the Go SDK (sdk/go/client.go): its goroutines readLoop,     *)
(* writeLoop and pingLoop, reconnection, Close, and the pairing calls of   *)
(* the application with the waiters they register.                         *)
(*                                                                         *)
(* The behaviour starts when Connect has returned.  A step is what happens *)
(* under one mutex, in one channel operation or in one call of the         *)
(* WebSocket library; select takes any case that is ready.  The server     *)
(* answers requests, loses connections, and completes the pairing of a     *)
(* code once the application has seen it: nobody else can know it before.  *)
(* Codes do not collide, and an application makes one call of a kind at a  *)
(* time.  What happens to frames of paired devices is in PeerSession: here *)
(* a first handshake ends, well or badly, at some time after the pairing.  *)
(***************************************************************************)
EXTENDS Naturals, Sequences

CONSTANTS
    Request,       \* the waiter key "__request__"
    NULL,
    MaxRequests,   \* bound: calls of RequestPairCode, each followed by Wait
    MaxAccepts,    \* bound: calls of AcceptPair
    SendsCap,      \* capacity of c.sends (64)
    MaxDials,      \* bound: connections made after the first
    MaxPings       \* bound: ticks of pingLoop

(* The calls, numbered in the order of their kind, and the codes granted   *)
(* to this device, numbered too; 0 is the code of another device, which    *)
(* AcceptPair is given.                                                    *)
Call == 1 .. (MaxRequests + MaxAccepts)
Requester == 1 .. MaxRequests
Code == 1 .. MaxRequests
OtherCode == 0
WaiterKey == Code \cup {OtherCode, Request}

(* The channels of a call: the one it makes first, and a PairCode's.       *)
Chan == Call \X {"call", "code"}

ASSUME BoundsAssumption ==
    SendsCap \in Nat \ {0} /\ {MaxRequests, MaxAccepts, MaxDials, MaxPings} \subseteq Nat
ASSUME KeysAssumption ==
    Request \notin Nat /\ NULL \notin Nat \cup Chan \cup {Request}

VARIABLES
    closedAt,      \* where readLoop was when Close was called; NULL before
    conn,          \* c.conn: connections are numbered
    open,          \* the connections that are open
    inbox,         \* control frames of the server on c.conn
    sends,         \* channel c.sends
    reader,        \* where readLoop is
    writer,        \* where writeLoop is, and the frame and connection it has
    pinger,        \* where pingLoop is
    pings,         \* ticks so far
    waiters,       \* c.pairWaiters
    results,       \* what each waiter's channel holds (capacity 1)
    first,         \* firstPairWaiter of the linked peer
    call,          \* where each call is
    code,          \* the code of each call
    granted,       \* how many codes the server has granted
    paired         \* has the server paired this device?

loopVars == <<conn, open, reader, writer, pinger, pings>>
callVars == <<call, code>>
serverVars == <<granted, paired>>
waiterVars == <<waiters, results, first>>
vars == <<closedAt, inbox, sends, loopVars, callVars, serverVars, waiterVars>>

(* c.closed is set, and c.done is closed.                                  *)
closed == closedAt # NULL

(* The PairResults a waiter can get.                                       *)
Failed == [ok |-> FALSE, code |-> NULL]
Paired == [ok |-> TRUE, code |-> NULL]
Granted(c) == [ok |-> TRUE, code |-> c]

Selecting == [at |-> "select", frame |-> NULL, conn |-> NULL]

Init ==
    /\ closedAt = NULL /\ conn = 1 /\ open = {1}
    /\ inbox = <<>> /\ sends = <<>>
    /\ reader = "read" /\ writer = Selecting /\ pinger = "select" /\ pings = 0
    /\ waiters = [k \in WaiterKey |-> NULL]
    /\ results = [ch \in Chan |-> <<>>] /\ first = NULL
    /\ call = [k \in Call |-> "idle"] /\ code = [k \in Call |-> NULL]
    /\ granted = 0 /\ paired = FALSE

Frame(type, c) == [type |-> type, code |-> c]
CanEnqueue == Len(sends) < SendsCap
EnqueueUnbounded(frame) == sends' = Append(sends, frame)
Enqueue(frame) == CanEnqueue /\ sends' = Append(sends, frame)

-----------------------------------------------------------------------------
(* RequestPairCode and AcceptPair register a waiter ...                    *)
KeyOf(k) == IF k \in Requester THEN Request ELSE OtherCode
Active(k) == call[k] \in {"enqueue", "await", "register", "wait"}
NextOfItsKind(k) ==
    \A j \in Call : (j \in Requester) = (k \in Requester) =>
        (IF j < k THEN call[j] # "idle" ELSE TRUE) /\ ~Active(j)

RegisterWaiter(k) ==
    /\ call[k] = "idle" /\ NextOfItsKind(k)
    /\ waiters' = [waiters EXCEPT ![KeyOf(k)] = <<k, "call">>]
    /\ call' = [call EXCEPT ![k] = "enqueue"]
    /\ UNCHANGED <<closedAt, inbox, sends, loopVars, code, serverVars, results, first>>

(* ... queue their request ...                                             *)
EnqueueRequest(k) ==
    /\ call[k] = "enqueue"
    /\ Enqueue(Frame(IF k \in Requester THEN "pair_request" ELSE "pair_accept", NULL))
    /\ call' = [call EXCEPT ![k] = "await"]
    /\ UNCHANGED <<closedAt, inbox, loopVars, code, serverVars, waiterVars>>

(* ... and wait for the answer.                                            *)
TakeResult(k, ch) ==
    /\ results[ch] # <<>>
    /\ results' = [results EXCEPT ![ch] = Tail(@)]
    /\ UNCHANGED <<closedAt, inbox, sends, loopVars, serverVars, waiters, first>>

Answered(k) ==
    /\ call[k] = "await"
    /\ TakeResult(k, <<k, "call">>)
    /\ LET r == Head(results[<<k, "call">>])
       IN  /\ call' = [call EXCEPT ![k] =
                  CASE r = Failed -> "failed"
                    [] r = Paired -> "returned"
                    [] OTHER -> "register"]
           /\ code' = [code EXCEPT ![k] = r.code]

(* RequestPairCode registers the PairCode's own channel under the code and *)
(* returns; the application then shows the code and calls Wait.  The wrong *)
(* form registers it under the key of the request.                         *)
RegisterUnderRequest(k) ==
    /\ call[k] = "register"
    /\ waiters' = [waiters EXCEPT ![Request] = <<k, "code">>]
    /\ call' = [call EXCEPT ![k] = "wait"]
    /\ UNCHANGED <<closedAt, inbox, sends, loopVars, code, serverVars, results, first>>

RegisterCode(k) ==
    /\ call[k] = "register"
    /\ waiters' = [waiters EXCEPT ![code[k]] = <<k, "code">>]
    /\ call' = [call EXCEPT ![k] = "wait"]
    /\ UNCHANGED <<closedAt, inbox, sends, loopVars, code, serverVars, results, first>>

WaitReturns(k) ==
    /\ call[k] = "wait"
    /\ TakeResult(k, <<k, "code">>)
    /\ call' = [call EXCEPT ![k] =
           IF Head(results[<<k, "code">>]) = Failed THEN "failed" ELSE "returned"]
    /\ UNCHANGED code

(* A call whose context is done, or whose client is closed, removes its    *)
(* waiter (removePairWaiter); Wait leaves it registered.                   *)
Abort(k) ==
    /\ \/ /\ call[k] \in {"enqueue", "await"}
          /\ waiters' = [waiters EXCEPT ![KeyOf(k)] = NULL]
       \/ call[k] = "wait" /\ UNCHANGED waiters
    /\ call' = [call EXCEPT ![k] = "aborted"]
    /\ UNCHANGED <<closedAt, inbox, sends, loopVars, code, serverVars, results, first>>

Cancel(k) == ~closed /\ Abort(k)

(* Every call watches c.done; the wrong form has a Wait that does not.     *)
ClosedButWaiting(k) == closed /\ call[k] # "wait" /\ Abort(k)
ClientClosed(k) == closed /\ Abort(k)

-----------------------------------------------------------------------------
(* readLoop takes the next control frame and dispatches it.                *)
ReadFrame(type) ==
    /\ reader = "read" /\ conn \in open
    /\ inbox # <<>> /\ Head(inbox).type = type
    /\ inbox' = Tail(inbox)

(* A send to a waiter's channel blocks, and readLoop with it, while the    *)
(* channel is full.                                                        *)
HasRoom(ch) == results[ch] = <<>>
Notify(ch, r) == HasRoom(ch) /\ results' = [results EXCEPT ![ch] = Append(@, r)]

(* takePairWaiter; the wrong form leaves the waiter registered.            *)
LeavePairWaiter(key) == UNCHANGED waiters
TakePairWaiter(key) == waiters' = [waiters EXCEPT ![key] = NULL]

HandlePairCode ==
    /\ ReadFrame("pair_code")
    /\ IF waiters[Request] # NULL
       THEN Notify(waiters[Request], Granted(Head(inbox).code)) /\ TakePairWaiter(Request)
       ELSE UNCHANGED <<results, waiters>>
    /\ UNCHANGED <<closedAt, sends, loopVars, callVars, serverVars, first>>

(* handlePairComplete: the waiter of the code becomes the new peer's       *)
(* firstPairWaiter, and the accepting side starts the handshake.  Without  *)
(* a waiter the frame is ignored.                                          *)
WeAreAcceptor(ch) == ch[1] \notin Requester

HandlePairComplete ==
    /\ ReadFrame("pair_complete")
    /\ LET key == Head(inbox).code
       IN  IF waiters[key] # NULL
           THEN /\ first' = waiters[key]
                /\ TakePairWaiter(key)
                /\ reader' = IF WeAreAcceptor(waiters[key]) THEN "enqueue" ELSE "read"
           ELSE UNCHANGED <<first, waiters, reader>>
    /\ UNCHANGED <<closedAt, sends, conn, open, writer, pinger, pings, callVars, serverVars, results>>

(* enqueueBinary, for the accepter's msg1, gives up when the client is     *)
(* closed.                                                                 *)
EnqueueMsg1 ==
    /\ reader = "enqueue"
    /\ \/ Enqueue(Frame("handshake", NULL))
       \/ closed /\ UNCHANGED sends
    /\ reader' = "read"
    /\ UNCHANGED <<closedAt, inbox, conn, open, writer, pinger, pings, callVars, serverVars, waiterVars>>

(* handleError: one error frame answers every waiter there is.             *)
HandleError ==
    /\ ReadFrame("error")
    /\ LET all == {waiters[k] : k \in WaiterKey} \ {NULL}
       IN  /\ \A ch \in all : HasRoom(ch)
           /\ results' = [ch \in Chan |-> IF ch \in all THEN Append(results[ch], Failed)
                                                       ELSE results[ch]]
    /\ waiters' = [k \in WaiterKey |-> NULL]
    /\ UNCHANGED <<closedAt, sends, loopVars, callVars, serverVars, first>>

(* resolveHandshake, for a peer's first handshake.                         *)
ResolveFirst ==
    /\ reader = "read" /\ conn \in open /\ first # NULL
    /\ \E r \in {Paired, Failed} : Notify(first, r)
    /\ first' = NULL
    /\ UNCHANGED <<closedAt, inbox, sends, loopVars, callVars, serverVars, waiters>>

-----------------------------------------------------------------------------
(* readLoop and reconnectWithBackoff when reading fails.                   *)
Goto(place) ==
    /\ reader' = place
    /\ UNCHANGED <<closedAt, sends, writer, pinger, pings, callVars, serverVars, waiterVars>>

ReadFails ==
    /\ reader = "read" /\ conn \notin open
    /\ Goto(IF closed THEN "ended" ELSE "backoff")
    /\ UNCHANGED <<conn, open, inbox>>

(* The first of the timer and c.done to fire wakes the select.             *)
BackoffElapses ==
    /\ reader = "backoff" /\ conn <= MaxDials /\ ~closed
    /\ Goto("dial") /\ UNCHANGED <<conn, open, inbox>>

BackoffInterrupted ==
    /\ reader = "backoff" /\ closed
    /\ Goto("ended") /\ UNCHANGED <<conn, open, inbox>>

(* dial: the connection is stored as soon as it is made, then the welcome  *)
(* is read and the static key announced.                                   *)
DialConnects ==
    /\ reader = "dial"
    /\ conn' = conn + 1 /\ open' = open \cup {conn + 1} /\ inbox' = <<>>
    /\ Goto("welcome")

ReadWelcome ==
    /\ reader = "welcome" /\ conn \in open
    /\ Goto("announce") /\ UNCHANGED <<conn, open, inbox>>

(* No connection was made, or it broke, or its first frame was not a       *)
(* welcome (a peer_status can come first, see module Hub).                 *)
DialFails ==
    /\ reader \in {"dial", "welcome", "announce"}
    /\ open' = open \ {conn}
    /\ Goto("backoff") /\ UNCHANGED <<conn, inbox>>

AnnounceKey ==
    /\ reader = "announce" /\ conn \in open
    /\ Goto("read") /\ UNCHANGED <<conn, open, inbox>>

-----------------------------------------------------------------------------
(* writeLoop takes a frame and the current connection, and writes.  On a   *)
(* dead connection the frame is lost.                                      *)
TakeFrame ==
    /\ writer.at = "select" /\ sends # <<>>
    /\ writer' = [at |-> "write", frame |-> Head(sends), conn |-> conn]
    /\ sends' = Tail(sends)
    /\ UNCHANGED <<closedAt, inbox, conn, open, reader, pinger, pings, callVars, serverVars, waiterVars>>

(* The server answers what it receives: a code or an error, a pairing or   *)
(* an error.                                                               *)
Answers(frame) ==
    CASE frame.type = "pair_request" ->
            {Frame("pair_code", granted + 1), Frame("error", NULL)}
      [] frame.type = "pair_accept" ->
            {Frame("error", NULL)} \cup
            (IF paired THEN {} ELSE {Frame("pair_complete", OtherCode)})
      [] OTHER -> {}

WriteFrame ==
    /\ writer.at = "write"
    /\ writer' = Selecting
    /\ IF writer.conn \in open /\ Answers(writer.frame) # {}
       THEN \E f \in Answers(writer.frame) :
               /\ inbox' = Append(inbox, f)
               /\ granted' = IF f.type = "pair_code" THEN f.code ELSE granted
               /\ paired' = (paired \/ f.type = "pair_complete")
       ELSE UNCHANGED <<inbox, granted, paired>>
    /\ UNCHANGED <<closedAt, sends, conn, open, reader, pinger, pings, callVars, waiterVars>>

WriterDone ==
    /\ writer.at = "select" /\ closed
    /\ writer' = [Selecting EXCEPT !.at = "ended"]
    /\ UNCHANGED <<closedAt, inbox, sends, conn, open, reader, pinger, pings, callVars, serverVars, waiterVars>>

(* pingLoop: once a tick has come it waits for room in c.sends, not for    *)
(* c.done.                                                                 *)
PingLoop(place) ==
    /\ pinger' = place
    /\ UNCHANGED <<closedAt, inbox, conn, open, reader, writer, callVars, serverVars, waiterVars>>

Tick ==
    /\ pinger = "select" /\ pings < MaxPings
    /\ pings' = pings + 1
    /\ PingLoop("send") /\ UNCHANGED sends

EnqueuePing ==
    /\ pinger = "send" /\ Enqueue(Frame("ping", NULL))
    /\ PingLoop("select") /\ UNCHANGED pings

PingerDone ==
    /\ pinger = "select" /\ closed
    /\ PingLoop("ended") /\ UNCHANGED <<sends, pings>>

-----------------------------------------------------------------------------
(* Close closes the connection that c.conn names at that moment; the wrong *)
(* form does not.                                                          *)
CloseDoneOnly ==
    /\ ~closed
    /\ closedAt' = reader
    /\ UNCHANGED <<inbox, sends, loopVars, callVars, serverVars, waiterVars>>

Close ==
    /\ ~closed
    /\ closedAt' = reader
    /\ open' = open \ {conn}
    /\ UNCHANGED <<inbox, sends, conn, reader, writer, pinger, pings, callVars, serverVars, waiterVars>>

(* The connection is lost.                                                 *)
Lose ==
    /\ conn \in open /\ conn <= MaxDials
    /\ open' = open \ {conn}
    /\ UNCHANGED <<closedAt, inbox, sends, conn, reader, writer, pinger, pings, callVars, serverVars, waiterVars>>

(* Another device accepts a code that was shown.                           *)
PeerAccepts ==
    /\ ~paired /\ conn \in open /\ reader = "read"
    /\ \E k \in Requester :
           /\ call[k] \in {"wait", "aborted", "failed"} /\ code[k] # NULL
           /\ inbox' = Append(inbox, Frame("pair_complete", code[k]))
    /\ paired' = TRUE
    /\ UNCHANGED <<closedAt, sends, loopVars, callVars, granted, waiterVars>>

Reader ==
    \/ HandlePairCode \/ HandlePairComplete \/ EnqueueMsg1 \/ HandleError
    \/ ReadFails \/ BackoffElapses \/ BackoffInterrupted
    \/ DialConnects \/ ReadWelcome \/ DialFails \/ AnnounceKey

Writer == TakeFrame \/ WriteFrame
Pinger == EnqueuePing \/ PingerDone

CallReturns(k) ==
    Answered(k) \/ RegisterCode(k) \/ WaitReturns(k) \/ ClientClosed(k)

CallStep(k) ==
    RegisterWaiter(k) \/ EnqueueRequest(k) \/ Cancel(k) \/ CallReturns(k)

Next ==
    \/ Reader \/ ResolveFirst
    \/ Writer \/ WriterDone \/ Pinger \/ Tick
    \/ Close \/ Lose \/ PeerAccepts
    \/ \E k \in Call : CallStep(k)

(* Goroutines run, the server can be reached, and a select that is ready   *)
(* again and again on one of its cases takes it at last: Go chooses at     *)
(* random.                                                                 *)
Fairness ==
    /\ WF_vars(Reader) /\ WF_vars(Writer) /\ SF_vars(WriterDone)
    /\ \A k \in Call : WF_vars(CallReturns(k))

Spec == Init /\ [][Next]_vars /\ Fairness

-----------------------------------------------------------------------------
TypeOK ==
    /\ conn \in 1 .. (MaxDials + 1) /\ open \subseteq {conn}
    /\ Len(sends) <= SendsCap
    /\ reader \in {"read", "enqueue", "backoff", "dial", "welcome", "announce", "ended"}
    /\ writer.at \in {"select", "write", "ended"} /\ pinger \in {"select", "send", "ended"}
    /\ waiters \in [WaiterKey -> Chan \cup {NULL}] /\ first \in Chan \cup {NULL}
    /\ code \in [Call -> Code \cup {NULL}]

(* A waiter that is still to be notified has room for its result, and is   *)
(* registered once: readLoop never blocks on a waiter's channel, which in  *)
(* handleError it would do holding pairWaitersMu.                          *)
RoomForResult ==
    /\ \A k \in WaiterKey : waiters[k] # NULL => HasRoom(waiters[k]) /\ waiters[k] # first
    /\ \A j, k \in WaiterKey : waiters[j] = waiters[k] /\ j # k => waiters[j] = NULL
    /\ first # NULL => HasRoom(first)

(* A call that waits will be found by its answer: its waiter is            *)
(* registered, or passed on to the first handshake, or has its result.  So *)
(* a pair_complete for a code that RequestPairCode returned is not ignored *)
(* although the waiter is registered only after the code has arrived.      *)
WaiterKept ==
    \A k \in Call :
        LET kept(key, ch) == waiters[key] = ch \/ first = ch \/ results[ch] # <<>>
        IN  /\ call[k] = "await" => kept(KeyOf(k), <<k, "call">>)
            /\ call[k] = "wait" => kept(code[k], <<k, "code">>)

(* Close ends readLoop, and with it Messages(), wherever it finds it but   *)
(* in the WebSocket library's dial.                                        *)
CloseEndsReader ==
    closed /\ closedAt # "dial" ~> reader = "ended"

(* After Close every call returns and writeLoop ends.                      *)
CloseReleases ==
    closed ~> writer.at = "ended" /\ \A k \in Call : ~Active(k)

-----------------------------------------------------------------------------
(* What the documentation says and the code does not guarantee.            *)

(* "The channel is closed when the client is closed" (Messages): readLoop  *)
(* ends after Close whatever it is doing.                                  *)
CloseEndsMessages == closed ~> reader = "ended"

(* "writeLoop serialises outgoing frames onto the WebSocket" (writeLoop),  *)
(* which allows one writer at a time: dial does not announce the key on a  *)
(* connection that writeLoop is writing to.                                *)
OneWriter == ~(reader = "announce" /\ writer.at = "write" /\ writer.conn = conn)
=============================================================================
