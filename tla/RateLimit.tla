----------------------------- MODULE RateLimit -----------------------------
(***************************************************************************)
(* The limiter of WebSocket upgrades (internal/relay/ratelimit.go) for one *)
(* remote IP: addresses share nothing but the map their buckets are in.    *)
(*                                                                         *)
(* Requests run concurrently.  Allow is two steps, LoadOrStore and the     *)
(* bucket's locked allow; a visit of cleanupLoop is two as well, the       *)
(* locked staleness check and the Delete.  A bucket that was deleted       *)
(* still serves the requests that loaded it.                               *)
(***************************************************************************)
EXTENDS Naturals, Sequences

CONSTANTS
    Request,       \* the requests that may be in flight at the same time
    NULL,
    MaxTokens,
    Window,
    MaxBuckets,    \* bound: how many buckets are ever made
    MaxTime        \* bound: when the clock stops

ASSUME LimitsAssumption ==
    /\ MaxTokens \in Nat \ {0} /\ Window \in Nat \ {0}
    /\ MaxBuckets \in Nat /\ MaxTime \in Nat /\ NULL \notin Nat

Bucket == 1..MaxBuckets

VARIABLES
    now,           \* the clock; the limiter was created at 0
    made,          \* how many buckets there have been
    current,       \* the bucket in the map, or NULL
    tokens, windowStart, lastSeen,
    holds,         \* the bucket each request in flight loaded, or NULL
    due,           \* when the cleanup ticker fires next
    stale,         \* the cleanup found the bucket stale and is to delete it
    granted        \* ghost: for each bucket, when it allowed requests

bucketVars == <<tokens, windowStart, lastSeen>>
vars == <<now, made, current, bucketVars, holds, due, stale, granted>>

TypeOK ==
    /\ now \in 0..MaxTime
    /\ made \in 0..MaxBuckets
    /\ current \in (1..made) \cup {NULL}
    /\ tokens \in [Bucket -> 0..MaxTokens]
    /\ windowStart \in [Bucket -> 0..now]
    /\ lastSeen \in [Bucket -> 0..now]
    /\ holds \in [Request -> (1..made) \cup {NULL}]
    /\ due \in Nat
    /\ stale \in BOOLEAN
    /\ granted \in [Bucket -> Seq(0..now)]

Init ==
    /\ now = 0
    /\ made = 0
    /\ current = NULL
    /\ tokens = [b \in Bucket |-> 0]
    /\ windowStart = [b \in Bucket |-> 0]
    /\ lastSeen = [b \in Bucket |-> 0]
    /\ holds = [r \in Request |-> NULL]
    /\ due = 2 * Window
    /\ stale = FALSE
    /\ granted = [b \in Bucket |-> <<>>]

-----------------------------------------------------------------------------
(* Time passes.                                                            *)
Tick ==
    /\ now < MaxTime
    /\ now' = now + 1
    /\ UNCHANGED <<made, current, bucketVars, holds, due, stale, granted>>

(* Allow: the IP's bucket is loaded ...                                    *)
LoadBucket(r) ==
    /\ holds[r] = NULL
    /\ current # NULL
    /\ holds' = [holds EXCEPT ![r] = current]
    /\ UNCHANGED <<now, made, current, bucketVars, due, stale, granted>>

(* ... or a full one is stored.                                            *)
StoreBucket(r) ==
    LET b == made + 1 IN
    /\ holds[r] = NULL
    /\ current = NULL
    /\ made < MaxBuckets
    /\ made' = b
    /\ current' = b
    /\ tokens' = [tokens EXCEPT ![b] = MaxTokens]
    /\ windowStart' = [windowStart EXCEPT ![b] = now]
    /\ lastSeen' = [lastSeen EXCEPT ![b] = now]
    /\ holds' = [holds EXCEPT ![r] = b]
    /\ UNCHANGED <<now, due, stale, granted>>

(* Faulty variant: the window is taken to last one instant longer.         *)
WindowOverLate(b) == now - windowStart[b] > Window

(* allow: refill the bucket if its window is over, then take a token.      *)
WindowOver(b) == now - windowStart[b] >= Window
Available(b) == IF WindowOver(b) THEN MaxTokens ELSE tokens[b]

(* Faulty variant: the tokens left are not looked at.                      *)
AllowStepUnchecked(r) ==
    LET b == holds[r] IN
    /\ b # NULL
    /\ lastSeen' = [lastSeen EXCEPT ![b] = now]
    /\ windowStart' = [windowStart EXCEPT ![b] = IF WindowOver(b) THEN now ELSE @]
    /\ tokens' = [tokens EXCEPT ![b] = Available(b) - 1]
    /\ granted' = [granted EXCEPT ![b] = Append(@, now)]
    /\ holds' = [holds EXCEPT ![r] = NULL]
    /\ UNCHANGED <<now, made, current, due, stale>>

(* Faulty variant: a refill does not start a new window.                   *)
AllowStepSameWindow(r) ==
    LET b == holds[r]
        permitted == Available(b) > 0
    IN
    /\ b # NULL
    /\ lastSeen' = [lastSeen EXCEPT ![b] = now]
    /\ tokens' = [tokens EXCEPT ![b] = IF permitted THEN Available(b) - 1 ELSE 0]
    /\ granted' = [granted EXCEPT ![b] = IF permitted THEN Append(@, now) ELSE @]
    /\ holds' = [holds EXCEPT ![r] = NULL]
    /\ UNCHANGED <<now, made, current, windowStart, due, stale>>

AllowStep(r) ==
    LET b == holds[r]
        permitted == Available(b) > 0
    IN
    /\ b # NULL
    /\ lastSeen' = [lastSeen EXCEPT ![b] = now]
    /\ windowStart' = [windowStart EXCEPT ![b] = IF WindowOver(b) THEN now ELSE @]
    /\ tokens' = [tokens EXCEPT ![b] = IF permitted THEN Available(b) - 1 ELSE 0]
    /\ granted' = [granted EXCEPT ![b] = IF permitted THEN Append(@, now) ELSE @]
    /\ holds' = [holds EXCEPT ![r] = NULL]
    /\ UNCHANGED <<now, made, current, due, stale>>

-----------------------------------------------------------------------------
(* The ticker fires and cleanupLoop looks at the bucket under its lock.    *)
CleanupCheck ==
    /\ now >= due
    /\ ~stale
    /\ due' = due + 2 * Window
    /\ stale' = (current # NULL /\ lastSeen[current] + 2 * Window < now)
    /\ UNCHANGED <<now, made, current, bucketVars, holds, granted>>

(* buckets.Delete, with the lock released.                                 *)
CleanupDelete ==
    /\ stale
    /\ current' = NULL
    /\ stale' = FALSE
    /\ UNCHANGED <<now, made, bucketVars, holds, due, granted>>

Next ==
    \/ Tick \/ CleanupCheck \/ CleanupDelete
    \/ \E r \in Request : LoadBucket(r) \/ StoreBucket(r) \/ AllowStep(r)

Spec == Init /\ [][Next]_vars

-----------------------------------------------------------------------------
(* In any span shorter than the window a bucket lets through at most two   *)
(* windows' worth of requests, however they straddle its refills and even  *)
(* after it left the map (allow): the request that follows 2 * MaxTokens   *)
(* others comes at least a window after the first of them.                 *)
TwoWindowsAtMost ==
    \A b \in Bucket : \A i, j \in DOMAIN granted[b] :
        i + 2 * MaxTokens <= j => granted[b][i] + Window <= granted[b][j]

(* Nobody is turned away without cause: a bucket that refuses a request    *)
(* let its last MaxTokens requests through less than a window ago (allow's *)
(* early return).                                                          *)
RefusalJustified ==
    [][\A r \in Request :
          holds[r] # NULL /\ holds'[r] = NULL /\ granted' = granted =>
              LET g == granted[holds[r]] IN
              /\ Len(g) >= MaxTokens
              /\ now - g[Len(g) - MaxTokens + 1] < Window]_vars
=============================================================================
