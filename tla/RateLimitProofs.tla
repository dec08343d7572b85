-------------------------- MODULE RateLimitProofs ---------------------------
(***************************************************************************)
(* Proofs about the upgrade rate limiter, for any number of requests in    *)
(* flight, any limit and window, and however often the bucket is replaced. *)
(***************************************************************************)
EXTENDS RateLimit, SequenceTheorems, TLAPS

(* What the current window has let through.                                *)
Used(b) == MaxTokens - tokens[b]
(* The first of the grants that the current window counts.                 *)
Earlier(b) == Len(granted[b]) - Used(b)

(* The current window's grants are the last ones of the history; earlier   *)
(* ones came before the window opened, and all but MaxTokens of those a    *)
(* window before it did.                                                   *)
WindowsOf(b) ==
    /\ Used(b) <= Len(granted[b])
    /\ \A i \in DOMAIN granted[b] :
           /\ Earlier(b) < i => windowStart[b] <= granted[b][i]
           /\ i <= Earlier(b) => granted[b][i] <= windowStart[b]
           /\ i + MaxTokens <= Earlier(b) => granted[b][i] + Window <= windowStart[b]

History ==
    \A b \in Bucket : IF b <= made THEN WindowsOf(b) ELSE granted[b] = <<>>

(* The inductive invariant.                                                *)
IInv == TypeOK /\ History /\ TwoWindowsAtMost

-----------------------------------------------------------------------------
(* The initial state: no bucket, nothing granted.                          *)
LEMMA InitInv == Init => IInv
<1> SUFFICES ASSUME Init PROVE IInv
  OBVIOUS
<1>1. TypeOK
  <2>1. 0 \in 0..MaxTime /\ 0 \in 0..MaxBuckets /\ 0 \in 0..MaxTokens /\ 0 \in 0..now
        /\ 2 * Window \in Nat /\ <<>> \in Seq(0..now)
    BY LimitsAssumption DEF Init
  <2> QED BY <2>1 DEF Init, TypeOK
<1>2. \A b \in Bucket : ~(b <= made)
  BY LimitsAssumption DEF Init, Bucket
<1> QED BY <1>1, <1>2 DEF Init, IInv, History, TwoWindowsAtMost

(* The clock only moves forward, so times that were past stay past.        *)
LEMMA TypeTick == TypeOK /\ Tick => TypeOK'
<1> SUFFICES ASSUME TypeOK, Tick PROVE TypeOK'
  OBVIOUS
<1>1. now \in Nat /\ now' = now + 1 /\ now' \in 0..MaxTime
  BY LimitsAssumption DEF TypeOK, Tick
<1>2. 0..now \subseteq 0..now'
  BY <1>1
<1>3. \A s \in Seq(0..now) : s \in Seq(0..now')
  BY <1>2, SeqMonotonic
<1> QED BY <1>1, <1>2, <1>3 DEF TypeOK, Tick, bucketVars

(* Types are kept.                                                         *)
LEMMA TypeStep == TypeOK /\ [Next]_vars => TypeOK'
<1> SUFFICES ASSUME TypeOK, [Next]_vars PROVE TypeOK'
  OBVIOUS
<1>1. now \in Nat /\ made \in Nat /\ now \in 0..now
  BY LimitsAssumption DEF TypeOK
<1>2. ASSUME NEW r \in Request, LoadBucket(r) PROVE TypeOK'
  BY <1>2 DEF TypeOK, LoadBucket, bucketVars
<1>3. ASSUME NEW r \in Request, StoreBucket(r) PROVE TypeOK'
  <2>1. made + 1 \in Bucket /\ made + 1 \in 0..MaxBuckets /\ 1..made \subseteq 1..(made + 1)
        /\ made + 1 \in 1..(made + 1) /\ MaxTokens \in 0..MaxTokens
    BY <1>1, <1>3, LimitsAssumption DEF StoreBucket, Bucket
  <2> QED BY <1>1, <1>3, <2>1 DEF TypeOK, StoreBucket
<1>4. ASSUME NEW r \in Request, AllowStep(r) PROVE TypeOK'
  <2> DEFINE b == holds[r]
  <2>1. b \in Bucket
    BY <1>1, <1>4, LimitsAssumption DEF TypeOK, AllowStep, Bucket
  <2>2. Available(b) \in 0..MaxTokens
    BY <2>1, LimitsAssumption DEF Available, TypeOK
  <2>3. (IF Available(b) > 0 THEN Available(b) - 1 ELSE 0) \in 0..MaxTokens
    BY <2>2, LimitsAssumption
  <2>4. Append(granted[b], now) \in Seq(0..now)
    BY <1>1, <2>1 DEF TypeOK
  <2> QED BY <1>1, <1>4, <2>1, <2>3, <2>4 DEF TypeOK, AllowStep
<1>5. CASE CleanupCheck
  BY <1>5, LimitsAssumption DEF TypeOK, CleanupCheck, bucketVars
<1>6. CASE CleanupDelete
  BY <1>6 DEF TypeOK, CleanupDelete, bucketVars
<1>7. CASE UNCHANGED vars
  BY <1>7 DEF TypeOK, vars, bucketVars
<1> QED BY <1>2, <1>3, <1>4, <1>5, <1>6, <1>7, TypeTick DEF Next

(* A step that leaves the buckets alone keeps their history.               *)
LEMMA HistoryKept ==
    ASSUME History, TwoWindowsAtMost, UNCHANGED <<made, tokens, windowStart, granted>>
    PROVE  History' /\ TwoWindowsAtMost'
BY DEF History, TwoWindowsAtMost, WindowsOf, Used, Earlier

(* A new bucket is full and has granted nothing.                           *)
LEMMA HistoryStore ==
    ASSUME IInv, NEW r \in Request, StoreBucket(r)
    PROVE  History' /\ TwoWindowsAtMost'
<1> DEFINE n == made + 1
<1>1. n \in Bucket /\ made \in Nat /\ \A b \in Bucket : b \in Nat
  BY LimitsAssumption DEF IInv, TypeOK, StoreBucket, Bucket
<1>2. TwoWindowsAtMost'
  BY DEF IInv, TwoWindowsAtMost, StoreBucket
<1>3. ASSUME NEW b \in Bucket PROVE IF b <= made' THEN WindowsOf(b)' ELSE granted'[b] = <<>>
  <2>1. CASE b = n
    <3>1. granted[b] = <<>> /\ granted' = granted /\ tokens'[b] = MaxTokens
      BY <1>1, <2>1 DEF IInv, History, StoreBucket, TypeOK
    <3> QED BY <1>1, <2>1, <3>1, LimitsAssumption DEF WindowsOf, Used, Earlier, StoreBucket
  <2>2. CASE b # n
    <3>1. /\ tokens'[b] = tokens[b] /\ windowStart'[b] = windowStart[b]
          /\ granted' = granted /\ (b <= made' <=> b <= made)
      BY <1>1, <2>2 DEF StoreBucket, IInv, TypeOK
    <3> QED BY <3>1 DEF IInv, History, WindowsOf, Used, Earlier
  <2> QED BY <2>1, <2>2
<1> QED BY <1>2, <1>3 DEF History

-----------------------------------------------------------------------------
(* allow, first half: after the refill the history still splits at the     *)
(* window's start.  w and t are the window's start and the tokens left.    *)
LEMMA Refilled ==
    ASSUME TypeOK, NEW b \in Bucket, WindowsOf(b),
           NEW w, w = IF WindowOver(b) THEN now ELSE windowStart[b],
           NEW u, u = MaxTokens - Available(b)
    PROVE  /\ w \in Nat /\ w <= now /\ u \in 0..MaxTokens /\ u <= Len(granted[b])
           /\ now < w + Window
           /\ \A i \in DOMAIN granted[b] :
                  /\ Len(granted[b]) - u < i => w <= granted[b][i]
                  /\ i <= Len(granted[b]) - u => granted[b][i] <= w
                  /\ i + MaxTokens <= Len(granted[b]) - u => granted[b][i] + Window <= w
<1> DEFINE g == granted[b]
           n == Len(g)
           s == windowStart[b]
           t == tokens[b]
<1>1. /\ n \in Nat /\ DOMAIN g = 1..n /\ now \in Nat /\ s \in Nat /\ s <= now
      /\ t \in 0..MaxTokens /\ MaxTokens \in Nat \ {0} /\ Window \in Nat \ {0}
      /\ \A i \in DOMAIN g : g[i] \in Nat /\ g[i] <= now
  <2>1. g \in Seq(0..now) /\ now \in Nat
    BY LimitsAssumption DEF TypeOK
  <2>2. \A i \in DOMAIN g : g[i] \in 0..now
    BY <2>1
  <2> QED BY <2>1, <2>2, LimitsAssumption DEF TypeOK
<1>2. /\ MaxTokens - t <= n
      /\ \A i \in DOMAIN g :
             /\ n - (MaxTokens - t) < i => s <= g[i]
             /\ i <= n - (MaxTokens - t) => g[i] <= s
             /\ i + MaxTokens <= n - (MaxTokens - t) => g[i] + Window <= s
  BY DEF WindowsOf, Used, Earlier
<1>3. CASE WindowOver(b)
  <2>1. w = now /\ u = 0 /\ s + Window <= now
    BY <1>1, <1>3 DEF WindowOver, Available
  <2> HIDE DEF g, n, s, t
  <2>2. ASSUME NEW i \in DOMAIN g, i + MaxTokens <= n PROVE g[i] + Window <= now
    BY <1>1, <1>2, <2>1, <2>2
  <2> QED BY <1>1, <2>1, <2>2 DEF g, n
<1>4. CASE ~WindowOver(b)
  <2>1. w = s /\ u = MaxTokens - t /\ now < s + Window
    BY <1>1, <1>4 DEF WindowOver, Available
  <2>2. \A i \in DOMAIN g :
            /\ n - u < i => w <= g[i]
            /\ i <= n - u => g[i] <= w
            /\ i + MaxTokens <= n - u => g[i] + Window <= w
    BY ONLY <1>2, <2>1
  <2>3. u \in 0..MaxTokens /\ u <= n
    BY ONLY <1>1, <1>2, <2>1
  <2> QED BY <1>1, <2>1, <2>2, <2>3
<1> QED BY <1>3, <1>4

(* allow, both halves.                                                     *)
LEMMA HistoryAllow ==
    ASSUME IInv, NEW r \in Request, AllowStep(r)
    PROVE  History' /\ TwoWindowsAtMost'
<1>0. PICK b : b = holds[r]
  OBVIOUS
<1> DEFINE g == granted[b]
           n == Len(g)
           w == IF WindowOver(b) THEN now ELSE windowStart[b]
           u == MaxTokens - Available(b)
<1>1. b \in Bucket /\ b <= made /\ made' = made
  BY <1>0, LimitsAssumption DEF IInv, TypeOK, AllowStep, Bucket
<1>2. WindowsOf(b)
  BY <1>1 DEF IInv, History
<1>3. /\ w \in Nat /\ w <= now /\ u \in 0..MaxTokens /\ u <= n
      /\ \A i \in DOMAIN g :
             /\ n - u < i => w <= g[i]
             /\ i <= n - u => g[i] <= w
             /\ i + MaxTokens <= n - u => g[i] + Window <= w
  <2> HIDE DEF w, u
  <2>1. TypeOK /\ w = (IF WindowOver(b) THEN now ELSE windowStart[b]) /\ u = MaxTokens - Available(b)
    BY DEF IInv, w, u
  <2> QED BY <1>1, <1>2, <2>1, Refilled
<1>4. /\ n \in Nat /\ DOMAIN g = 1..n /\ now \in Nat /\ g \in Seq(0..now)
      /\ MaxTokens \in Nat \ {0} /\ Window \in Nat \ {0} /\ Available(b) \in 0..MaxTokens
      /\ \A i \in DOMAIN g : g[i] \in Nat
  <2>1. g \in Seq(0..now) /\ now \in Nat
    BY <1>1, LimitsAssumption DEF IInv, TypeOK
  <2>2. \A i \in DOMAIN g : g[i] \in 0..now
    BY <2>1
  <2>3. Available(b) \in 0..MaxTokens
    BY <1>1, LimitsAssumption DEF IInv, TypeOK, Available
  <2> QED BY <2>1, <2>2, <2>3, LimitsAssumption
<1>5. /\ windowStart'[b] = w
      /\ tokens'[b] = (IF Available(b) > 0 THEN Available(b) - 1 ELSE 0)
      /\ granted'[b] = (IF Available(b) > 0 THEN Append(g, now) ELSE g)
      /\ \A x \in Bucket : x # b => /\ windowStart'[x] = windowStart[x]
                                    /\ tokens'[x] = tokens[x] /\ granted'[x] = granted[x]
  BY <1>0, <1>1 DEF AllowStep, IInv, TypeOK
<1>6. \A i, j \in DOMAIN g : i + 2 * MaxTokens <= j => g[i] + Window <= g[j]
  BY <1>1 DEF IInv, TwoWindowsAtMost
<1>7. WindowsOf(b)' /\ \A i, j \in DOMAIN granted'[b] :
          i + 2 * MaxTokens <= j => granted'[b][i] + Window <= granted'[b][j]
  <2> DEFINE G == granted'[b]
             a == Available(b)
  <2>1. SUFFICES
          /\ MaxTokens - tokens'[b] <= Len(G)
          /\ \A i \in DOMAIN G :
                 /\ Len(G) - (MaxTokens - tokens'[b]) < i => windowStart'[b] <= G[i]
                 /\ i <= Len(G) - (MaxTokens - tokens'[b]) => G[i] <= windowStart'[b]
                 /\ i + MaxTokens <= Len(G) - (MaxTokens - tokens'[b])
                        => G[i] + Window <= windowStart'[b]
          /\ \A i, j \in DOMAIN G : i + 2 * MaxTokens <= j => G[i] + Window <= G[j]
    BY DEF WindowsOf, Used, Earlier
  <2>2. CASE a > 0
    <3>1. /\ Len(G) = n + 1 /\ DOMAIN G = 1..(n + 1) /\ G[n + 1] = now
          /\ \A i \in 1..n : G[i] = g[i]
      BY <1>4, <1>5, <2>2
    <3>2. tokens'[b] = a - 1 /\ windowStart'[b] = w /\ u = MaxTokens - a /\ a \in 1..MaxTokens
      BY <1>4, <1>5, <2>2
    <3> HIDE DEF G, g, n, w, u, a
    <3>3. /\ MaxTokens - (a - 1) = u + 1
          /\ Len(G) - (MaxTokens - (a - 1)) = n - u
      BY <1>3, <1>4, <3>1, <3>2
    <3>4. \A i \in DOMAIN G :
              /\ n - u < i => w <= G[i]
              /\ i <= n - u => G[i] <= w
              /\ i + MaxTokens <= n - u => G[i] + Window <= w
      <4>1. ASSUME NEW i \in 1..n
            PROVE  /\ n - u < i => w <= G[i]
                   /\ i <= n - u => G[i] <= w
                   /\ i + MaxTokens <= n - u => G[i] + Window <= w
        BY <1>3, <1>4, <3>1, <4>1
      <4>2. n - u < n + 1 /\ ~(n + 1 <= n - u) /\ ~(n + 1 + MaxTokens <= n - u)
        BY <1>3, <1>4
      <4> QED BY <1>3, <1>4, <3>1, <4>1, <4>2
    <3>5. \A i, j \in DOMAIN G : i + 2 * MaxTokens <= j => G[i] + Window <= G[j]
      <4> SUFFICES ASSUME NEW i \in 1..(n + 1), NEW j \in 1..(n + 1), i + 2 * MaxTokens <= j
                   PROVE  G[i] + Window <= G[j]
        BY <3>1
      <4>1. i \in 1..n
        BY <1>4
      <4>2. CASE j \in 1..n
        BY <1>4, <1>6, <3>1, <4>1, <4>2
      <4>3. CASE j = n + 1
        <5>1. i + MaxTokens <= n - u
          BY <1>3, <1>4, <3>2, <4>3
        <5>2. G[i] + Window <= w
          BY <3>1, <3>4, <5>1, <4>1
        <5>3. G[i] \in Nat
          BY <1>4, <3>1, <4>1
        <5> QED BY <1>3, <1>4, <3>1, <4>3, <5>2, <5>3
      <4> QED BY <1>4, <4>2, <4>3
    <3> QED BY <1>3, <1>4, <3>1, <3>2, <3>3, <3>4, <3>5
  <2>3. CASE ~(a > 0)
    <3>1. G = g /\ tokens'[b] = 0 /\ windowStart'[b] = w /\ u = MaxTokens /\ MaxTokens - 0 = u
      BY <1>4, <1>5, <2>3
    <3> HIDE DEF G, g, n, w, u, a
    <3> QED BY <1>3, <1>6, <3>1 DEF n
  <2> QED BY <2>2, <2>3
<1>8. ASSUME NEW x \in Bucket, x # b
      PROVE  /\ IF x <= made' THEN WindowsOf(x)' ELSE granted'[x] = <<>>
             /\ \A i, j \in DOMAIN granted'[x] :
                    i + 2 * MaxTokens <= j => granted'[x][i] + Window <= granted'[x][j]
  BY <1>1, <1>5, <1>8 DEF IInv, History, WindowsOf, Used, Earlier, TwoWindowsAtMost
<1> QED BY <1>1, <1>7, <1>8 DEF History, TwoWindowsAtMost

-----------------------------------------------------------------------------
(* The limiter's invariant: what each bucket's tokens and window say of    *)
(* the requests it let through (Allow, allow, cleanupLoop).                *)
THEOREM RateLimitInvariant == Spec => []IInv
<1>1. IInv /\ [Next]_vars => IInv'
  <2> SUFFICES ASSUME IInv, [Next]_vars PROVE IInv'
    OBVIOUS
  <2>1. TypeOK'
    BY TypeStep DEF IInv
  <2>2. ASSUME NEW r \in Request, AllowStep(r) PROVE History' /\ TwoWindowsAtMost'
    BY <2>2, HistoryAllow
  <2>3. ASSUME NEW r \in Request, StoreBucket(r) PROVE History' /\ TwoWindowsAtMost'
    BY <2>3, HistoryStore
  <2>4. ASSUME NEW r \in Request, LoadBucket(r) PROVE History' /\ TwoWindowsAtMost'
    <3>1. UNCHANGED <<made, tokens, windowStart, granted>>
      BY <2>4 DEF LoadBucket, bucketVars
    <3> QED BY <3>1, HistoryKept DEF IInv
  <2>5. ASSUME Tick \/ CleanupCheck \/ CleanupDelete \/ UNCHANGED vars
        PROVE  History' /\ TwoWindowsAtMost'
    <3>1. UNCHANGED <<made, tokens, windowStart, granted>>
      BY <2>5 DEF Tick, CleanupCheck, CleanupDelete, vars, bucketVars
    <3> QED BY <3>1, HistoryKept DEF IInv
  <2> QED BY <2>1, <2>2, <2>3, <2>4, <2>5 DEF Next, IInv
<1> QED BY <1>1, InitInv, PTL DEF Spec

(* No value leaves its range: no token is taken from an empty bucket, nor  *)
(* does a bucket hold more than MaxTokens (allow).                         *)
THEOREM RateLimitTypes == Spec => []TypeOK
BY RateLimitInvariant, PTL DEF IInv

(* No span shorter than the window holds more than two windows' worth of   *)
(* the requests a bucket let through (allow).                              *)
THEOREM RateLimitSafe == Spec => []TwoWindowsAtMost
BY RateLimitInvariant, PTL DEF IInv

(* A refused request found MaxTokens others let through less than a window *)
(* before (allow's early return).                                          *)
THEOREM RateLimitRefusals == Spec => RefusalJustified
<1> DEFINE Cause(r) ==
        LET g == granted[holds[r]] IN
        Len(g) >= MaxTokens /\ now - g[Len(g) - MaxTokens + 1] < Window
<1>1. ASSUME IInv, [Next]_vars, NEW r \in Request,
             holds[r] # NULL, holds'[r] = NULL, granted' = granted
      PROVE  Cause(r)
  <2>1. AllowStep(r)
    <3>1. ASSUME NEW q \in Request, LoadBucket(q) \/ StoreBucket(q) \/ AllowStep(q) PROVE q = r
      BY <1>1, <3>1 DEF LoadBucket, StoreBucket, AllowStep, IInv, TypeOK
    <3>2. ~LoadBucket(r) /\ ~StoreBucket(r)
      BY <1>1 DEF LoadBucket, StoreBucket
    <3>3. ~Tick /\ ~CleanupCheck /\ ~CleanupDelete /\ ~UNCHANGED vars
      BY <1>1 DEF Tick, CleanupCheck, CleanupDelete, vars
    <3> QED BY <1>1, <3>1, <3>2, <3>3 DEF Next
  <2> DEFINE b == holds[r]
             g == granted[b]
             n == Len(g)
             w == IF WindowOver(b) THEN now ELSE windowStart[b]
             u == MaxTokens - Available(b)
  <2>2. b \in Bucket /\ b <= made
    BY <1>1, LimitsAssumption DEF IInv, TypeOK, Bucket
  <2>3. /\ g \in Seq(0..now) /\ now \in Nat /\ Available(b) \in 0..MaxTokens
        /\ MaxTokens \in Nat \ {0} /\ Window \in Nat \ {0}
    BY <1>1, <2>2, LimitsAssumption DEF IInv, TypeOK, Available
  <2>4. Available(b) = 0
    <3>1. SUFFICES ASSUME Available(b) > 0 PROVE FALSE
      BY <2>3
    <3>2. granted'[b] = Append(g, now)
      BY <1>1, <2>1, <2>2, <3>1 DEF AllowStep, IInv, TypeOK
    <3>3. Len(Append(g, now)) = Len(g) + 1 /\ Len(g) \in Nat
      BY <2>3
    <3> QED BY <1>1, <3>2, <3>3
  <2>5. /\ w \in Nat /\ w <= now /\ u <= n /\ now < w + Window
        /\ \A i \in DOMAIN g : n - u < i => w <= g[i]
    <3>1. TypeOK /\ WindowsOf(b)
      BY <1>1, <2>2 DEF IInv, History
    <3>2. w = (IF WindowOver(b) THEN now ELSE windowStart[b]) /\ u = MaxTokens - Available(b)
      OBVIOUS
    <3> HIDE DEF b, w, u
    <3> QED BY <2>2, <3>1, <3>2, Refilled
  <2>6. u = MaxTokens
    BY <2>3, <2>4
  <2> HIDE DEF g, n, w, u
  <2>7. n \in Nat /\ DOMAIN g = 1..n
    BY <2>3 DEF n
  <2>8. n - MaxTokens + 1 \in 1..n /\ n - u < n - MaxTokens + 1
    BY <2>3, <2>5, <2>6, <2>7
  <2>9. w <= g[n - MaxTokens + 1] /\ g[n - MaxTokens + 1] \in 0..now
    BY <2>3, <2>5, <2>7, <2>8
  <2>10. n >= MaxTokens /\ now - g[n - MaxTokens + 1] < Window
    BY <2>3, <2>5, <2>6, <2>7, <2>9
  <2> QED BY <2>10 DEF g, n
<1>2. IInv /\ [Next]_vars =>
        [\A r \in Request : holds[r] # NULL /\ holds'[r] = NULL /\ granted' = granted =>
              LET g == granted[holds[r]] IN
              /\ Len(g) >= MaxTokens
              /\ now - g[Len(g) - MaxTokens + 1] < Window]_vars
  BY <1>1
<1> QED BY <1>2, RateLimitInvariant, PTL DEF Spec, RefusalJustified
=============================================================================
