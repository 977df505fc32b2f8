--------------------------- MODULE AdmissionProofs ---------------------------
(***************************************************************************)
(* The nonce cache and the checks of Admission, for any settings, requests *)
(* and number of slots; and that the limiter keeps what RateLimiterProofs  *)
(* shows of it when its calls come from the handlers.                      *)
(***************************************************************************)
EXTENDS Admission, RateLimiterProofs

Remembering == Signing /\ RequireNonce

Last(s) == s[Len(s)]

\* The cache holds the last use of each nonce until its TTL is over.
Entry(n) ==
    /\ expiry[n] # 0 =>
         /\ Remembering /\ uses[n] # <<>>
         /\ Last(uses[n]) <= now /\ expiry[n] = Last(uses[n]) + NonceTtl
    /\ expiry[n] = 0 /\ Remembering /\ uses[n] # <<>> => Last(uses[n]) + NonceTtl <= now

Spaced(s) == \A i \in 1..Len(s) - 1 : s[i + 1] - s[i] >= NonceTtl

NonceTyped ==
    /\ now \in Nat
    /\ expiry \in [Nonce -> Int] /\ uses \in [Nonce -> Seq(Nat)]
    /\ pending \in [Slot -> Upload \cup {None}]

NonceInv ==
    /\ NonceTyped
    /\ \A n \in Nonce : Entry(n)
    /\ Remembering => \A n \in Nonce : Spaced(uses[n])
    /\ CacheWithinTtl

\* A nonce that is remembered is remembered for a while: 0 is no valid setting.
LEMMA TtlPositive == NonceTtl \in Int /\ (Remembering => NonceTtl > 0)
BY AdmissionAssumption DEF ValidSettings, Remembering

\* Pruning forgets what is over and nothing else.
LEMMA PrunedEntries ==
    ASSUME NonceInv
    PROVE  /\ Pruned \in [Nonce -> Int]
           /\ \A n \in Nonce :
                /\ Pruned[n] # 0 => Pruned[n] = expiry[n] /\ expiry[n] > now
                /\ Pruned[n] = 0 /\ Remembering /\ uses[n] # <<>> =>
                     Last(uses[n]) + NonceTtl <= now
<1>1. NonceTyped
  BY DEF NonceInv
<1>2. Pruned \in [Nonce -> Int]
  BY <1>1 DEF NonceTyped, Pruned
<1>3. ASSUME NEW n \in Nonce
      PROVE  /\ Pruned[n] # 0 => Pruned[n] = expiry[n] /\ expiry[n] > now
             /\ Pruned[n] = 0 /\ Remembering /\ uses[n] # <<>> =>
                  Last(uses[n]) + NonceTtl <= now
  <2>1. Entry(n)
    BY DEF NonceInv
  <2>2. Pruned[n] = IF expiry[n] <= now THEN 0 ELSE expiry[n]
    BY DEF Pruned
  <2>3. now \in Nat /\ expiry[n] \in Int
    BY <1>1 DEF NonceTyped
  <2> QED BY <2>1, <2>2, <2>3 DEF Entry
<1> QED BY <1>2, <1>3

\* A request that is let through and remembered: its last use is over.
LEMMA SpacedAppend ==
    ASSUME NEW s \in Seq(Nat), NEW t \in Nat, Spaced(s),
           s # <<>> => Last(s) + NonceTtl <= t
    PROVE  Spaced(Append(s, t)) /\ Append(s, t) # <<>> /\ Last(Append(s, t)) = t
<1>0. NonceTtl \in Int
  BY TtlPositive
<1>1. /\ Len(Append(s, t)) = Len(s) + 1 /\ Append(s, t)[Len(s) + 1] = t /\ Len(s) \in Nat
      /\ \A i \in 1..Len(s) : Append(s, t)[i] = s[i] /\ s[i] \in Nat
  OBVIOUS
<1>2. ASSUME NEW i \in 1..Len(Append(s, t)) - 1
      PROVE  Append(s, t)[i + 1] - Append(s, t)[i] >= NonceTtl
  <2>1. CASE i = Len(s)
    <3>1. s # <<>> /\ Last(s) = s[i] /\ s[i] \in Nat
      BY <2>1, <1>1 DEF Last
    <3> QED BY <3>1, <2>1, <1>0, <1>1
  <2>2. CASE i # Len(s)
    <3>1. i \in 1..Len(s) - 1 /\ i \in 1..Len(s) /\ i + 1 \in 1..Len(s)
      BY <2>2, <1>1
    <3> QED BY <3>1, <1>1 DEF Spaced
  <2> QED BY <2>1, <2>2
<1>3. Append(s, t) # <<>> /\ Last(Append(s, t)) = t
  BY <1>1 DEF Last
<1> QED BY <1>2, <1>3 DEF Spaced

-----------------------------------------------------------------------------
\* What the verification of one request does to the cache and its history.
Verifies(h) ==
    /\ Verify(h)
    /\ IF Verified(h) THEN LetThrough(h) ELSE UNCHANGED uses

\* The part of the invariant that is about nonces.
CacheInv ==
    /\ now \in Nat
    /\ expiry \in [Nonce -> Int] /\ uses \in [Nonce -> Seq(Nat)]
    /\ \A n \in Nonce : Entry(n)
    /\ Remembering => \A n \in Nonce : Spaced(uses[n])
    /\ CacheWithinTtl

\* A verified request appends to the history of its nonce what its cache entry says.
LEMMA VerifiesKeeps ==
    ASSUME NonceInv, NEW h \in Headers, Verifies(h), UNCHANGED now
    PROVE  CacheInv'
<1>1. NonceTyped /\ CacheWithinTtl /\ \A n \in Nonce : Entry(n)
  BY DEF NonceInv
<1>2. h.nonce \in Nonce \cup {None}
  BY DEF Headers
<1>3. /\ uses' \in [Nonce -> Seq(Nat)] /\ now' = now /\ now \in Nat
      /\ \A n \in Nonce : uses'[n] = uses[n] \/ uses'[n] = Append(uses[n], now)
  <2>1. ASSUME NEW n \in Nonce PROVE Append(uses[n], now) \in Seq(Nat) /\ uses[n] \in Seq(Nat)
    BY <1>1 DEF NonceTyped
  <2>2. CASE LetThrough(h)
    BY <1>1, <2>1, <2>2 DEF LetThrough, NonceTyped
  <2>3. CASE UNCHANGED uses
    BY <1>1, <2>3 DEF NonceTyped
  <2> QED BY <1>1, <2>2, <2>3 DEF Verifies, NonceTyped
<1>4. CASE ~Remembering
  <2>1. UNCHANGED expiry
    BY <1>4 DEF Verifies, Verify, Remembering
  <2>2. \A n \in Nonce : expiry[n] = 0
    BY <1>1, <1>4 DEF Entry
  <2>3. expiry' \in [Nonce -> Int] /\ \A n \in Nonce : Entry(n)'
    BY <1>1, <1>4, <2>1, <2>2 DEF NonceTyped, Entry, Remembering
  <2>4. CacheWithinTtl'
    BY <2>1, <2>2 DEF CacheWithinTtl
  <2>5. ~Remembering'
    BY <1>4 DEF Remembering
  <2> QED BY <1>3, <2>3, <2>4, <2>5 DEF CacheInv
<1>5. CASE Remembering /\ ~(Current(h) /\ h.signed)
  <2>1. UNCHANGED <<expiry, uses, now>>
    BY <1>5 DEF Verifies, Verify, Verified, Remembering
  <2> QED BY <1>1, <2>1 DEF NonceInv, CacheInv, NonceTyped, Entry, Spaced, Remembering,
          CacheWithinTtl, Last
<1>6. CASE Remembering /\ Current(h) /\ h.signed
  <2> DEFINE n == h.nonce
  <2>1. n \in Nonce
    BY <1>2, <1>6 DEF Current, Remembering
  <2>2. Remember(h) /\ (Verified(h) <=> Pruned[n] = 0)
    BY <1>6 DEF Verifies, Verify, Verified, Unused, Remembering
  <2>3. /\ Pruned \in [Nonce -> Int]
        /\ \A k \in Nonce :
             /\ Pruned[k] # 0 => Pruned[k] = expiry[k] /\ expiry[k] > now
             /\ Pruned[k] = 0 /\ uses[k] # <<>> => Last(uses[k]) + NonceTtl <= now
    BY PrunedEntries, <1>6
  <2>4. NonceTtl \in Int /\ NonceTtl > 0
    BY TtlPositive, <1>6
  <2>5. \A k \in Nonce : Spaced(uses[k]) /\ uses[k] \in Seq(Nat)
    BY <1>1, <1>6 DEF NonceInv, NonceTyped
  <2>6. CASE Pruned[n] # 0
    <3>1. expiry' = Pruned /\ uses' = uses
      BY <2>1, <2>2, <2>3, <2>6 DEF Remember, Verifies
    <3>2. \A k \in Nonce : Entry(k)'
      BY <1>1, <1>3, <1>6, <2>3, <3>1 DEF Entry, Remembering, Last
    <3>3. CacheWithinTtl'
      BY <1>1, <2>3, <3>1 DEF CacheWithinTtl
    <3>4. \A k \in Nonce : Spaced(uses[k])'
      BY <2>5, <3>1 DEF Spaced
    <3>5. expiry' \in [Nonce -> Int]
      BY <2>3, <3>1
    <3> QED BY <1>3, <3>2, <3>3, <3>4, <3>5 DEF CacheInv
  <2>7. CASE Pruned[n] = 0
    <3>1. expiry' = [Pruned EXCEPT ![n] = now + NonceTtl]
      BY <2>1, <2>2, <2>3, <2>7 DEF Remember
    <3>2. uses' = [k \in Nonce |-> IF k = n THEN Append(uses[k], now) ELSE uses[k]]
      BY <2>2, <2>7 DEF Verifies, LetThrough
    <3>3. Spaced(uses'[n]) /\ uses'[n] # <<>> /\ Last(uses'[n]) = now
      BY <1>3, <2>1, <2>3, <2>5, <2>7, <3>2, SpacedAppend
    <3>4. \A k \in Nonce \ {n} : uses'[k] = uses[k] /\ expiry'[k] = Pruned[k]
      BY <2>3, <3>1, <3>2
    <3>5. expiry' \in [Nonce -> Int] /\ expiry'[n] = now + NonceTtl
      BY <1>3, <2>1, <2>3, <2>4, <3>1
    <3>6. ASSUME NEW k \in Nonce PROVE Entry(k)'
      <4>1. CASE k = n
        <5>1. uses'[k] # <<>> /\ Last(uses'[k]) = now' /\ expiry'[k] = now' + NonceTtl
          BY <1>3, <3>3, <3>5, <4>1
        <5>2. now' \in Nat /\ Remembering' /\ expiry'[k] # 0
          BY <1>3, <1>6, <2>4, <5>1 DEF Remembering
        <5>3. Last(uses'[k]) <= now' /\ expiry'[k] = Last(uses'[k]) + NonceTtl
          BY <5>1, <5>2
        <5> QED BY <5>1, <5>2, <5>3, Zenon DEF Entry
      <4>2. CASE k # n
        <5>1. Entry(k) /\ uses'[k] = uses[k] /\ expiry'[k] = Pruned[k]
          BY <1>1, <3>4, <4>2
        <5> QED BY <1>3, <1>6, <2>3, <5>1 DEF Entry, Last, Remembering
      <4> QED BY <4>1, <4>2
    <3>7. ASSUME NEW k \in Nonce PROVE Spaced(uses[k])'
      <4>1. CASE k = n
        BY <3>3, <4>1 DEF Spaced
      <4>2. CASE k # n
        BY <2>5, <3>4, <4>2 DEF Spaced
      <4> QED BY <4>1, <4>2
    <3>8. CacheWithinTtl'
      <4>1. ASSUME NEW k \in Nonce, expiry'[k] # 0
            PROVE  expiry'[k] > now /\ expiry'[k] <= now + NonceTtl
        <5>1. CASE k = n
          BY <1>3, <2>4, <3>5, <5>1
        <5>2. CASE k # n
          <6>1. expiry'[k] = expiry[k] /\ expiry[k] > now /\ expiry[k] # 0
            BY <2>3, <3>4, <4>1, <5>2
          <6>2. Entry(k) /\ uses[k] \in Seq(Nat)
            BY <1>1, <2>5
          <6>3. uses[k] # <<>> => Last(uses[k]) \in Nat
            BY <6>2 DEF Last
          <6> QED BY <1>3, <2>4, <6>1, <6>2, <6>3 DEF Entry
        <5> QED BY <5>1, <5>2
      <4>2. \A j, k \in Nonce : expiry'[j] # 0 /\ expiry'[k] # 0 =>
              expiry'[j] - expiry'[k] < NonceTtl
        <5> SUFFICES ASSUME NEW j \in Nonce, NEW k \in Nonce,
                            expiry'[j] # 0, expiry'[k] # 0
                     PROVE  expiry'[j] - expiry'[k] < NonceTtl
          OBVIOUS
        <5>1. expiry'[j] \in Int /\ expiry'[k] \in Int
          BY <3>5
        <5>2. expiry'[j] <= now + NonceTtl /\ expiry'[k] > now
          BY <4>1
        <5> QED BY <5>1, <5>2, <1>3, <2>4
      <4> QED BY <4>2 DEF CacheWithinTtl
    <3> QED BY <1>3, <3>5, <3>6, <3>7, <3>8 DEF CacheInv
  <2> QED BY <2>6, <2>7
<1> QED BY <1>4, <1>5, <1>6

-----------------------------------------------------------------------------
(***************************************************************************)
(* The steps                                                               *)
(***************************************************************************)

\* The limiter neither waits nor moves the clock.
LEMMA LimiterKeepsTime ==
    ASSUME NEW bucket, NEW client, LimitRate(bucket, client)
    PROVE  UNCHANGED now
BY DEF LimitRate, Allow, AllowUnlimited, AllowLimited

\* What leaves clock, cache and history alone keeps what is said of them.
LEMMA SameCache ==
    ASSUME NonceInv, UNCHANGED <<now, expiry, uses>>
    PROVE  CacheInv'
BY DEF NonceInv, CacheInv, NonceTyped, Entry, Spaced, Last, Remembering, CacheWithinTtl

\* The part of a submission before the await.
LEMMA ReceiveKeeps ==
    ASSUME NonceInv, NEW s \in Slot, NEW u \in Upload, ReceivePost(s, u)
    PROVE  NonceInv'
<1>1. UNCHANGED <<now, expiry, uses>>
  BY LimiterKeepsTime DEF ReceivePost
<1>2. CacheInv'
  BY <1>1, SameCache
<1>3. pending' \in [Slot -> Upload \cup {None}]
  BY DEF ReceivePost, NonceInv, NonceTyped
<1> QED BY <1>2, <1>3 DEF NonceInv, NonceTyped, CacheInv, Remembering

\* The part of a submission after the await, refusals included.
LEMMA HandleKeeps ==
    ASSUME NonceInv, NEW s \in Slot, HandlePost(s)
    PROVE  NonceInv'
<1> DEFINE u == pending[s]
<1>1. u \in Upload /\ u \in Post /\ u.headers \in Headers
  BY AdmissionAssumption DEF NonceInv, NonceTyped, HandlePost, Post
<1>2. UNCHANGED now
  BY DEF HandlePost, limiterVars
<1>3. CacheInv'
  <2>1. CASE Received(u)
    BY <1>1, <1>2, <2>1, VerifiesKeeps DEF HandlePost, Verifies
  <2>2. CASE ~Received(u)
    BY <1>2, <2>2, SameCache DEF HandlePost
  <2> QED BY <2>1, <2>2
<1>4. pending' \in [Slot -> Upload \cup {None}]
  BY DEF HandlePost, NonceInv, NonceTyped
<1> QED BY <1>3, <1>4 DEF NonceInv, NonceTyped, CacheInv, Remembering

\* A read: limiter, then signature.
LEMMA GetKeeps ==
    ASSUME NonceInv, NEW h \in Query, HandleGet(h)
    PROVE  NonceInv'
<1>1. h \in Headers /\ UNCHANGED now
  BY AdmissionAssumption, LimiterKeepsTime DEF HandleGet
<1>2. CacheInv'
  <2>1. CASE answer' = "allowed"
    BY <1>1, <2>1, VerifiesKeeps DEF HandleGet, Verifies
  <2>2. CASE answer' # "allowed"
    BY <1>1, <2>2, SameCache DEF HandleGet
  <2> QED BY <2>1, <2>2
<1>3. pending' = pending
  BY DEF HandleGet
<1> QED BY <1>2, <1>3 DEF NonceInv, NonceTyped, CacheInv, Remembering

\* An entry that becomes due is one whose last use is a TTL ago.
LEMMA TimeKeeps == NonceInv /\ PassTime => NonceInv'
<1> SUFFICES ASSUME NonceInv, PassTime PROVE NonceInv'
  OBVIOUS
<1>1. NonceTyped'
  BY DEF PassTime, Tick, NonceInv, NonceTyped
<1>2. ASSUME NEW n \in Nonce PROVE Entry(n)'
  <2>1. Entry(n) /\ now \in Nat /\ now' = now + 1 /\ uses' = uses /\ expiry' = expiry
    BY DEF NonceInv, NonceTyped, PassTime, Tick
  <2>2. uses[n] # <<>> => Last(uses[n]) \in Nat
    BY DEF NonceInv, NonceTyped, Last
  <2> QED BY <2>1, <2>2, TtlPositive DEF Entry, Last, Remembering
<1>3. Remembering => \A n \in Nonce : Spaced(uses[n])'
  BY DEF NonceInv, PassTime, Spaced
<1>4. CacheWithinTtl'
  BY DEF NonceInv, PassTime, CacheWithinTtl
<1> QED BY <1>1, <1>2, <1>3, <1>4 DEF NonceInv, Remembering

\* The invariant is about admissionVars alone.
LEMMA StutterKeeps == NonceInv /\ UNCHANGED admissionVars => NonceInv'
BY DEF NonceInv, NonceTyped, Entry, Spaced, Last, Remembering, CacheWithinTtl,
   admissionVars

\* An API process starts with an empty cache and nothing pending.
LEMMA NonceInit == AdmissionInit => NonceInv
BY DEF AdmissionInit, Init, NonceInv, NonceTyped, Entry, Spaced, CacheWithinTtl

\* The nonce cache of hmac_auth.py always says when each nonce was last used, for
\* as long as the TTL asks it to.
THEOREM NonceInvariant == AdmissionSpec => []NonceInv
<1>1. NonceInv /\ [AdmissionNext]_admissionVars => NonceInv'
  <2> SUFFICES ASSUME NonceInv, [AdmissionNext]_admissionVars PROVE NonceInv'
    OBVIOUS
  <2>1. CASE \E s \in Slot : HandlePost(s)
    BY <2>1, HandleKeeps
  <2>2. CASE \E s \in Slot, u \in Upload : ReceivePost(s, u)
    BY <2>2, ReceiveKeeps
  <2>3. CASE \E h \in Query : HandleGet(h)
    BY <2>3, GetKeeps
  <2>4. CASE PassTime
    BY <2>4, TimeKeeps
  <2>5. CASE UNCHANGED admissionVars
    BY <2>5, StutterKeeps
  <2> QED BY <2>1, <2>2, <2>3, <2>4, <2>5 DEF AdmissionNext
<1> QED BY NonceInit, <1>1, PTL DEF AdmissionSpec

\* Two requests with one nonce that are both let through are at least the TTL
\* apart, whatever requests are between their two steps.
THEOREM NoncesSingleUse == AdmissionSpec => []NonceSingleUse
<1>1. NonceInv => NonceSingleUse
  BY DEF NonceInv, NonceSingleUse, Spaced, Remembering
<1> QED BY <1>1, NonceInvariant, PTL

\* A request that a check refuses has spent no nonce.
THEOREM RefusalsSpendNothing == AdmissionSpec => []RefusedSpendsNothing
<1>1. NonceInv => RefusedSpendsNothing
  BY DEF NonceInv, RefusedSpendsNothing, Entry, Last
<1> QED BY <1>1, NonceInvariant, PTL

\* The nonce cache holds no more than one TTL's nonces.
THEOREM CacheStaysWithinTtl == AdmissionSpec => []CacheWithinTtl
<1>1. NonceInv => CacheWithinTtl
  BY DEF NonceInv
<1> QED BY <1>1, NonceInvariant, PTL

\* Through the handlers the limiter does nothing that it would not do alone, so
\* what RateLimiterProofs shows holds of the API process.
THEOREM AdmissionUsesLimiter == RateLimiting = TRUE /\ AdmissionSpec => Spec
<1> SUFFICES ASSUME RateLimiting = TRUE PROVE AdmissionSpec => Spec
  OBVIOUS
<1>1. AdmissionInit => Init
  BY DEF AdmissionInit
<1>2. [AdmissionNext]_admissionVars => [Next]_vars
  <2> SUFFICES ASSUME [AdmissionNext]_admissionVars PROVE [Next]_vars
    OBVIOUS
  <2>1. ASSUME NEW s \in Slot, NEW u \in Upload, ReceivePost(s, u) PROVE Next
    <3>1. <<"create", u.headers.client>> \in Key
      BY AdmissionAssumption DEF Post, Headers
    <3>2. Allow(<<"create", u.headers.client>>)
      BY <2>1 DEF ReceivePost, LimitRate
    <3> QED BY <3>1, <3>2 DEF Next
  <2>2. ASSUME NEW h \in Query, HandleGet(h) PROVE Next
    <3>1. <<"read", h.client>> \in Key
      BY AdmissionAssumption DEF Headers
    <3>2. Allow(<<"read", h.client>>)
      BY <2>2 DEF HandleGet, LimitRate
    <3> QED BY <3>1, <3>2 DEF Next
  <2>3. CASE \E s \in Slot : HandlePost(s)
    BY <2>3 DEF HandlePost, limiterVars, vars
  <2>4. CASE PassTime
    BY <2>4 DEF PassTime, Next
  <2>5. CASE UNCHANGED admissionVars
    BY <2>5 DEF admissionVars, vars
  <2> QED BY <2>1, <2>2, <2>3, <2>4, <2>5 DEF AdmissionNext
<1> QED BY <1>1, <1>2, PTL DEF AdmissionSpec, Spec

\* The handlers never let a window hold more than its limit.
THEOREM HandlersKeepLimit ==
    RateLimiting = TRUE /\ AdmissionSpec => []NeverTooMany
BY AdmissionUsesLimiter, AdmitsAtMostLimit

\* Nor does a deque grow past it.
THEOREM HandlersKeepBucketsSmall ==
    RateLimiting = TRUE /\ AdmissionSpec => []BucketBounded
BY AdmissionUsesLimiter, BucketsStaySmall
=============================================================================
