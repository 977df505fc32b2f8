-------------------------- MODULE RateLimiterProofs --------------------------
(***************************************************************************)
(* The limiter keeps its promise for every set of keys and every limit,    *)
(* window and bound.  The deque of a key is the end of the list of its     *)
(* admissions, and what it has forgotten is too old to matter: with that,  *)
(* counting the deque and counting the history come to the same.           *)
(***************************************************************************)
EXTENDS RateLimiter, SequenceTheorems, WellFoundedInduction, TLAPS

-----------------------------------------------------------------------------
(* The while loop that pops the old events. *)

\* A set of naturals with an element has a least one.
LEMMA LeastNat ==
    ASSUME NEW T, T \subseteq Nat, T # {}
    PROVE  \E x \in T : \A y \in T : ~(y < x)
PROOF
<1> DEFINE R == OpToRel(<, Nat)
<1>1. IsWellFoundedOn(R, Nat)
  BY NatLessThanWellFounded
<1> HIDE DEF R
<1>2. PICK x \in T : \A y \in T : <<y, x>> \notin R
  BY <1>1, WFMin
<1>3. \A y \in T : y < x => <<y, x>> \in R
  BY DEF R, OpToRel
<1> QED BY <1>2, <1>3, Zenon

\* The loop stops, at the first event that is young enough.
LEMMA PopsStops ==
    ASSUME NEW bucket \in Seq(Nat), NEW cutoff \in Int
    PROVE  /\ Pops(bucket, cutoff) \in 0..Len(bucket)
           /\ \A i \in 1..Pops(bucket, cutoff) : bucket[i] <= cutoff
           /\ Pops(bucket, cutoff) < Len(bucket)
                => bucket[Pops(bucket, cutoff) + 1] > cutoff
PROOF
<1> DEFINE Stop(n) == n < Len(bucket) => bucket[n + 1] > cutoff
           T == {n \in 0..Len(bucket) : Stop(n)}
<1>1. Len(bucket) \in Nat /\ \A i \in 1..Len(bucket) : bucket[i] \in Nat
  BY LenProperties, ElementOfSeq
<1>2. Len(bucket) \in T /\ T \subseteq Nat
  BY <1>1
<1>3. PICK n \in T : \A m \in T : ~(m < n)
  BY <1>2, LeastNat, Zenon
<1>4. \A i \in 1..n : bucket[i] <= cutoff
  <2> SUFFICES ASSUME NEW i \in 1..n PROVE bucket[i] <= cutoff
    OBVIOUS
  <2>1. i - 1 \in 0..Len(bucket) /\ i - 1 < n /\ i \in 1..Len(bucket)
    BY <1>1
  <2>2. ~Stop(i - 1)
    BY <1>3, <2>1
  <2> QED BY <1>1, <2>1, <2>2
<1>5. \E m \in 0..Len(bucket) : (\A i \in 1..m : bucket[i] <= cutoff) /\ Stop(m)
  BY <1>3, <1>4
<1> QED BY <1>5, Zenon DEF Pops

\* What is left of the deque is its end.
LEMMA KeptIsEnd ==
    ASSUME NEW bucket \in Seq(Nat), NEW cutoff \in Int
    PROVE  LET n == Pops(bucket, cutoff)
               b == Kept(bucket, cutoff) IN
           /\ b \in Seq(Nat) /\ Len(b) = Len(bucket) - n
           /\ \A i \in 1..Len(b) : b[i] = bucket[n + i]
PROOF
<1> DEFINE n == Pops(bucket, cutoff)
<1>1. n \in 0..Len(bucket) /\ Len(bucket) \in Nat
  BY PopsStops, LenProperties
<1> HIDE DEF n
<1>2. \A i \in n + 1 .. Len(bucket) : bucket[i] \in Nat
  BY <1>1, ElementOfSeq
<1>3. /\ SubSeq(bucket, n + 1, Len(bucket)) \in Seq(Nat)
      /\ Len(SubSeq(bucket, n + 1, Len(bucket))) =
           IF n + 1 <= Len(bucket) THEN Len(bucket) - (n + 1) + 1 ELSE 0
      /\ \A i \in 1 .. Len(bucket) - (n + 1) + 1 :
            SubSeq(bucket, n + 1, Len(bucket))[i] = bucket[n + 1 + i - 1]
  BY <1>1, <1>2, SubSeqProperties
<1>4. Kept(bucket, cutoff) = SubSeq(bucket, n + 1, Len(bucket))
  BY DEF Kept, n
<1>5. Len(Kept(bucket, cutoff)) = Len(bucket) - n
  BY <1>1, <1>3, <1>4
<1>6. \A i \in 1..Len(Kept(bucket, cutoff)) : Kept(bucket, cutoff)[i] = bucket[n + i]
  BY <1>1, <1>3, <1>4, <1>5
<1> QED BY <1>3, <1>4, <1>5, <1>6 DEF n

-----------------------------------------------------------------------------
(* The deque and the history of one key. *)

\* At time t the deque b is the end of the history a of a key: what it has
\* forgotten is a window old, it is not longer than the limit, and no window
\* holds more than the limit.
Books(a, b, t, limit, window) ==
    /\ Len(b) <= Len(a) /\ Len(b) <= limit
    /\ \A i \in 1..Len(a) : a[i] <= t
    /\ \A i \in 1 .. Len(a) - Len(b) : a[i] <= t - window
    /\ \A i \in 1..Len(b) : b[i] = a[Len(a) - Len(b) + i]
    /\ \A i, j \in 1..Len(a) : i <= j => a[i] <= a[j]
    /\ \A i \in 1..Len(a) : i + limit <= Len(a) => a[i + limit] - a[i] >= window

\* The books stay right while time passes.
LEMMA BooksTick ==
    ASSUME NEW a \in Seq(Nat), NEW b \in Seq(Nat), NEW t \in Nat,
           NEW limit \in Int, NEW window \in Int, Books(a, b, t, limit, window)
    PROVE  Books(a, b, t + 1, limit, window)
PROOF
<1>1. Len(a) \in Nat /\ Len(b) \in Nat /\ \A i \in 1..Len(a) : a[i] \in Nat
  BY LenProperties, ElementOfSeq
<1> QED BY <1>1 DEF Books

\* The books stay right when the old events are popped.
LEMMA BooksKept ==
    ASSUME NEW a \in Seq(Nat), NEW b \in Seq(Nat), NEW t \in Nat,
           NEW limit \in Int, NEW window \in Int, Books(a, b, t, limit, window)
    PROVE  Books(a, Kept(b, t - window), t, limit, window)
PROOF
<1> DEFINE n == Pops(b, t - window)
           c == Kept(b, t - window)
<1>1. /\ Len(a) \in Nat /\ Len(b) \in Nat /\ t - window \in Int
      /\ \A i \in 1..Len(a) : a[i] \in Nat
  BY LenProperties, ElementOfSeq
<1>2. n \in 0..Len(b) /\ \A i \in 1..n : b[i] <= t - window
  BY <1>1, PopsStops
<1>3. /\ Len(c) = Len(b) - n
      /\ \A i \in 1..Len(c) : c[i] = b[n + i]
  BY <1>1, KeptIsEnd
<1> HIDE DEF n, c
<1>4. \A i \in 1..Len(b) : b[i] = a[Len(a) - Len(b) + i]
  BY DEF Books
<1>5. Len(c) <= Len(a) /\ Len(c) <= limit
  BY <1>1, <1>2, <1>3 DEF Books
<1>6. \A i \in 1 .. Len(a) - Len(c) : a[i] <= t - window
  <2> SUFFICES ASSUME NEW i \in 1 .. Len(a) - Len(c) PROVE a[i] <= t - window
    OBVIOUS
  <2>1. CASE i <= Len(a) - Len(b)
    BY <1>1, <1>2, <1>3, <2>1 DEF Books
  <2>2. CASE i > Len(a) - Len(b)
    <3> DEFINE m == i - (Len(a) - Len(b))
    <3>1. m \in 1..n /\ m \in 1..Len(b) /\ Len(a) - Len(b) + m = i
      BY <1>1, <1>2, <1>3, <2>2
    <3> QED BY <1>2, <1>4, <3>1
  <2> QED BY <1>1, <1>2, <1>3, <2>1, <2>2
<1>7. \A i \in 1..Len(c) : c[i] = a[Len(a) - Len(c) + i]
  <2> SUFFICES ASSUME NEW i \in 1..Len(c) PROVE c[i] = a[Len(a) - Len(c) + i]
    OBVIOUS
  <2>1. n + i \in 1..Len(b) /\ Len(a) - Len(b) + (n + i) = Len(a) - Len(c) + i
    BY <1>1, <1>2, <1>3
  <2> QED BY <1>3, <1>4, <2>1
<1>8. Books(a, c, t, limit, window)
  BY <1>5, <1>6, <1>7 DEF Books
<1> QED BY <1>8 DEF c

\* Room in the deque is room in the history.
LEMMA RoomIsRoom ==
    ASSUME NEW a \in Seq(Nat), NEW b \in Seq(Nat), NEW t \in Nat,
           NEW limit \in Int, NEW window \in Int, limit > 0,
           Books(a, b, t, limit, window)
    PROVE  LET c == Kept(b, t - window) IN
           Len(c) < limit <=>
             Len(a) < limit \/ a[Len(a) + 1 - limit] <= t - window
PROOF
<1> DEFINE n == Pops(b, t - window)
           c == Kept(b, t - window)
<1>1. /\ Len(a) \in Nat /\ Len(b) \in Nat /\ t - window \in Int
      /\ \A i \in 1..Len(a) : a[i] \in Nat
  BY LenProperties, ElementOfSeq
<1>2. n \in 0..Len(b) /\ (n < Len(b) => b[n + 1] > t - window)
  BY <1>1, PopsStops
<1>3. Len(c) = Len(b) - n /\ \A i \in 1..Len(c) : c[i] = b[n + i]
  BY <1>1, KeptIsEnd
<1>4. Books(a, c, t, limit, window)
  BY BooksKept
<1> HIDE DEF n, c
<1>5. CASE Len(c) < limit
  <2>1. Len(a) < limit \/ Len(a) + 1 - limit \in 1 .. Len(a) - Len(c)
    BY <1>1, <1>2, <1>3, <1>5
  <2> QED BY <1>4, <1>5, <2>1 DEF Books, c
<1>6. CASE ~(Len(c) < limit)
  <2>1. Len(c) = limit /\ 1 \in 1..Len(c) /\ Len(a) >= limit
    BY <1>1, <1>2, <1>3, <1>4, <1>6 DEF Books
  <2>2. c[1] = a[Len(a) - limit + 1]
    BY <1>4, <2>1 DEF Books
  <2>3. c[1] > t - window
    BY <1>1, <1>2, <1>3, <2>1
  <2>4. Len(a) - limit + 1 = Len(a) + 1 - limit /\ Len(a) + 1 - limit \in 1..Len(a)
    BY <1>1, <2>1
  <2>5. ~(a[Len(a) + 1 - limit] <= t - window)
    BY <1>1, <2>2, <2>3, <2>4
  <2> QED BY <1>1, <1>6, <2>1, <2>5 DEF c
<1> QED BY <1>5, <1>6

\* The books stay right when a request is admitted while there is room.
LEMMA BooksAppend ==
    ASSUME NEW a \in Seq(Nat), NEW b \in Seq(Nat), NEW t \in Nat,
           NEW limit \in Int, NEW window \in Int, limit > 0, window > 0,
           Books(a, b, t, limit, window), Len(b) < limit
    PROVE  Books(Append(a, t), Append(b, t), t, limit, window)
PROOF
<1> DEFINE x == Append(a, t)
           y == Append(b, t)
<1>1. Len(a) \in Nat /\ Len(b) \in Nat /\ \A i \in 1..Len(a) : a[i] \in Nat
  BY LenProperties, ElementOfSeq
<1>2. /\ Len(x) = Len(a) + 1 /\ x[Len(a) + 1] = t
      /\ \A i \in 1..Len(a) : x[i] = a[i]
  BY AppendProperties
<1>3. /\ Len(y) = Len(b) + 1 /\ y[Len(b) + 1] = t
      /\ \A i \in 1..Len(b) : y[i] = b[i]
  BY AppendProperties
<1> HIDE DEF x, y
<1>4. Len(y) <= Len(x) /\ Len(y) <= limit
  BY <1>1, <1>2, <1>3 DEF Books
<1>5. \A i \in 1..Len(x) : x[i] <= t
  BY <1>1, <1>2 DEF Books
<1>6. \A i \in 1 .. Len(x) - Len(y) : x[i] <= t - window
  <2>1. Len(x) - Len(y) = Len(a) - Len(b)
    BY <1>1, <1>2, <1>3
  <2>2. \A i \in 1 .. Len(a) - Len(b) : i \in 1..Len(a) /\ a[i] <= t - window
    BY <1>1 DEF Books
  <2> QED BY <1>2, <2>1, <2>2
<1>7. \A i \in 1..Len(y) : y[i] = x[Len(x) - Len(y) + i]
  <2> SUFFICES ASSUME NEW i \in 1..Len(y) PROVE y[i] = x[Len(x) - Len(y) + i]
    OBVIOUS
  <2>1. Len(x) - Len(y) + i = Len(a) - Len(b) + i
    BY <1>1, <1>2, <1>3
  <2>2. CASE i = Len(b) + 1
    BY <1>1, <1>2, <1>3, <2>1, <2>2
  <2>3. CASE i \in 1..Len(b)
    <3>1. Len(a) - Len(b) + i \in 1..Len(a)
      BY <1>1, <2>3 DEF Books
    <3> QED BY <1>2, <1>3, <2>1, <2>3, <3>1 DEF Books
  <2> QED BY <1>1, <1>3, <2>2, <2>3
<1>8. \A i, j \in 1..Len(x) : i <= j => x[i] <= x[j]
  <2> SUFFICES ASSUME NEW i \in 1..Len(x), NEW j \in 1..Len(x), i <= j
               PROVE  x[i] <= x[j]
    OBVIOUS
  <2>1. CASE j = Len(a) + 1
    BY <1>2, <1>5, <2>1
  <2>2. CASE i \in 1..Len(a) /\ j \in 1..Len(a)
    BY <1>2, <2>2 DEF Books
  <2> QED BY <1>1, <1>2, <2>1, <2>2
<1>9. \A i \in 1..Len(x) : i + limit <= Len(x) => x[i + limit] - x[i] >= window
  <2> SUFFICES ASSUME NEW i \in 1..Len(x), i + limit <= Len(x)
               PROVE  x[i + limit] - x[i] >= window
    OBVIOUS
  <2>1. i \in 1..Len(a)
    BY <1>1, <1>2
  <2>2. CASE i + limit = Len(x)
    <3>1. i \in 1 .. Len(a) - Len(b)
      BY <1>1, <1>2, <2>1, <2>2
    <3>2. a[i] <= t - window /\ a[i] \in Nat
      BY <1>1, <2>1, <3>1 DEF Books
    <3>3. x[i] = a[i] /\ x[i + limit] = t
      BY <1>1, <1>2, <2>1, <2>2
    <3> QED BY <3>2, <3>3
  <2>3. CASE i + limit # Len(x)
    <3>1. i + limit \in 1..Len(a) /\ i + limit <= Len(a)
      <4>1. i + limit <= Len(a) + 1 /\ i + limit # Len(a) + 1
        BY <1>2, <2>3
      <4>2. i \in Nat /\ i >= 1 /\ Len(a) \in Nat
        BY <1>1
      <4> QED BY <4>1, <4>2
    <3>2. \A m \in 1..Len(a) : m + limit <= Len(a) => a[m + limit] - a[m] >= window
      BY DEF Books
    <3>3. x[i] = a[i] /\ x[i + limit] = a[i + limit]
      BY <1>2, <2>1, <3>1
    <3> QED BY <2>1, <3>1, <3>2, <3>3
  <2> QED BY <2>2, <2>3
<1>10. Books(x, y, t, limit, window)
  BY <1>4, <1>5, <1>6, <1>7, <1>8, <1>9 DEF Books
<1> QED BY <1>10 DEF x, y

-----------------------------------------------------------------------------
(* The specification. *)

\* The inductive invariant: the books of every limited key are right.
Inv ==
    /\ TypeOK
    /\ \A k \in Key : Limited(k) =>
          Books(admitted[k], events[k], now, Limit[k], Window[k])

\* An unknown key has an empty deque and an empty history.
LEMMA InvInit == Init => Inv
PROOF
<1> SUFFICES ASSUME Init PROVE Inv
  OBVIOUS
<1>1. TypeOK
  BY DEF Init, TypeOK
<1>2. \A limit, window \in Int : limit > 0 => Books(<<>>, <<>>, 0, limit, window)
  BY DEF Books
<1>3. ASSUME NEW k \in Key, Limited(k)
      PROVE  Books(admitted[k], events[k], now, Limit[k], Window[k])
  <2>1. Limit[k] \in Int /\ Window[k] \in Int /\ Limit[k] > 0
    BY <1>3, LimitAssumption DEF Limited
  <2>2. admitted[k] = <<>> /\ events[k] = <<>> /\ now = 0
    BY DEF Init
  <2> QED BY <1>2, <2>1, <2>2
<1> QED BY <1>1, <1>3 DEF Inv

\* What a call does to its own key, and that it leaves the others alone.
LEMMA AllowMoves ==
    ASSUME Inv, NEW k \in Key, Allow(k)
    PROVE  /\ now' = now /\ answer' \in {"allowed", "refused"}
           /\ events'[k] \in Seq(Nat) /\ admitted'[k] \in Seq(Nat)
           /\ events' = [events EXCEPT ![k] = events'[k]]
           /\ admitted' = [admitted EXCEPT ![k] = admitted'[k]]
           /\ Limited(k) => Books(admitted'[k], events'[k], now, Limit[k], Window[k])
PROOF
<1>1. /\ now \in Nat /\ events[k] \in Seq(Nat) /\ admitted[k] \in Seq(Nat)
      /\ Limit[k] \in Int /\ Window[k] \in Int
  BY LimitAssumption DEF Inv, TypeOK
<1>2. Append(admitted[k], now) \in Seq(Nat)
  BY <1>1, AppendProperties
<1>3. CASE AllowUnlimited(k)
  <2>1. ~Limited(k)
    BY <1>1, <1>3 DEF AllowUnlimited, Limited
  <2>2. events' = events /\ now' = now /\ answer' = "allowed"
        /\ admitted' = [admitted EXCEPT ![k] = Append(admitted[k], now)]
    BY <1>3 DEF AllowUnlimited, Record
  <2> QED BY <1>1, <1>2, <2>1, <2>2 DEF Inv, TypeOK
<1>4. CASE AllowLimited(k)
  <2> DEFINE bucket == Kept(events[k], now - Window[k])
  <2>1. Limited(k) /\ now - Window[k] \in Int
    BY <1>1, <1>4 DEF AllowLimited, Limited
  <2>2. bucket \in Seq(Nat) /\ Len(bucket) \in Nat
    BY <1>1, <2>1, KeptIsEnd, LenProperties
  <2>3. Books(admitted[k], bucket, now, Limit[k], Window[k])
    BY <1>1, <2>1, BooksKept DEF Inv
  <2>4. Append(bucket, now) \in Seq(Nat)
    BY <1>1, <2>2, AppendProperties
  <2>5. Limit[k] > 0 /\ Window[k] > 0
    BY <2>1 DEF Limited
  <2>6. now' = now
    BY <1>4 DEF AllowLimited
  <2>7. CASE Len(bucket) >= Limit[k]
    <3>1. /\ events' = [events EXCEPT ![k] = bucket]
          /\ admitted' = admitted /\ answer' = "refused"
      BY <1>4, <2>7 DEF AllowLimited
    <3>2. events'[k] = bucket /\ admitted'[k] = admitted[k]
      BY <3>1 DEF Inv, TypeOK
    <3> QED BY <1>1, <2>2, <2>3, <2>6, <3>1, <3>2 DEF Inv, TypeOK
  <2>8. CASE ~(Len(bucket) >= Limit[k])
    <3>1. /\ events' = [events EXCEPT ![k] = Append(bucket, now)]
          /\ admitted' = [admitted EXCEPT ![k] = Append(admitted[k], now)]
          /\ answer' = "allowed"
      BY <1>4, <2>8 DEF AllowLimited, Record
    <3>2. events'[k] = Append(bucket, now) /\ admitted'[k] = Append(admitted[k], now)
      BY <3>1 DEF Inv, TypeOK
    <3>3. Len(bucket) < Limit[k]
      BY <1>1, <2>2, <2>8
    <3>4. Books(admitted'[k], events'[k], now, Limit[k], Window[k])
      BY <1>1, <2>2, <2>3, <2>5, <3>2, <3>3, BooksAppend
    <3> QED BY <1>2, <2>4, <2>6, <3>1, <3>2, <3>4
  <2> QED BY <2>7, <2>8
<1> QED BY <1>3, <1>4 DEF Allow

\* The clock and every call keep the books of every key right.
LEMMA InvNext == Inv /\ [Next]_vars => Inv'
PROOF
<1> SUFFICES ASSUME Inv, [Next]_vars PROVE Inv'
  OBVIOUS
<1>1. CASE Tick
  <2>1. now' = now + 1 /\ events' = events /\ admitted' = admitted /\ answer' = answer
    BY <1>1 DEF Tick
  <2>2. TypeOK'
    BY <2>1 DEF Inv, TypeOK
  <2>3. ASSUME NEW k \in Key, Limited(k)
        PROVE  Books(admitted[k], events[k], now + 1, Limit[k], Window[k])
    <3>1. /\ now \in Nat /\ events[k] \in Seq(Nat) /\ admitted[k] \in Seq(Nat)
          /\ Limit[k] \in Int /\ Window[k] \in Int
      BY LimitAssumption DEF Inv, TypeOK
    <3> QED BY <2>3, <3>1, BooksTick DEF Inv
  <2> QED BY <2>1, <2>2, <2>3 DEF Inv, Limited
<1>2. ASSUME NEW k \in Key, Allow(k)
      PROVE  Inv'
  <2>1. TypeOK'
    BY <1>2, AllowMoves DEF Inv, TypeOK
  <2>2. ASSUME NEW h \in Key, Limited(h)
        PROVE  Books(admitted'[h], events'[h], now', Limit[h], Window[h])
    <3>1. CASE h = k
      BY <1>2, <2>2, <3>1, AllowMoves
    <3>2. CASE h # k
      <4>1. admitted'[h] = admitted[h] /\ events'[h] = events[h] /\ now' = now
        BY <1>2, <3>2, AllowMoves DEF Inv, TypeOK
      <4> QED BY <2>2, <4>1 DEF Inv
    <3> QED BY <3>1, <3>2
  <2> QED BY <2>1, <2>2 DEF Inv, Limited
<1>3. CASE UNCHANGED vars
  BY <1>3 DEF vars, Inv, TypeOK, Limited
<1> QED BY <1>1, <1>2, <1>3 DEF Next

\* The clock, the deques and the history keep their types.
THEOREM TypeCorrect == Spec => []TypeOK
PROOF
<1>1. Inv => TypeOK
  BY DEF Inv
<1> QED BY InvInit, InvNext, <1>1, PTL DEF Spec

\* allow() never lets more than Limit[k] requests through in a window.
THEOREM AdmitsAtMostLimit == Spec => []NeverTooMany
PROOF
<1>1. Inv => NeverTooMany
  BY DEF Inv, Books, NeverTooMany
<1> QED BY InvInit, InvNext, <1>1, PTL DEF Spec

\* A deque never holds more than Limit[k] events.
THEOREM BucketsStaySmall == Spec => []BucketBounded
PROOF
<1>1. Inv => BucketBounded
  BY DEF Inv, Books, BucketBounded
<1> QED BY InvInit, InvNext, <1>1, PTL DEF Spec

-----------------------------------------------------------------------------
(* The limiter implements the sliding window. *)

\* A call of allow() is an admission when a window has room, else a refusal.
LEMMA AllowRefines ==
    ASSUME Inv, NEW k \in Key, Allow(k)
    PROVE  Abstract!Admit(k) \/ Abstract!Refuse(k)
PROOF
<1>1. /\ now \in Nat /\ events[k] \in Seq(Nat) /\ admitted[k] \in Seq(Nat)
      /\ Limit[k] \in Int /\ Window[k] \in Int
  BY LimitAssumption DEF Inv, TypeOK
<1>2. CASE AllowUnlimited(k)
  BY <1>1, <1>2 DEF AllowUnlimited, Record, Abstract!Admit, Abstract!Limited
<1>3. CASE AllowLimited(k)
  <2> DEFINE bucket == Kept(events[k], now - Window[k])
  <2>1. Limited(k) /\ Limit[k] > 0 /\ now - Window[k] \in Int
    BY <1>1, <1>3 DEF AllowLimited, Limited
  <2>2. Len(bucket) \in Nat
    BY <1>1, <2>1, KeptIsEnd, LenProperties
  <2>3. Len(bucket) < Limit[k] <=> Abstract!HasRoom(k)
    BY <1>1, <2>1, RoomIsRoom DEF Inv, Abstract!HasRoom
  <2>4. CASE Len(bucket) >= Limit[k]
    BY <1>1, <1>3, <2>1, <2>2, <2>3, <2>4
       DEF AllowLimited, Limited, Abstract!Refuse, Abstract!Limited
  <2>5. CASE ~(Len(bucket) >= Limit[k])
    BY <1>1, <1>3, <2>2, <2>3, <2>5 DEF AllowLimited, Record, Abstract!Admit
  <2> QED BY <2>4, <2>5
<1> QED BY <1>2, <1>3 DEF Allow

\* The limiter admits a request exactly when the whole history says that a
\* window has room, though it keeps only the last Limit[k] times.
THEOREM LimiterImplementsWindow == Spec => ImplementsWindow
PROOF
<1>1. Init => Abstract!Init
  BY DEF Init, Abstract!Init
<1>2. Inv /\ [Next]_vars => [Abstract!Next]_<<now, admitted, answer>>
  <2> SUFFICES ASSUME Inv, [Next]_vars
               PROVE  [Abstract!Next]_<<now, admitted, answer>>
    OBVIOUS
  <2>1. CASE Tick
    BY <2>1 DEF Tick, Abstract!Next, Abstract!Tick
  <2>2. ASSUME NEW k \in Key, Allow(k)
        PROVE  Abstract!Next
    BY <2>2, AllowRefines DEF Abstract!Next
  <2>3. CASE UNCHANGED vars
    BY <2>3 DEF vars
  <2> QED BY <2>1, <2>2, <2>3 DEF Next
<1> QED BY InvInit, InvNext, <1>1, <1>2, PTL DEF Spec, ImplementsWindow, Abstract!Spec
=============================================================================
