----------------------------- MODULE RateLimiter -----------------------------
(***************************************************************************)
(* app/core/rate_limit.py: InMemoryRateLimiter, as create and read         *)
(* handlers use it in one API process.  The handlers that call it are      *)
(* coroutines of one event loop and the call awaits nothing, so a call is  *)
(* one step; the clock moves between calls.                                *)
(***************************************************************************)
EXTENDS Integers, Sequences

CONSTANTS
    Key,      \* a bucket ("create" or "read") and a client address
    Limit,    \* Limit[k]: COMPARE_RATE_LIMIT_..._LIMIT
    Window,   \* Window[k]: COMPARE_RATE_LIMIT_..._WINDOW_SEC
    MaxTime,  \* bound on the clock
    MaxCalls  \* bound on the admitted requests of a key

ASSUME LimitAssumption == Limit \in [Key -> Int] /\ Window \in [Key -> Int]

VARIABLES
    now,       \* time.monotonic()
    events,    \* events[k]: the deque of the key, empty if the key is unknown
    admitted,  \* history: when each admitted request under k came
    answer     \* what the last call returned

vars == <<now, events, admitted, answer>>

Init ==
    /\ now = 0
    /\ events = [k \in Key |-> <<>>]
    /\ admitted = [k \in Key |-> <<>>]
    /\ answer = "none"

\* Deviation: an event exactly a window old is kept.
PopsYounger(bucket, cutoff) ==
    CHOOSE n \in 0..Len(bucket) :
        /\ \A i \in 1..n : bucket[i] < cutoff
        /\ n < Len(bucket) => bucket[n + 1] >= cutoff

\* How many events the while loop pops: it stops at the first one that is
\* younger than the cutoff.
Pops(bucket, cutoff) ==
    CHOOSE n \in 0..Len(bucket) :
        /\ \A i \in 1..n : bucket[i] <= cutoff
        /\ n < Len(bucket) => bucket[n + 1] > cutoff

Kept(bucket, cutoff) == SubSeq(bucket, Pops(bucket, cutoff) + 1, Len(bucket))

Record(k) ==
    /\ admitted' = [admitted EXCEPT ![k] = Append(@, now)]
    /\ answer' = "allowed"

\* A limit or a window that is not positive switches the limiter off.
AllowUnlimited(k) ==
    /\ Limit[k] <= 0 \/ Window[k] <= 0
    /\ Record(k)
    /\ UNCHANGED <<now, events>>

\* Deviation: the cutoff is remembered in place of the time.
AllowLimitedCutoff(k) ==
    LET bucket == Kept(events[k], now - Window[k]) IN
    /\ Limit[k] > 0 /\ Window[k] > 0
    /\ Len(bucket) < Limit[k]
    /\ events' = [events EXCEPT ![k] = Append(bucket, now - Window[k])]
    /\ Record(k)
    /\ UNCHANGED now

\* Deviation: one too many.
AllowLimitedOneMore(k) ==
    LET bucket == Kept(events[k], now - Window[k]) IN
    /\ Limit[k] > 0 /\ Window[k] > 0
    /\ Len(bucket) <= Limit[k]
    /\ events' = [events EXCEPT ![k] = Append(bucket, now)]
    /\ Record(k)
    /\ UNCHANGED now

\* Deviation: refused requests count, too.
AllowLimitedCountAll(k) ==
    LET bucket == Kept(events[k], now - Window[k]) IN
    /\ Limit[k] > 0 /\ Window[k] > 0
    /\ events' = [events EXCEPT ![k] = Append(bucket, now)]
    /\ IF Len(bucket) >= Limit[k]
       THEN answer' = "refused" /\ UNCHANGED admitted
       ELSE Record(k)
    /\ UNCHANGED now

AllowLimited(k) ==
    LET bucket == Kept(events[k], now - Window[k]) IN
    /\ Limit[k] > 0 /\ Window[k] > 0
    /\ IF Len(bucket) >= Limit[k]
       THEN /\ events' = [events EXCEPT ![k] = bucket]
            /\ answer' = "refused"
            /\ UNCHANGED admitted
       ELSE /\ events' = [events EXCEPT ![k] = Append(bucket, now)]
            /\ Record(k)
    /\ UNCHANGED now

Allow(k) == Len(admitted[k]) < MaxCalls /\ (AllowUnlimited(k) \/ AllowLimited(k))

Tick == now < MaxTime /\ now' = now + 1 /\ UNCHANGED <<events, admitted, answer>>

Next == Tick \/ \E k \in Key : Allow(k)

Spec == Init /\ [][Next]_vars

-----------------------------------------------------------------------------
TypeOK ==
    /\ now \in Nat
    /\ events \in [Key -> Seq(Nat)]
    /\ admitted \in [Key -> Seq(Nat)]
    /\ answer \in {"none", "allowed", "refused"}

Limited(k) == Limit[k] > 0 /\ Window[k] > 0

\* No window of Window[k] ticks holds more than Limit[k] admitted requests.
NeverTooMany ==
    \A k \in Key : Limited(k) =>
        \A i \in 1..Len(admitted[k]) :
            i + Limit[k] <= Len(admitted[k]) =>
                admitted[k][i + Limit[k]] - admitted[k][i] >= Window[k]

\* A deque never grows past the limit, however long the service runs.
BucketBounded == \A k \in Key : Limited(k) => Len(events[k]) <= Limit[k]

\* The deque decides as the whole history would: the limiter admits whenever a
\* window has room and only then.
Abstract == INSTANCE SlidingWindow
ImplementsWindow == Abstract!Spec
=============================================================================
