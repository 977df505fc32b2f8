---------------------------- MODULE TimedJobStore ----------------------------
(***************************************************************************)
(* RedisJobStore with the time its keys have left.  RedisJobStore lets a   *)
(* key expire at any moment; here it expires when its time is over, every  *)
(* SET says what that time is, and update_job asks for it with a TTL       *)
(* command of its own between its GET and its SET.                         *)
(*                                                                         *)
(* Time left is counted as PTTL counts it, in ticks.  There is no absolute *)
(* clock, so the state space is finite without a bound on time.            *)
(*                                                                         *)
(* Each action is one of the store's with what it does to the times, so    *)
(* that what is proved of RedisJobStore carries over.                      *)
(***************************************************************************)
EXTENDS RedisJobStore, Integers

CONSTANTS
    JobTtl,     \* JOB_TTL_SEC, at least 0
    HeatmapTtl, \* HEATMAP_TTL_SEC, at least 0
    Second,     \* ticks in a second
    Updates     \* bound: the fields that clients update, beside has_heatmap

ASSUME TtlAssumption ==
    /\ JobTtl \in Nat /\ HeatmapTtl \in Nat /\ Second \in Nat \ {0}
    /\ JobsExpire = (JobTtl > 0) /\ HeatmapsExpire = (HeatmapTtl > 0)
    /\ Updates \subseteq Fields \ {Heatmap}

VARIABLES
    rowLeft,     \* rowLeft[j]: ticks that j's row has left
    heatmapLeft, \* heatmapLeft[j]: ticks that j's heatmap has left
    ex           \* ex[c]: the expiry, in seconds, that c's next SET will carry

timedVars == <<row, index, heatmap, call, rowLeft, heatmapLeft, ex>>
left == <<rowLeft, heatmapLeft>>

-----------------------------------------------------------------------------
\* The replies of Redis for a key that is not there, and one without expiry.
NoKey == -2
Forever == -1
\* No expiry chosen; 0 is the choice of ex=None.
Unread == -1

\* EX counts in seconds; without it a key has no expiry.
Lasting(sec) == IF sec > 0 THEN sec * Second ELSE Forever

\* TTL rounds to the nearest second, so it says 0 when less than half a second
\* is left.
Ttl(ticks) == IF ticks < 0 THEN ticks ELSE (2 * ticks + Second) \div (2 * Second)

\* Deviation: only the time that is left, no default.
OnlyTimeLeft(j) == LET ttl == Ttl(rowLeft[j]) IN IF ttl > 0 THEN ttl ELSE 0

\* The expiry of an update: the time the row has left, else the full TTL.
UpdateExpiry(j) == LET ttl == Ttl(rowLeft[j]) IN IF ttl > 0 THEN ttl ELSE JobTtl

\* Redis drops a key that is due before it serves another command.
SomeDue == \E j \in Job : rowLeft[j] = 0 \/ heatmapLeft[j] = 0

TimedInit ==
    /\ Init
    /\ rowLeft = [j \in Job |-> NoKey]
    /\ heatmapLeft = [j \in Job |-> NoKey]
    /\ ex = [c \in Client |-> Unread]

-----------------------------------------------------------------------------
TimedCreateSet(c) ==
    LET j == call[c].job IN
    /\ CreateSet(c)
    /\ rowLeft' = [rowLeft EXCEPT ![j] = IF row[j] = None THEN Lasting(JobTtl) ELSE @]
    /\ UNCHANGED <<heatmapLeft, ex>>

ReadTtl(c) ==
    /\ call[c].at = "update_set" /\ ex[c] = Unread
    /\ ex' = [ex EXCEPT ![c] = UpdateExpiry(call[c].job)]
    /\ UNCHANGED <<storeVars, left>>

TimedUpdateSet(c) ==
    /\ ex[c] # Unread
    /\ UpdateSet(c)
    /\ rowLeft' = [rowLeft EXCEPT ![call[c].job] = Lasting(ex[c])]
    /\ ex' = [ex EXCEPT ![c] = Unread]
    /\ UNCHANGED heatmapLeft

TimedHeatmapSet(c) ==
    /\ HeatmapSet(c)
    /\ heatmapLeft' = [heatmapLeft EXCEPT ![call[c].job] = Lasting(HeatmapTtl)]
    /\ UNCHANGED <<rowLeft, ex>>

\* The commands that neither set a key nor ask for its time.
OtherCommand(c) ==
    /\ \/ CreateZadd(c) \/ UpdateGet(c) \/ UpdateConfirm(c)
       \/ ListZrange(c) \/ ListMget(c) \/ ListZrem(c)
    /\ UNCHANGED <<left, ex>>

TimedBegin(c) ==
    /\ \/ \E j \in Job, m \in Metric : CallCreate(c, j, m)
       \/ \E j \in Job, fields \in Updates : CallUpdate(c, j, fields)
       \/ \E j \in Job : CallSetHeatmap(c, j)
       \/ CallList(c)
    /\ UNCHANGED <<left, ex>>

TimedAbandon(c) ==
    /\ Abandon(c)
    /\ ex' = [ex EXCEPT ![c] = Unread]
    /\ UNCHANGED left

-----------------------------------------------------------------------------
TimedExpireRow(j) ==
    /\ rowLeft[j] = 0
    /\ ExpireRow(j)
    /\ rowLeft' = [rowLeft EXCEPT ![j] = NoKey]
    /\ UNCHANGED <<heatmapLeft, ex>>

TimedExpireHeatmap(j) ==
    /\ heatmapLeft[j] = 0
    /\ ExpireHeatmap(j)
    /\ heatmapLeft' = [heatmapLeft EXCEPT ![j] = NoKey]
    /\ UNCHANGED <<rowLeft, ex>>

Shorter(times) == [j \in Job |-> IF times[j] > 0 THEN times[j] - 1 ELSE times[j]]

\* The clock only matters while some key has an expiry.
Tick ==
    /\ ~SomeDue
    /\ \E j \in Job : rowLeft[j] > 0 \/ heatmapLeft[j] > 0
    /\ rowLeft' = Shorter(rowLeft) /\ heatmapLeft' = Shorter(heatmapLeft)
    /\ UNCHANGED <<storeVars, ex>>

TimedCommand(c) ==
    \/ TimedCreateSet(c) \/ ReadTtl(c) \/ TimedUpdateSet(c) \/ TimedHeatmapSet(c)
    \/ OtherCommand(c)

TimedNext ==
    \/ \E c \in Client : ~SomeDue /\ (TimedBegin(c) \/ TimedCommand(c) \/ TimedAbandon(c))
    \/ \E j \in Job : TimedExpireRow(j) \/ TimedExpireHeatmap(j)
    \/ Tick

TimedSpec == TimedInit /\ [][TimedNext]_timedVars

-----------------------------------------------------------------------------
\* Nothing stays in Redis for ever once a TTL is configured: whatever was read
\* between an update's GET and its SET, and whether or not the row was still
\* there, every row and heatmap has an expiry within its TTL.
EveryKeyExpires ==
    \A j \in Job :
        /\ JobsExpire /\ row[j] # None => rowLeft[j] \in 0..Lasting(JobTtl)
        /\ HeatmapsExpire /\ j \in heatmap => heatmapLeft[j] \in 0..Lasting(HeatmapTtl)
=============================================================================
