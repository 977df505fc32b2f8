------------------------- MODULE TimedJobStoreProofs -------------------------
(***************************************************************************)
(* Every key that TimedJobStore stores has an expiry within its TTL, for   *)
(* any TTLs and any number of jobs and clients; and its steps are those of *)
(* RedisJobStore, whose theorems carry over.                               *)
(***************************************************************************)
EXTENDS TimedJobStore, RedisJobStoreProofs

Positive == Nat \ {0}

-----------------------------------------------------------------------------
(***************************************************************************)
(* The refinement                                                          *)
(***************************************************************************)

\* Every timed command does to the store what the command does.
LEMMA CommandRefines ==
    ASSUME NEW c \in Client, TimedCommand(c)
    PROVE  Command(c) \/ UNCHANGED storeVars
<1>1. CASE TimedCreateSet(c) \/ TimedUpdateSet(c) \/ TimedHeatmapSet(c)
  BY <1>1 DEF TimedCreateSet, TimedUpdateSet, TimedHeatmapSet, Command
<1>2. CASE ReadTtl(c)
  BY <1>2 DEF ReadTtl
<1>3. CASE OtherCommand(c)
  BY <1>3 DEF OtherCommand, Command
<1> QED BY <1>1, <1>2, <1>3 DEF TimedCommand

\* Every timed step is a step of the store or leaves it alone.
LEMMA StepRefines == [TimedNext]_timedVars => [Next]_storeVars
<1> SUFFICES ASSUME [TimedNext]_timedVars PROVE [Next]_storeVars
  OBVIOUS
<1>1. ASSUME NEW c \in Client, TimedBegin(c) PROVE Begin(c)
  BY <1>1, TtlAssumption DEF TimedBegin, Begin
<1>2. ASSUME NEW c \in Client, TimedCommand(c) PROVE Command(c) \/ UNCHANGED storeVars
  BY <1>2, CommandRefines
<1>3. ASSUME NEW c \in Client, TimedAbandon(c) PROVE Abandon(c)
  BY <1>3 DEF TimedAbandon
<1>4. ASSUME NEW j \in Job, TimedExpireRow(j) \/ TimedExpireHeatmap(j) PROVE Expire(j)
  BY <1>4 DEF TimedExpireRow, TimedExpireHeatmap, Expire
<1>5. CASE Tick
  BY <1>5 DEF Tick
<1>6. CASE UNCHANGED timedVars
  BY <1>6 DEF timedVars, storeVars
<1> QED BY <1>1, <1>2, <1>3, <1>4, <1>5, <1>6 DEF TimedNext, Next

\* So the timed store does what the store may do.
LEMMA TimedRefines == TimedSpec => Spec
<1>1. TimedInit => Init
  BY DEF TimedInit
<1> QED BY <1>1, StepRefines, PTL DEF TimedSpec, Spec

\* Without a job TTL the index covers every row, if methods run to their end.
THEOREM TimedIndexComplete ==
    ASSUME JobTtl = 0, CallsMayFail = FALSE
    PROVE  TimedSpec => []IndexCovers
<1>1. ~(JobTtl > 0)
  OBVIOUS
<1>2. ~JobsExpire
  BY <1>1, TtlAssumption
<1>3. JobsExpire = FALSE
  BY <1>2, StoreAssumption, Zenon
<1> QED BY <1>3, TimedRefines, IndexComplete

-----------------------------------------------------------------------------
(***************************************************************************)
(* Expiry                                                                  *)
(***************************************************************************)

\* The reply of TTL never exceeds the seconds that the key was given.
LEMMA TtlAtMost ==
    ASSUME NEW ticks \in Int, NEW sec \in Nat, ticks <= sec * Second
    PROVE  Ttl(ticks) \in Int /\ Ttl(ticks) <= sec
<1> DEFINE p == sec * Second
<1>1. p \in Nat /\ Second \in Positive /\ ticks <= p
  BY TtlAssumption DEF Positive
<1>2. CASE ticks < 0
  BY <1>2 DEF Ttl
<1>3. CASE ~(ticks < 0)
  <2>1. 2 * ticks + Second \in Nat /\ 2 * ticks + Second < 2 * p + 2 * Second
    BY <1>1, <1>3 DEF Positive
  <2>2. 2 * p + 2 * Second = (2 * Second) * (sec + 1)
    <3>1. \A a, b \in Nat : 2 * (b * a) + 2 * a = (2 * a) * (b + 1)
      BY SMT
    <3> QED BY <3>1, <1>1 DEF Positive
  <2>3. ASSUME NEW a \in Nat, NEW k \in Positive, NEW b \in Nat, a < k * (b + 1)
        PROVE  a \div k \in Nat /\ a \div k <= b
    BY <2>3, SMTT(30) DEF Positive
  <2>4. 2 * Second \in Positive
    BY <1>1 DEF Positive
  <2> HIDE DEF p
  <2>5. (2 * ticks + Second) \div (2 * Second) \in Nat
        /\ (2 * ticks + Second) \div (2 * Second) <= sec
    BY <2>1, <2>2, <2>3, <2>4
  <2> QED BY <1>3, <2>5 DEF Ttl
<1> QED BY <1>2, <1>3

\* A SET for at most sec seconds keeps a key within them.
LEMMA LastingWithin ==
    ASSUME NEW sec \in Nat, NEW ex0 \in 1..sec
    PROVE  Lasting(ex0) \in 0..Lasting(sec) /\ Lasting(sec) = sec * Second
<1>1. Second \in Nat /\ Second > 0
  BY TtlAssumption
<1>2. \A a, b, s \in Nat : a <= b => a * s \in Nat /\ b * s \in Nat /\ a * s <= b * s
  BY SMT
<1>3. ex0 \in Nat /\ ex0 <= sec /\ ex0 > 0 /\ sec > 0
  OBVIOUS
<1>4. ex0 * Second \in Nat /\ sec * Second \in Nat /\ ex0 * Second <= sec * Second
  BY <1>1, <1>2, <1>3
<1>5. Lasting(ex0) = ex0 * Second /\ Lasting(sec) = sec * Second
  BY <1>3 DEF Lasting
<1> QED BY <1>4, <1>5

\* Time left is a whole number of ticks, or the reply for no expiry.
LEMMA LastingType == ASSUME NEW sec \in Int PROVE Lasting(sec) \in Int
BY TtlAssumption DEF Lasting, Forever

\* The replies that are no times are numbers, too.
LEMMA UnreadType == Unread \in Int /\ NoKey \in Int
BY DEF Unread, NoKey

\* What a client at its TTL has chosen is positive and within the TTL.
Chosen == JobsExpire => \A c \in Client : ex[c] = Unread \/ ex[c] \in 1..JobTtl

RowsTimed ==
    JobsExpire => \A j \in Job :
        /\ rowLeft[j] <= Lasting(JobTtl)
        /\ row[j] # None => rowLeft[j] \in 0..Lasting(JobTtl)

HeatmapsTimed ==
    HeatmapsExpire => \A j \in heatmap : heatmapLeft[j] \in 0..Lasting(HeatmapTtl)

TimeTyped ==
    /\ rowLeft \in [Job -> Int] /\ heatmapLeft \in [Job -> Int]
    /\ ex \in [Client -> Int]

TimeInv == TimeTyped /\ Chosen /\ RowsTimed /\ HeatmapsTimed

\* A TTL that is set lasts that many seconds.
LEMMA FullTtl ==
    /\ JobsExpire => /\ Lasting(JobTtl) \in Nat /\ Lasting(JobTtl) = JobTtl * Second
                     /\ JobTtl \in Nat /\ JobTtl > 0
    /\ HeatmapsExpire => Lasting(HeatmapTtl) \in Nat
<1>1. /\ JobTtl \in Nat /\ HeatmapTtl \in Nat /\ Second \in Nat
      /\ JobsExpire = (JobTtl > 0) /\ HeatmapsExpire = (HeatmapTtl > 0)
  BY TtlAssumption
<1>2. \A a, b \in Nat : a * b \in Nat
  BY SMT
<1> QED BY <1>1, <1>2 DEF Lasting

\* An empty store keeps nothing for ever.
LEMMA TimeInit == TimedInit => TimeInv
<1> SUFFICES ASSUME TimedInit PROVE TimeInv
  OBVIOUS
<1>1. TimeTyped /\ Chosen
  BY DEF TimedInit, TimeTyped, Chosen, NoKey, Unread
<1>2. RowsTimed /\ HeatmapsTimed
  BY FullTtl DEF TimedInit, Init, RowsTimed, HeatmapsTimed, NoKey
<1> QED BY <1>1, <1>2 DEF TimeInv

\* Commands that leave keys and clocks alone.
LEMMA QuietKeeps ==
    ASSUME TimeInv, UNCHANGED <<row, heatmap, left, ex>>
    PROVE  TimeInv'
BY DEF TimeInv, TimeTyped, Chosen, RowsTimed, HeatmapsTimed, left

\* create_job's SET gives a new row the full TTL and a duplicate nothing.
LEMMA CreateKeeps ==
    ASSUME TypeOK, TimeInv, NEW c \in Client, TimedCreateSet(c)
    PROVE  TimeInv'
<1> DEFINE j == call[c].job
<1>1. /\ UNCHANGED <<heatmap, heatmapLeft, ex>>
      /\ rowLeft' = [rowLeft EXCEPT ![j] = IF row[j] = None THEN Lasting(JobTtl) ELSE @]
      /\ \/ row[j] # None /\ row' = row
         \/ row[j] = None /\ row' = [row EXCEPT ![j] = call[c].data]
  BY DEF TimedCreateSet, CreateSet
<1>2. Lasting(JobTtl) \in Int
  BY LastingType, TtlAssumption
<1>3. TimeTyped'
  BY <1>1, <1>2 DEF TimeInv, TimeTyped
<1>4. Chosen' /\ HeatmapsTimed'
  BY <1>1 DEF TimeInv, Chosen, HeatmapsTimed
<1>5. ASSUME JobsExpire, NEW k \in Job
      PROVE  /\ rowLeft'[k] <= Lasting(JobTtl)
             /\ row'[k] # None => rowLeft'[k] \in 0..Lasting(JobTtl)
  <2>1. /\ rowLeft[k] <= Lasting(JobTtl)
        /\ row[k] # None => rowLeft[k] \in 0..Lasting(JobTtl)
    BY <1>5 DEF TimeInv, RowsTimed
  <2>2. CASE k = j /\ row[j] = None
    <3>1. rowLeft'[k] = Lasting(JobTtl)
      BY <1>1, <1>5, <2>2 DEF TimeInv, TimeTyped
    <3> QED BY <3>1, <1>5, FullTtl
  <2>3. CASE k # j
    <3>1. rowLeft'[k] = rowLeft[k] /\ row'[k] = row[k]
      BY <1>1, <1>5, <2>3 DEF TimeInv, TimeTyped, TypeOK
    <3> QED BY <3>1, <2>1
  <2>4. CASE k = j /\ row[j] # None
    <3>1. rowLeft'[k] = rowLeft[k] /\ row' = row
      BY <1>1, <1>5, <2>4 DEF TimeInv, TimeTyped
    <3> QED BY <3>1, <2>1
  <2> QED BY <2>2, <2>3, <2>4
<1> QED BY <1>3, <1>4, <1>5 DEF TimeInv, RowsTimed

\* Whatever TTL replies, what the client chooses is positive and within the TTL.
LEMMA ReadTtlKeeps ==
    ASSUME TypeInv, TimeInv, NEW c \in Client, ReadTtl(c)
    PROVE  TimeInv'
<1> DEFINE j == call[c].job
<1>1. j \in Job /\ ex' = [ex EXCEPT ![c] = UpdateExpiry(j)]
  BY DEF ReadTtl, TypeInv, FramesOK, FrameOK, InUpdate
<1>2. UNCHANGED <<row, heatmap, rowLeft, heatmapLeft>>
  BY DEF ReadTtl, storeVars, left
<1>3. rowLeft[j] \in Int
  BY <1>1 DEF TimeInv, TimeTyped
<1>4. Ttl(rowLeft[j]) \in Int
  BY <1>3, TtlAssumption DEF Ttl
<1>5. UpdateExpiry(j) \in Int
  BY <1>4, TtlAssumption DEF UpdateExpiry
<1>6. ASSUME JobsExpire PROVE UpdateExpiry(j) \in 1..JobTtl
  <2>1. JobTtl \in Nat /\ JobTtl > 0 /\ rowLeft[j] <= JobTtl * Second
    BY <1>1, <1>6, FullTtl DEF TimeInv, RowsTimed
  <2>2. Ttl(rowLeft[j]) <= JobTtl
    BY <2>1, <1>3, TtlAtMost
  <2> QED BY <1>4, <2>1, <2>2 DEF UpdateExpiry
<1>7. Chosen'
  BY <1>1, <1>6 DEF TimeInv, TimeTyped, Chosen
<1>8. TimeTyped'
  BY <1>1, <1>2, <1>5 DEF TimeInv, TimeTyped
<1> QED BY <1>2, <1>7, <1>8 DEF TimeInv, RowsTimed, HeatmapsTimed

\* update_job's SET gives the row the expiry that was chosen, which is never none.
LEMMA UpdateKeeps ==
    ASSUME TypeOK, TimeInv, NEW c \in Client, TimedUpdateSet(c)
    PROVE  TimeInv'
<1> DEFINE j == call[c].job
<1>1. /\ UNCHANGED <<heatmap, heatmapLeft>> /\ ex[c] # Unread
      /\ rowLeft' = [rowLeft EXCEPT ![j] = Lasting(ex[c])]
      /\ row' = [row EXCEPT ![j] = call[c].data]
      /\ ex' = [ex EXCEPT ![c] = Unread]
  BY DEF TimedUpdateSet, UpdateSet
<1>2. Lasting(ex[c]) \in Int
  BY LastingType DEF TimeInv, TimeTyped
<1>3. TimeTyped'
  <2>1. rowLeft' \in [Job -> Int]
    BY <1>1, <1>2 DEF TimeInv, TimeTyped
  <2>2. ex' \in [Client -> Int]
    BY <1>1, UnreadType DEF TimeInv, TimeTyped
  <2> QED BY <1>1, <2>1, <2>2 DEF TimeInv, TimeTyped
<1>4. Chosen' /\ HeatmapsTimed'
  BY <1>1 DEF TimeInv, TimeTyped, Chosen, HeatmapsTimed
<1>5. ASSUME JobsExpire, NEW k \in Job
      PROVE  /\ rowLeft'[k] <= Lasting(JobTtl)
             /\ row'[k] # None => rowLeft'[k] \in 0..Lasting(JobTtl)
  <2>1. CASE k = j
    <3>1. ex[c] \in 1..JobTtl /\ JobTtl \in Nat
      BY <1>1, <1>5, FullTtl DEF TimeInv, Chosen
    <3>2. rowLeft'[k] = Lasting(ex[c])
      BY <1>1, <1>5, <2>1 DEF TimeInv, TimeTyped
    <3> QED BY <3>1, <3>2, LastingWithin
  <2>2. CASE k # j
    <3>1. rowLeft'[k] = rowLeft[k] /\ row'[k] = row[k]
      BY <1>1, <1>5, <2>2 DEF TimeInv, TimeTyped, TypeOK
    <3> QED BY <3>1, <1>5 DEF TimeInv, RowsTimed
  <2> QED BY <2>1, <2>2
<1> QED BY <1>3, <1>4, <1>5 DEF TimeInv, RowsTimed

\* set_heatmap's SET gives the heatmap its full TTL.
LEMMA HeatmapKeeps ==
    ASSUME TypeInv, TimeInv, NEW c \in Client, TimedHeatmapSet(c)
    PROVE  TimeInv'
<1> DEFINE j == call[c].job
<1>1. /\ UNCHANGED <<row, rowLeft, ex>> /\ heatmap' = heatmap \cup {j}
      /\ heatmapLeft' = [heatmapLeft EXCEPT ![j] = Lasting(HeatmapTtl)]
  BY DEF TimedHeatmapSet, HeatmapSet
<1>2. j \in Job
  BY DEF TimedHeatmapSet, HeatmapSet, TypeInv, FramesOK, FrameOK
<1>3. Lasting(HeatmapTtl) \in Int
  BY LastingType, TtlAssumption
<1>4. TimeTyped'
  BY <1>1, <1>3 DEF TimeInv, TimeTyped
<1>5. Chosen' /\ RowsTimed'
  BY <1>1 DEF TimeInv, Chosen, RowsTimed
<1>6. ASSUME HeatmapsExpire, NEW k \in heatmap'
      PROVE  heatmapLeft'[k] \in 0..Lasting(HeatmapTtl)
  <2>1. CASE k = j
    <3>1. heatmapLeft'[k] = Lasting(HeatmapTtl)
      BY <1>1, <1>2, <2>1 DEF TimeInv, TimeTyped
    <3> QED BY <3>1, <1>6, FullTtl
  <2>2. CASE k # j
    <3>1. k \in heatmap /\ k \in Job
      BY <1>1, <1>6, <2>2 DEF TypeInv, TypeOK
    <3>2. heatmapLeft'[k] = heatmapLeft[k]
      BY <1>1, <2>2, <3>1 DEF TimeInv, TimeTyped
    <3> QED BY <3>1, <3>2, <1>6 DEF TimeInv, HeatmapsTimed
  <2> QED BY <2>1, <2>2
<1> QED BY <1>4, <1>5, <1>6 DEF TimeInv, HeatmapsTimed

\* A method that is cut short forgets what it chose.
LEMMA AbandonKeeps ==
    ASSUME TimeInv, NEW c \in Client, TimedAbandon(c)
    PROVE  TimeInv'
<1>1. /\ UNCHANGED <<row, heatmap, rowLeft, heatmapLeft>>
      /\ ex' = [ex EXCEPT ![c] = Unread]
  BY DEF TimedAbandon, Abandon, left
<1>2. TimeTyped'
  BY <1>1, UnreadType DEF TimeInv, TimeTyped
<1>3. Chosen'
  BY <1>1 DEF TimeInv, TimeTyped, Chosen
<1> QED BY <1>1, <1>2, <1>3 DEF TimeInv, RowsTimed, HeatmapsTimed

\* A key that is dropped leaves nothing that could stay.
LEMMA ExpiryKeeps ==
    ASSUME TypeOK, TimeInv, NEW j \in Job, TimedExpireRow(j) \/ TimedExpireHeatmap(j)
    PROVE  TimeInv'
<1>1. CASE TimedExpireRow(j)
  <2>1. /\ UNCHANGED <<heatmap, heatmapLeft, ex>>
        /\ rowLeft[j] = 0 /\ rowLeft' = [rowLeft EXCEPT ![j] = NoKey]
        /\ row' = [row EXCEPT ![j] = None]
    BY <1>1 DEF TimedExpireRow, ExpireRow
  <2>2. TimeTyped'
    BY <2>1, UnreadType DEF TimeInv, TimeTyped
  <2>3. Chosen' /\ HeatmapsTimed'
    BY <2>1 DEF TimeInv, Chosen, HeatmapsTimed
  <2>4. ASSUME JobsExpire, NEW k \in Job
        PROVE  /\ rowLeft'[k] <= Lasting(JobTtl)
               /\ row'[k] # None => rowLeft'[k] \in 0..Lasting(JobTtl)
    <3>1. CASE k = j
      <4>1. rowLeft'[k] = NoKey /\ row'[k] = None
        BY <2>1, <2>4, <3>1 DEF TimeInv, TimeTyped, TypeOK
      <4> QED BY <4>1, <2>4, FullTtl DEF NoKey
    <3>2. CASE k # j
      <4>1. rowLeft'[k] = rowLeft[k] /\ row'[k] = row[k]
        BY <2>1, <2>4, <3>2 DEF TimeInv, TimeTyped, TypeOK
      <4> QED BY <4>1, <2>4 DEF TimeInv, RowsTimed
    <3> QED BY <3>1, <3>2
  <2> QED BY <2>2, <2>3, <2>4 DEF TimeInv, RowsTimed
<1>2. CASE TimedExpireHeatmap(j)
  <2>1. /\ UNCHANGED <<row, rowLeft, ex>> /\ heatmap' = heatmap \ {j}
        /\ heatmapLeft' = [heatmapLeft EXCEPT ![j] = NoKey]
    BY <1>2 DEF TimedExpireHeatmap, ExpireHeatmap
  <2>2. TimeTyped'
    BY <2>1, UnreadType DEF TimeInv, TimeTyped
  <2>3. Chosen' /\ RowsTimed'
    BY <2>1 DEF TimeInv, Chosen, RowsTimed
  <2>4. \A k \in heatmap' : k \in heatmap /\ heatmapLeft'[k] = heatmapLeft[k]
    BY <2>1 DEF TimeInv, TimeTyped, TypeOK
  <2>5. HeatmapsTimed'
    BY <2>4 DEF TimeInv, HeatmapsTimed
  <2> QED BY <2>2, <2>3, <2>5 DEF TimeInv
<1> QED BY <1>1, <1>2

\* The clock stops at 0: a key that is due goes before time does.
LEMMA ShorterStays ==
    ASSUME NEW times \in [Job -> Int], NEW k \in Job, NEW most \in Int
    PROVE  /\ Shorter(times) \in [Job -> Int]
           /\ times[k] <= most => Shorter(times)[k] <= most
           /\ times[k] \in 0..most => Shorter(times)[k] \in 0..most
<1>1. Shorter(times)[k] = IF times[k] > 0 THEN times[k] - 1 ELSE times[k]
  BY DEF Shorter
<1>2. Shorter(times) \in [Job -> Int]
  BY DEF Shorter
<1>3. times[k] \in Int
  OBVIOUS
<1> QED BY <1>1, <1>2, <1>3

\* Time passes for the keys and for nothing else.
LEMMA TickKeeps == ASSUME TypeOK, TimeInv, Tick PROVE TimeInv'
<1>1. /\ UNCHANGED <<row, heatmap, ex>>
      /\ rowLeft' = Shorter(rowLeft) /\ heatmapLeft' = Shorter(heatmapLeft)
  BY DEF Tick, storeVars
<1>2. rowLeft \in [Job -> Int] /\ heatmapLeft \in [Job -> Int]
  BY DEF TimeInv, TimeTyped
<1>3. Shorter(rowLeft) \in [Job -> Int] /\ Shorter(heatmapLeft) \in [Job -> Int]
  BY <1>2 DEF Shorter
<1>4. TimeTyped' /\ Chosen'
  BY <1>1, <1>3 DEF TimeInv, TimeTyped, Chosen
<1>5. Lasting(JobTtl) \in Int /\ Lasting(HeatmapTtl) \in Int
  BY LastingType, TtlAssumption
<1>6. RowsTimed'
  BY <1>1, <1>2, <1>5, ShorterStays DEF TimeInv, RowsTimed
<1>7. HeatmapsTimed'
  BY <1>1, <1>2, <1>5, ShorterStays DEF TimeInv, HeatmapsTimed, TypeOK
<1> QED BY <1>4, <1>6, <1>7 DEF TimeInv

\* No step lets a key outstay its TTL.
LEMMA TimeNext == TypeInv /\ TimeInv /\ [TimedNext]_timedVars => TimeInv'
<1> SUFFICES ASSUME TypeInv, TimeInv, [TimedNext]_timedVars PROVE TimeInv'
  OBVIOUS
<1>1. TypeOK
  BY DEF TypeInv
<1>2. ASSUME NEW c \in Client, TimedBegin(c) \/ OtherCommand(c) PROVE TimeInv'
  <2>1. UNCHANGED <<row, heatmap>>
    BY <1>2 DEF TimedBegin, OtherCommand, CallCreate, CallUpdate, CallSetHeatmap,
        CallList, CreateZadd, UpdateGet, UpdateConfirm, ListZrange, ListMget, ListZrem
  <2>2. UNCHANGED <<left, ex>>
    BY <1>2 DEF TimedBegin, OtherCommand
  <2> QED BY <2>1, <2>2, QuietKeeps
<1>3. ASSUME NEW c \in Client, TimedCommand(c) PROVE TimeInv'
  BY <1>1, <1>2, <1>3, CreateKeeps, ReadTtlKeeps, UpdateKeeps, HeatmapKeeps
     DEF TimedCommand
<1>4. ASSUME NEW c \in Client, TimedAbandon(c) PROVE TimeInv'
  BY <1>4, AbandonKeeps
<1>5. ASSUME NEW j \in Job, TimedExpireRow(j) \/ TimedExpireHeatmap(j) PROVE TimeInv'
  BY <1>1, <1>5, ExpiryKeeps
<1>6. CASE Tick
  BY <1>1, <1>6, TickKeeps
<1>7. CASE UNCHANGED timedVars
  BY <1>7, QuietKeeps DEF timedVars, left
<1> QED BY <1>2, <1>3, <1>4, <1>5, <1>6, <1>7 DEF TimedNext

\* With a TTL configured no row and no heatmap stays in Redis for ever, nor
\* longer than its TTL: the expiry of an update is the time that was left, or the
\* full TTL when the row went between update_job's GET and its TTL command.
THEOREM KeysExpire == TimedSpec => []EveryKeyExpires
<1>1. TimedInit => TypeInv /\ TimeInv
  BY TypeInit, TimeInit DEF TimedInit
<1>2. TypeInv /\ [TimedNext]_timedVars => TypeInv'
  BY StepRefines, TypeNext
<1>3. TimeInv => EveryKeyExpires
  BY DEF TimeInv, RowsTimed, HeatmapsTimed, EveryKeyExpires
<1> QED BY <1>1, <1>2, <1>3, TimeNext, PTL DEF TimedSpec
=============================================================================
