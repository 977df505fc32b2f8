-------------------------- MODULE JobLifecycleProofs --------------------------
(***************************************************************************)
(* What the rows say: a refused job never runs, a finished one is complete *)
(* and stays as it is, and a job has the life that JobLifecycle promises.  *)
(*                                                                         *)
(* update_job reads, merges and writes without a lock.  Everything here    *)
(* rests on module JobCustodyProofs: one pair of hands writes a row, so    *)
(* what a client has read is what it replaces.                             *)
(***************************************************************************)
EXTENDS JobCustodyProofs

-----------------------------------------------------------------------------
(***************************************************************************)
(* Only the owner of a job writes its row                                  *)
(***************************************************************************)

\* A row comes from the handler that creates it, or from the SET of an update.
LEMMA RowWriter ==
    ASSUME Once, TypeInv, RowsInv, OneInv, NEW c \in Client, Store!Command(c),
           NEW j \in Job, row'[j] # row[j]
    PROVE  \/ /\ c \in Request /\ post[c] = "creating" /\ JobOf[c] = j /\ row[j] = None
              /\ row'[j] = Store!NewRow(MetricOf[c]) /\ call'[c].at = "create_zadd"
           \/ /\ c \in Request /\ post[c] = "failing" /\ JobOf[c] = j
              /\ Sets(c) /\ row'[j] = call[c].data
           \/ /\ c \in Worker /\ task[c].at \in Updating /\ JobAt(c) = j
              /\ Sets(c) /\ row'[j] = call[c].data
<1>1. row \in [Job -> Store!Row \cup {None}]
  BY StoreTyped DEF Store!TypeOK
<1>2. CASE c \in Worker /\ task[c].at \in Updating /\ call[c].job = JobAt(c) /\ Sets(c)
  BY <1>1, <1>2 DEF Sets
<1>3. CASE c \in Request /\ post[c] = "failing" /\ call[c].job = JobOf[c] /\ Sets(c)
  BY <1>1, <1>3 DEF Sets
<1>4. CASE /\ c \in Request /\ post[c] = "creating" /\ call[c].job = JobOf[c]
           /\ call[c].at = "create_set" => call[c].data = Store!NewRow(MetricOf[c])
           /\ Creates(c)
  BY <1>1, <1>4 DEF Creates, At
<1>5. ~UNCHANGED row
  OBVIOUS
<1> QED BY <1>2, <1>3, <1>4, <1>5, CommandOf DEF Updates, Gets, Confirms, Draws, Indexes, Lists

\* Nobody else has that job, so nobody else's knowledge of a row goes stale.
LEMMA OthersElsewhere ==
    ASSUME Once, TypeInv, RowsInv, OneInv, NEW c \in Client, Store!Command(c),
           NEW j \in Job, row'[j] # row[j]
    PROVE  /\ \A m \in Message : queue[m] > 0 => JobOf[m.request] # j
           /\ \A w \in Worker \ {c} : Executing(task[w]) => JobAt(w) # j
           /\ \A r \in Request \ {c} : HasIt(r) /\ JobOf[r] = j => post[r] = "accepted"
<1>1. CASE row[j] = None
  <2>1. \A r \in Request : HasIt(r) => JobOf[r] # j
    BY <1>1 DEF RowsInv, HasRow
  <2>2. \A m \in Message : queue[m] > 0 => JobOf[m.request] # j
    BY <1>1 DEF RowsInv, HasRow
  <2>3. \A w \in Worker : task[w].at # "idle" => JobAt(w) # j
    BY <1>1 DEF RowsInv, HasRow
  <2> QED BY <2>1, <2>2, <2>3 DEF Executing
<1>2. CASE c \in Request /\ post[c] = "failing" /\ JobOf[c] = j
  <2>1. \A r \in Request : HasIt(r) /\ JobOf[r] = j => r = c
    BY <1>2 DEF OneInv, HasIt
  <2>2. \A m \in Message : queue[m] > 0 => JobOf[m.request] # j
    BY <1>2, <2>1 DEF OneInv, Message, HasIt
  <2>3. \A w \in Worker : task[w].at # "idle" => JobAt(w) # j
    BY <1>2, <2>1, JobsTyped DEF OneInv, HasIt, JobAt
  <2> QED BY <2>1, <2>2, <2>3 DEF Executing
<1>3. CASE c \in Worker /\ task[c].at \in Updating /\ JobAt(c) = j
  <2> DEFINE q == task[c].msg.request
  <2>1. q \in Request /\ post[q] = "accepted" /\ JobOf[q] = j /\ Executing(task[c])
    BY <1>3, JobsTyped DEF Updating, OneInv, JobAt, Executing
  <2>2. \A r \in Request : HasIt(r) /\ JobOf[r] = j => r = q
    BY <2>1 DEF OneInv, HasIt
  <2>3. \A m \in Message : queue[m] > 0 => JobOf[m.request] # j
    BY <1>3, <2>1, <2>2 DEF OneInv, Message, HasIt
  <2>4. \A w \in Worker \ {c} : Executing(task[w]) => JobAt(w) # j
    <3>1. \A w \in Worker : Executing(task[w]) /\ JobAt(w) = j => task[w].msg.request = q
      BY <2>2, JobsTyped DEF OneInv, HasIt, JobAt, Executing
    <3> QED BY <1>3, <2>1, <3>1 DEF OneInv
  <2> QED BY <2>1, <2>2, <2>3, <2>4
<1> QED BY <1>1, <1>2, <1>3, RowWriter

-----------------------------------------------------------------------------
(***************************************************************************)
(* What everybody who has a job in hand knows about its row                *)
(*                                                                         *)
(* DoneComplete and SettledIsFinal are not inductive: a task that writes   *)
(* "done" does not look at the row again.  They rest on what each place of *)
(* the programs implies about the row R of its job, and on the data that   *)
(* is on its way into the row.                                             *)
(***************************************************************************)

\* Before the SET of an update_job whose frame is f, and after it.
Writing(f) == f.at \in {"update_get", "update_set"}
Written(f) == f.at \in {"update_confirm", "ok"}

Fresh(R) == R.status = "queued" /\ ~R.error_message

\* A row has only what was asked for, and all of it once it says "done".
RowSound(R) ==
    /\ R.metric = "dists" => ~R.lpips /\ ~R.has_heatmap
    /\ R.metric = "lpips" => ~R.dists
    /\ R.status = "done" => /\ R.metric # "dists" => R.lpips /\ R.has_heatmap
                            /\ R.metric # "lpips" => R.dists
                            /\ ~R.error_message

HandlerKnows(p, f, R) ==
    /\ p = "creating" => Fresh(R)
    /\ p = "failing" /\ Writing(f) => R.status = "queued"
    /\ p = "failing" /\ Written(f) => R.status = "error"
    /\ p = "failing" /\ f.at = "update_set" => f.data = Store!Merge(R, Store!Error)
    /\ p = "unavailable" => R.status = "error"

\* What execution t has saved, when its store call is at f.
SavedLpips(t, f) ==
    \/ t.at = "save_lpips" /\ Written(f)
    \/ t.at = "save_heatmap"
    \/ t.at \in {"dists", "save_dists", "save_done"} /\ NeedsLpips(t.msg)
SavedHeatmap(t, f) ==
    \/ t.at = "save_heatmap" /\ Written(f)
    \/ t.at \in {"dists", "save_dists", "save_done"} /\ NeedsLpips(t.msg)
SavedDists(t, f) ==
    \/ t.at = "save_dists" /\ Written(f)
    \/ t.at = "save_done" /\ NeedsDists(t.msg)

Computing == {"lpips", "save_lpips", "save_heatmap", "dists", "save_dists"}

\* The status that it has left in the row.
KnowsStatus(t, f, s) ==
    /\ t.at = "start" => (Writing(f) => s = "queued") /\ (Written(f) => s = "running")
    /\ t.at \in Computing => s = "running"
    /\ t.at = "save_done" => (Writing(f) => s = "running") /\ (Written(f) => s = "done")
    /\ t.at = "requeue" => (Writing(f) => s = "running") /\ (Written(f) => s = "queued")
    /\ t.at = "error" => /\ Writing(f) /\ ~CallsRaise => s = "running"
                         /\ Written(f) => s = "error"

TaskKnows(t, f, R) ==
    /\ t.at \in {"lpips", "save_lpips", "save_heatmap"} => NeedsLpips(t.msg)
    /\ t.at \in {"dists", "save_dists"} => NeedsDists(t.msg)
    /\ SavedLpips(t, f) => R.lpips
    /\ SavedHeatmap(t, f) => R.has_heatmap
    /\ SavedDists(t, f) => R.dists
    /\ KnowsStatus(t, f, R.status)
    /\ t.at # "error" => ~R.error_message
    /\ f.at = "update_set" => f.data = Store!Merge(R, UpdateOf(t.at))

RowsSound     == \A j \in Job : HasRow(j) => RowSound(row[j])
HeatmapsOwned == \A j \in heatmap : HasRow(j) /\ row[j].metric # "dists"
HandlersKnow  ==
    \A r \in Request : HasIt(r) => /\ row[JobOf[r]].metric = MetricOf[r]
                                   /\ HandlerKnows(post[r], call[r], row[JobOf[r]])
WaitingKnown  == \A m \in Message : queue[m] > 0 => Fresh(row[JobOf[m.request]])
TasksKnow     ==
    \A w \in Worker : Executing(task[w]) => TaskKnows(task[w], call[w], row[JobAt(w)])

Know == RowsSound /\ HeatmapsOwned /\ HandlersKnow /\ WaitingKnown /\ TasksKnow

\* The metrics decide what an execution computes.
LEMMA Needs ==
    ASSUME NEW m \in Message
    PROVE  /\ NeedsLpips(m) <=> MetricOf[m.request] # "dists"
           /\ NeedsDists(m) <=> MetricOf[m.request] # "lpips"
BY CompareAssumption DEF Message, NeedsLpips, NeedsDists

\* What each update changes in a row.
LEMMA Merged ==
    ASSUME NEW R \in Store!Row, NEW p \in Updating, NEW M, M = Store!Merge(R, UpdateOf(p))
    PROVE  /\ M \in Store!Row /\ M.metric = R.metric
           /\ M.status = CASE p = "start"     -> "running"
                           [] p = "save_done" -> "done"
                           [] p = "requeue"   -> "queued"
                           [] p = "error"     -> "error"
                           [] OTHER           -> R.status
           /\ M.lpips <=> (R.lpips \/ p = "save_lpips")
           /\ M.dists <=> (R.dists \/ p = "save_dists")
           /\ M.has_heatmap <=> (R.has_heatmap \/ p = "save_heatmap")
           /\ M.error_message <=> (p = "error" \/ (R.error_message /\ p # "requeue"))
<1> USE DEF Store!Merge, Store!Row, Store!Status, UpdateOf, Store!Running, Store!Lpips,
    Store!Heatmap, Store!Dists, Store!Done, Store!Requeue, Store!Error
<1>1. CASE p = "start"
  BY <1>1
<1>2. CASE p = "save_lpips"
  BY <1>2
<1>3. CASE p = "save_heatmap"
  BY <1>3
<1>4. CASE p = "save_dists"
  BY <1>4
<1>5. CASE p = "save_done"
  BY <1>5
<1>6. CASE p = "requeue"
  BY <1>6
<1>7. CASE p = "error"
  BY <1>7
<1> QED BY <1>1, <1>2, <1>3, <1>4, <1>5, <1>6, <1>7 DEF Updating

\* What an execution writes is sound, and it knows what it has written.
LEMMA TaskWrites ==
    ASSUME NEW t, NEW f, NEW g, NEW R \in Store!Row, t.msg \in Message, t.at \in Updating,
           f.at = "update_set", g.at = "update_confirm",
           R.metric = MetricOf[t.msg.request], RowSound(R), TaskKnows(t, f, R)
    PROVE  RowSound(f.data) /\ TaskKnows(t, g, f.data)
<1> DEFINE M == f.data
<1>1. M = Store!Merge(R, UpdateOf(t.at))
  BY DEF TaskKnows
<1> HIDE DEF M
<1>2. /\ NeedsLpips(t.msg) <=> M.metric # "dists"
      /\ NeedsDists(t.msg) <=> M.metric # "lpips"
  BY <1>1, Merged, Needs
<1>3. RowSound(M)
  <2>1. M.metric = "dists" => ~M.lpips /\ ~M.has_heatmap
    BY <1>1, <1>2, Merged DEF RowSound, TaskKnows
  <2>2. M.metric = "lpips" => ~M.dists
    BY <1>1, <1>2, Merged DEF RowSound, TaskKnows
  <2>3. CASE t.at = "save_done"
    BY <1>1, <1>2, <2>1, <2>2, <2>3, Merged
       DEF RowSound, TaskKnows, SavedLpips, SavedHeatmap, SavedDists
  <2>4. CASE t.at # "save_done"
    <3>1. M.status # "done"
      BY <1>1, <2>4, Merged DEF TaskKnows, KnowsStatus, Updating, Computing, Writing
    <3> QED BY <2>1, <2>2, <3>1 DEF RowSound
  <2> QED BY <2>3, <2>4
<1>4. TaskKnows(t, g, M)
  <2>1. Writing(f) /\ ~Written(f) /\ Written(g) /\ ~Writing(g)
    BY DEF Writing, Written
  <2>2. KnowsStatus(t, g, M.status)
    BY <1>1, <2>1, Merged DEF TaskKnows, KnowsStatus, Updating, Computing
  <2>3. SavedLpips(t, g) => M.lpips
    BY <1>1, <2>1, Merged DEF TaskKnows, SavedLpips
  <2>4. SavedHeatmap(t, g) => M.has_heatmap
    BY <1>1, <2>1, Merged DEF TaskKnows, SavedHeatmap
  <2>5. SavedDists(t, g) => M.dists
    BY <1>1, <2>1, Merged DEF TaskKnows, SavedDists
  <2>6. t.at # "error" => ~M.error_message
    BY <1>1, Merged DEF TaskKnows
  <2> QED BY <2>2, <2>3, <2>4, <2>5, <2>6 DEF TaskKnows
<1> QED BY <1>3, <1>4 DEF M

-----------------------------------------------------------------------------
(***************************************************************************)
(* Every step keeps what is known                                          *)
(***************************************************************************)

\* The row of a job that somebody has in hand.
LEMMA RowsTyped ==
    ASSUME TypeInv, NEW j \in Job, HasRow(j)
    PROVE  row[j] \in Store!Row
BY StoreTyped DEF Store!TypeOK, HasRow

\* A handler passes on a fresh row, or says that it failed after it wrote so.
LEMMA HandlerKeepsKnow ==
    ASSUME Once, TypeInv, RowsInv, OneInv, Know, [Next]_vars,
           NEW r \in Request, HandlerMove(r)
    PROVE  Know'
<1>1. /\ UNCHANGED <<row, heatmap, task>> /\ OnlyPost(r) /\ (UNCHANGED call \/ OnlyCall(r))
  BY DEF HandlerMove, Submits, Refuses, Enqueues, GivesUp, Apologises, Dies
<1>2. \A c \in Client \ {r} : call'[c] = call[c]
  BY <1>1 DEF OnlyCall
<1>3. RowsSound' /\ HeatmapsOwned'
  BY <1>1 DEF Know, RowsSound, HeatmapsOwned, HasRow
<1>4. TasksKnow'
  BY <1>1, <1>2, Clients DEF Know, TasksKnow, JobAt
<1>5. \A q \in Request : HasIt(q)' => HasIt(q)
  BY <1>1, HasItNext
<1>6. ASSUME NEW q \in Request \ {r}, HasIt(q)'
      PROVE  /\ row'[JobOf[q]].metric = MetricOf[q]
             /\ HandlerKnows(post'[q], call'[q], row'[JobOf[q]])
  BY <1>1, <1>2, <1>5, <1>6, Clients DEF OnlyPost, Know, HandlersKnow
<1>7. ASSUME HasIt(r)'
      PROVE  /\ row'[JobOf[r]].metric = MetricOf[r]
             /\ HandlerKnows(post'[r], call'[r], row'[JobOf[r]])
  <2> DEFINE R == row[JobOf[r]]
  <2>1. R.metric = MetricOf[r] /\ HandlerKnows(post[r], call[r], R) /\ row'[JobOf[r]] = R
    BY <1>1, <1>5, <1>7 DEF Know, HandlersKnow
  <2> HIDE DEF R
  <2>2. HandlerKnows(post'[r], call'[r], R)
    <3> USE DEF HandlerKnows, Writing, Written, CallOk
    <3>1. CASE Submits(r)
      BY <1>7, <3>1 DEF Submits, HasIt, At
    <3>2. CASE Refuses(r)
      BY <3>2 DEF Refuses
    <3>3. CASE Enqueues(r)
      BY <3>3 DEF Enqueues
    <3>4. CASE GivesUp(r)
      BY <2>1, <3>4 DEF GivesUp, At, Fresh
    <3>5. CASE Apologises(r)
      BY <2>1, <3>5 DEF Apologises
    <3>6. CASE Dies(r)
      BY <3>6 DEF Dies
    <3> QED BY <3>1, <3>2, <3>3, <3>4, <3>5, <3>6 DEF HandlerMove
  <2> QED BY <2>1, <2>2
<1>8. WaitingKnown'
  <2> SUFFICES ASSUME NEW m \in Message, queue'[m] > 0 PROVE Fresh(row'[JobOf[m.request]])
    BY DEF WaitingKnown
  <2>1. CASE queue[m] > 0
    BY <1>1, <2>1 DEF Know, WaitingKnown
  <2>2. CASE ~(queue[m] > 0)
    <3>1. queue'[m] > queue[m]
      BY <2>2, TypeNext DEF TypeInv, Types
    <3>2. ASSUME NEW w \in Worker, task[w].at # "idle", m.request = task[w].msg.request,
                 Republishes(w)
          PROVE  Fresh(row'[JobOf[m.request]])
      <4>1. task'[w].at # task[w].at
        BY <3>2 DEF Republishes, Goes
      <4> QED BY <1>1, <4>1
    <3>3. PICK q \in Request : \/ m = FirstMessage(q) /\ post[q] = "creating" /\ CallOk(q)
                               \/ Fresh(row'[JobOf[m.request]])
      BY <3>1, <3>2, MessageNext DEF Once
    <3>4. CASE m = FirstMessage(q) /\ post[q] = "creating" /\ CallOk(q)
      BY <1>1, <3>4 DEF Know, HandlersKnow, HandlerKnows, HasIt, CallOk, FirstMessage
    <3> QED BY <3>3, <3>4
  <2> QED BY <2>1, <2>2
<1>9. HandlersKnow'
  BY <1>6, <1>7 DEF HandlersKnow
<1> QED BY <1>3, <1>4, <1>8, <1>9 DEF Know

\* Where an execution goes next, what it knew implies what it has to know there.
LEMMA TaskGoesOn ==
    ASSUME NEW t, NEW f, NEW u, NEW g, NEW R, NEW p, t.msg \in Message,
           TaskKnows(t, f, R), u.at = p, u.msg = t.msg,
           \/ Walk(t, f, p) /\ g = f /\ Done(f)
           \/ /\ Stores(t, f, p) /\ g.at \in {"update_get", "heatmap_set"}
              /\ f.at # "ok" => CallsRaise,
           Executing(u)
    PROVE  TaskKnows(u, g, R)
<1>1. CASE Walk(t, f, p) /\ g = f /\ Done(f)
  <2>1. /\ f.at # "update_set"
        /\ \/ t.at = "start" /\ f.at = "ok" /\ p = IF NeedsLpips(t.msg) THEN "lpips" ELSE "dists"
           \/ t.at = "save_heatmap" /\ f.at = "ok" /\ NeedsDists(t.msg) /\ p = "dists"
    BY <1>1 DEF Walk, Executing, Done, Store!Outcome
  <2>2. NeedsLpips(t.msg) \/ NeedsDists(t.msg)
    BY Needs
  <2> QED BY <1>1, <2>1, <2>2 DEF TaskKnows, KnowsStatus, SavedLpips, SavedHeatmap, SavedDists,
             Computing, Writing, Written
<1>2. CASE /\ Stores(t, f, p) /\ g.at \in {"update_get", "heatmap_set"}
           /\ f.at # "ok" => CallsRaise
  <2>1. g.at # "update_set" /\ ~Written(g)
    BY <1>2 DEF Written
  <2>2. CASE p \in {"error", "requeue"}
    <3>1. t.at \in {"lpips", "dists"} \/ (p = "error" /\ CallsRaise)
      BY <1>2, <2>2 DEF Stores
    <3> QED BY <1>2, <2>1, <2>2, <3>1 DEF TaskKnows, KnowsStatus, SavedLpips, SavedHeatmap,
               SavedDists, Computing, Stores
  <2>3. CASE p \notin {"error", "requeue"}
    BY <1>2, <2>1, <2>3, Needs DEF Stores, TaskKnows, KnowsStatus, SavedLpips, SavedHeatmap,
       SavedDists, Computing, Written
  <2> QED BY <2>2, <2>3
<1> QED BY <1>1, <1>2

\* A worker takes a fresh row, and puts back one that is fresh again.
LEMMA WorkerKeepsKnow ==
    ASSUME Once, TypeInv, RowsInv, OneInv, Know, [Next]_vars,
           NEW w \in Worker, WorkerMove(w)
    PROVE  Know'
<1>1. UNCHANGED <<row, heatmap, post>> /\ OnlyTask(w) /\ (UNCHANGED call \/ OnlyCall(w))
  BY DEF WorkerMove, Walks, Calls, Republishes, Goes, Ends, Takes, Dead, Stops, Redelivers,
     OnlyTask, storeVars, TypeInv, Types
<1>2. \A c \in Client \ {w} : call'[c] = call[c]
  BY <1>1 DEF OnlyCall
<1>3. RowsSound' /\ HeatmapsOwned'
  BY <1>1 DEF Know, RowsSound, HeatmapsOwned, HasRow
<1>4. HandlersKnow'
  BY <1>1, <1>2, Clients DEF Know, HandlersKnow, HasIt
<1>5. ~Dead(w) \/ task'[w].at = "idle"
  BY DEF Dead, Stops, NoTask, TypeInv, Types
<1>6. ~Redelivers(w)
  BY DEF Once, Redelivers
<1>7. WaitingKnown'
  <2> SUFFICES ASSUME NEW m \in Message, queue'[m] > 0 PROVE Fresh(row'[JobOf[m.request]])
    BY DEF WaitingKnown
  <2>1. CASE queue[m] > 0
    BY <1>1, <2>1 DEF Know, WaitingKnown
  <2>2. CASE ~(queue[m] > 0)
    <3>1. queue'[m] > queue[m]
      BY <2>2, TypeNext DEF TypeInv, Types
    <3>2. ASSUME NEW r \in Request, Enqueues(r)
          PROVE  FALSE
      BY <1>1, <3>2 DEF Enqueues
    <3>3. PICK v \in Worker : task[v].at # "idle" /\ m.request = task[v].msg.request /\ Republishes(v)
      BY <3>1, <3>2, MessageNext DEF Once
    <3>4. TaskKnows(task[v], call[v], row[JobAt(v)]) /\ task[v].at = "requeue" /\ call[v].at = "ok"
      BY <3>3 DEF Know, TasksKnow, Republishes, CallOk, Executing
    <3>5. Fresh(row[JobAt(v)])
      BY <3>4 DEF TaskKnows, KnowsStatus, Written, Fresh
    <3> QED BY <1>1, <3>3, <3>5 DEF JobAt
  <2> QED BY <2>1, <2>2
<1>8. TasksKnow'
  <2>1. ASSUME NEW v \in Worker \ {w}, Executing(task'[v])
        PROVE  TaskKnows(task'[v], call'[v], row'[JobAt(v)'])
    <3>1. task'[v] = task[v] /\ call'[v] = call[v] /\ UNCHANGED JobAt(v)
      BY <1>1, <1>2, <2>1, Clients DEF OnlyTask, JobAt
    <3> QED BY <1>1, <2>1, <3>1 DEF Know, TasksKnow
  <2>2. ASSUME Executing(task'[w])
        PROVE  TaskKnows(task'[w], call'[w], row'[JobAt(w)'])
    <3>1. ASSUME NEW p \in Place, Walks(w, p) \/ Calls(w, p)
          PROVE  TaskKnows(task'[w], call'[w], row'[JobAt(w)'])
      <4>1. Executing(task[w]) /\ task'[w].at = p /\ task'[w].msg = task[w].msg
        BY <2>2, <3>1 DEF Walks, Walk, Calls, Stores, Goes, Executing
      <4>2. UNCHANGED JobAt(w) /\ TaskKnows(task[w], call[w], row[JobAt(w)])
        BY <4>1 DEF JobAt, Know, TasksKnow
      <4>3. /\ task[w].msg \in Message
            /\ Done(call[w]) /\ call[w].at # "ok" => CallsRaise
        BY <4>1, JobsTyped DEF Executing, RowsInv, CallFine, Done, Store!Outcome
      <4>4. \/ Walk(task[w], call[w], p) /\ call'[w] = call[w] /\ Done(call[w])
            \/ /\ Stores(task[w], call[w], p) /\ call'[w].at \in {"update_get", "heatmap_set"}
               /\ Done(call[w])
        BY <3>1 DEF Walks, Calls, At, storeVars
      <4>5. TaskKnows(task'[w], call'[w], row[JobAt(w)])
        BY <2>2, <4>1, <4>2, <4>3, <4>4, TaskGoesOn
      <4> QED BY <1>1, <4>2, <4>5
    <3>2. ASSUME NEW m \in Message, Takes(w, m)
          PROVE  TaskKnows(task'[w], call'[w], row'[JobAt(w)'])
      <4>1. /\ task'[w].at = "start" /\ call'[w].at = "update_get"
            /\ JobAt(w)' = JobOf[m.request] /\ Fresh(row[JobOf[m.request]])
        BY <3>2 DEF Takes, At, JobAt, Know, WaitingKnown
      <4> QED BY <1>1, <4>1 DEF TaskKnows, KnowsStatus, SavedLpips, SavedHeatmap, SavedDists,
                 Computing, Fresh, Written
    <3>3. ~Republishes(w) /\ ~Ends(w) /\ ~Dead(w)
      BY <1>5, <2>2 DEF Executing, Republishes, Goes, Ends, NoTask, TypeInv, Types
    <3> QED BY <1>6, <3>1, <3>2, <3>3 DEF WorkerMove
  <2> QED BY <2>1, <2>2 DEF TasksKnow
<1> QED BY <1>3, <1>4, <1>7, <1>8 DEF Know

\* What a command writes into a row is sound, and of the metric the row has.
LEMMA RowWritten ==
    ASSUME Once, TypeInv, RowsInv, OneInv, Know, NEW c \in Client, Store!Command(c),
           NEW j \in Job, row'[j] # row[j]
    PROVE  RowSound(row'[j]) /\ (HasRow(j) => row'[j].metric = row[j].metric)
<1>1. CASE row[j] = None /\ row'[j] = Store!NewRow(MetricOf[c])
  BY <1>1 DEF HasRow, Store!NewRow, RowSound
<1>2. CASE /\ c \in Request /\ post[c] = "failing" /\ JobOf[c] = j
           /\ Sets(c) /\ row'[j] = call[c].data
  <2>1. HasIt(c) /\ HasRow(j) /\ row[j] \in Store!Row
    BY <1>2, RowsTyped DEF HasIt, RowsInv
  <2>2. RowSound(row[j]) /\ row'[j] = Store!Merge(row[j], UpdateOf("error"))
    BY <1>2, <2>1 DEF Know, RowsSound, HandlersKnow, HandlerKnows, Sets, UpdateOf
  <2>3. "error" \in Updating
    BY DEF Updating
  <2> QED BY <2>1, <2>2, <2>3, Merged DEF RowSound
<1>3. CASE /\ c \in Worker /\ task[c].at \in Updating /\ JobAt(c) = j
           /\ Sets(c) /\ row'[j] = call[c].data
  <2> DEFINE r == task[c].msg.request
  <2>1. /\ Executing(task[c]) /\ task[c].at # "idle" /\ task[c].msg \in Message /\ r \in Request
        /\ HasIt(r) /\ HasRow(j) /\ row[j] \in Store!Row /\ JobOf[r] = j
    BY <1>3, JobsTyped, RowsTyped DEF Updating, Executing, HasIt, RowsInv, OneInv, JobAt
  <2>2. row[j].metric = MetricOf[r] /\ RowSound(row[j]) /\ TaskKnows(task[c], call[c], row[j])
    BY <1>3, <2>1 DEF Know, HandlersKnow, RowsSound, TasksKnow
  <2>3. call[c].at = "update_set" /\ call'[c].at = "update_confirm"
    BY <1>3 DEF Sets, At
  <2>4. call[c].data = Store!Merge(row[j], UpdateOf(task[c].at))
    BY <2>2, <2>3 DEF TaskKnows
  <2> HIDE DEF r
  <2> QED BY <1>3, <2>1, <2>2, <2>3, <2>4, Merged, TaskWrites DEF r
<1> QED BY <1>1, <1>2, <1>3, RowWriter

\* A store command leaves what everybody knows true, and its client knows what it did.
LEMMA CommandKeepsKnow ==
    ASSUME Once, TypeInv, RowsInv, OneInv, Know, [Next]_vars,
           NEW c \in Client, Store!Command(c), UNCHANGED <<post, queue, task>>
    PROVE  Know'
<1>1. OnlyCall(c) /\ \A d \in Client \ {c} : call'[d] = call[d]
  BY CommandOf DEF OnlyCall
<1>2. \A j \in Job : HasRow(j) => HasRow(j)' /\ row'[j].metric = row[j].metric
  BY RowsStay, RowWritten DEF Once
<1>3. RowsSound'
  BY RowWritten DEF Know, RowsSound, HasRow
<1>4. HeatmapsOwned'
  <2>1. ASSUME NEW j \in heatmap PROVE HasRow(j)' /\ row'[j].metric # "dists"
    BY <1>2, StoreTyped DEF Know, HeatmapsOwned, Store!TypeOK
  <2>2. CASE heatmap' = heatmap
    BY <2>1, <2>2 DEF HeatmapsOwned
  <2>3. CASE heatmap' # heatmap
    <3> DEFINE r == task[c].msg.request
    <3>1. /\ c \in Worker /\ task[c].at = "save_heatmap" /\ call[c].job = JobAt(c)
          /\ heatmap' = heatmap \cup {call[c].job}
      BY <2>3, CommandOf DEF Gets, Sets, Confirms, Creates, Indexes, Lists, Draws
    <3>2. /\ Executing(task[c]) /\ task[c].at # "idle" /\ task[c].msg \in Message /\ r \in Request
          /\ HasIt(r) /\ JobAt(c) \in Job /\ HasRow(JobAt(c)) /\ JobOf[r] = JobAt(c)
      BY <3>1, JobsTyped DEF Executing, HasIt, RowsInv, OneInv, JobAt
    <3>3. row[JobAt(c)].metric = MetricOf[r] /\ NeedsLpips(task[c].msg)
      BY <3>1, <3>2 DEF Know, HandlersKnow, TasksKnow, TaskKnows
    <3>4. row[JobAt(c)].metric # "dists"
      BY <3>2, <3>3, Needs
    <3> QED BY <1>2, <2>1, <3>1, <3>2, <3>4 DEF HeatmapsOwned
  <2> QED BY <2>2, <2>3
<1>5. WaitingKnown'
  <2> SUFFICES ASSUME NEW m \in Message, queue[m] > 0 PROVE Fresh(row'[JobOf[m.request]])
    BY DEF WaitingKnown
  <2>1. JobOf[m.request] \in Job
    BY CompareAssumption DEF Message
  <2>2. row'[JobOf[m.request]] = row[JobOf[m.request]]
    BY <2>1, OthersElsewhere
  <2> QED BY <2>2 DEF Know, WaitingKnown
<1>6. ASSUME NEW r \in Request, HasIt(r)'
      PROVE  /\ row'[JobOf[r]].metric = MetricOf[r]
             /\ HandlerKnows(post[r], call'[r], row'[JobOf[r]])
  <2> DEFINE j == JobOf[r]
  <2>0. j \in Job
    BY CompareAssumption
  <2>1. CASE ~HasIt(r)
    <3>1. /\ post[r] = "creating"
          /\ row' = [row EXCEPT ![j] = Store!NewRow(MetricOf[r])]
      BY <1>6, <2>1, HasItNext
    <3>2. row'[j] = Store!NewRow(MetricOf[r])
      BY <2>0, <3>1, StoreTyped DEF Store!TypeOK
    <3> QED BY <3>1, <3>2 DEF Store!NewRow, HandlerKnows, Fresh
  <2>2. CASE HasIt(r)
    <3>1. /\ HasRow(j) /\ row[j] \in Store!Row /\ row[j].metric = MetricOf[r]
          /\ row'[j].metric = MetricOf[r] /\ HandlerKnows(post[r], call[r], row[j])
      BY <1>2, <2>0, <2>2, RowsTyped DEF RowsInv, Know, HandlersKnow
    <3>2. CASE r # c
      <4>1. call'[r] = call[r]
        BY <1>1, <3>2, Clients
      <4>2. row'[j] = row[j] \/ post[r] = "accepted"
        BY <2>0, <2>2, <3>2, OthersElsewhere
      <4> QED BY <3>1, <4>1, <4>2 DEF HandlerKnows
    <3>3. CASE r = c
      <4>1. CASE post[c] = "creating" /\ call[c].job = JobOf[c] /\ (Creates(c) \/ Indexes(c))
        <5>1. UNCHANGED row
          BY <2>2, <3>3, <4>1 DEF HasIt, Creates, Indexes
        <5> QED BY <3>1, <3>3, <4>1, <5>1 DEF HandlerKnows
      <4>2. CASE post[c] = "failing" /\ Updates(call[c], JobOf[c], Store!Error)
        <5>1. CASE Gets(c)
          <6>1. /\ UNCHANGED row /\ call[c].at = "update_get" /\ call'[c].at = "update_set"
                /\ call'[c].data = Store!Merge(row[j], Store!Error)
            BY <3>1, <3>3, <4>2, <5>1 DEF Gets, At, Updates, HasRow
          <6> QED BY <3>1, <3>3, <4>2, <6>1 DEF HandlerKnows, Writing, Written
        <5>2. CASE Sets(c)
          <6>1. /\ row'[j] = call[c].data /\ call[c].at = "update_set"
                /\ call'[c].at = "update_confirm"
            BY <2>0, <3>3, <4>2, <5>2, StoreTyped DEF Sets, At, Updates, Store!TypeOK
          <6>2. row'[j] = Store!Merge(row[j], UpdateOf("error"))
            BY <3>1, <3>3, <4>2, <6>1 DEF HandlerKnows, UpdateOf
          <6>3. row'[j].status = "error"
            BY <3>1, <6>2, Merged DEF Updating
          <6> QED BY <3>1, <3>3, <4>2, <6>1, <6>3 DEF HandlerKnows, Writing, Written
        <5>3. CASE Confirms(c)
          <6>1. UNCHANGED row /\ call[c].at = "update_confirm" /\ call'[c].at \in {"missing", "ok"}
            BY <5>3 DEF Confirms
          <6> QED BY <3>1, <3>3, <4>2, <6>1 DEF HandlerKnows, Writing, Written
        <5> QED BY <3>3, <5>1, <5>2, <5>3, <4>2, CommandOf, Clients
      <4> QED BY <3>3, <4>1, <4>2, CommandOf, Clients
    <3> QED BY <3>2, <3>3
  <2> QED BY <2>1, <2>2
<1>7. ASSUME NEW w \in Worker, Executing(task[w])
      PROVE  TaskKnows(task[w], call'[w], row'[JobAt(w)])
  <2> DEFINE j == JobAt(w)
             r == task[w].msg.request
  <2>1. /\ task[w].at # "idle" /\ task[w].msg \in Message /\ r \in Request /\ j = JobOf[r]
        /\ j \in Job /\ HasRow(j) /\ row[j] \in Store!Row /\ HasIt(r)
    BY <1>7, JobsTyped, RowsTyped DEF Executing, RowsInv, OneInv, HasIt, JobAt
  <2>2. row[j].metric = MetricOf[r] /\ RowSound(row[j]) /\ TaskKnows(task[w], call[w], row[j])
    BY <1>7, <2>1 DEF Know, HandlersKnow, RowsSound, TasksKnow
  <2>3. CASE w # c
    <3>1. call'[w] = call[w]
      BY <1>1, <2>3, Clients
    <3>2. row'[j] = row[j]
      BY <1>7, <2>1, <2>3, OthersElsewhere
    <3> QED BY <2>2, <3>1, <3>2
  <2>4. CASE w = c
    <3>1. CASE /\ task[c].at = "save_heatmap" /\ call[c].at = "heatmap_set"
               /\ call'[c].at = "update_get" /\ UNCHANGED row
      BY <2>2, <2>4, <3>1 DEF TaskKnows, KnowsStatus, SavedLpips, SavedHeatmap, SavedDists,
         Computing, Writing, Written
    <3>2. CASE task[c].at \in Updating /\ Updates(call[c], j, UpdateOf(task[c].at))
      <4>1. CASE Gets(c)
        <5>1. /\ UNCHANGED row /\ call[c].at = "update_get" /\ call'[c].at = "update_set"
              /\ call'[c].data = Store!Merge(row[j], UpdateOf(task[c].at))
          BY <2>1, <3>2, <4>1 DEF Gets, At, Updates, HasRow
        <5> QED BY <2>2, <2>4, <5>1 DEF TaskKnows, KnowsStatus, SavedLpips, SavedHeatmap,
                   SavedDists, Writing, Written
      <4>2. CASE Sets(c)
        <5>1. /\ row'[j] = call[c].data /\ call[c].at = "update_set"
              /\ call'[c].at = "update_confirm"
          BY <2>1, <3>2, <4>2, StoreTyped DEF Sets, At, Updates, Store!TypeOK
        <5>2. TaskKnows(task[c], call'[c], call[c].data)
          BY <2>1, <2>2, <2>4, <3>2, <5>1, TaskWrites
        <5> QED BY <2>4, <5>1, <5>2
      <4>3. CASE Confirms(c)
        <5>1. UNCHANGED row /\ call[c].at = "update_confirm" /\ call'[c].at \in {"missing", "ok"}
          BY <4>3 DEF Confirms
        <5> QED BY <2>2, <2>4, <5>1 DEF TaskKnows, KnowsStatus, SavedLpips, SavedHeatmap,
                   SavedDists, Writing, Written
      <4>4. Gets(c) \/ Sets(c) \/ Confirms(c)
        BY <2>4, <3>2, CommandOf, Clients DEF Updates, Store!InUpdate, Draws
      <4> QED BY <4>1, <4>2, <4>3, <4>4
    <3> QED BY <2>4, <3>1, <3>2, CommandOf, Clients DEF Draws, At
  <2> QED BY <2>3, <2>4
<1>8. HandlersKnow'
  BY <1>6 DEF HandlersKnow
<1>9. TasksKnow'
  BY <1>7 DEF TasksKnow, JobAt
<1> QED BY <1>3, <1>4, <1>5, <1>8, <1>9 DEF Know

\* A call that raises leaves the row, and its client goes on knowing less.
LEMMA RaiseKeepsKnow ==
    ASSUME Know, NEW c \in Client, UNCHANGED <<row, heatmap, post, queue, task>>,
           OnlyCall(c), c \in Reader \/ call'[c].at = "failed"
    PROVE  Know'
<1>1. \A d \in Client \ {c} : call'[d] = call[d]
  BY DEF OnlyCall
<1>2. RowsSound' /\ HeatmapsOwned' /\ WaitingKnown'
  BY DEF Know, RowsSound, HeatmapsOwned, WaitingKnown, HasRow
<1>3. ASSUME NEW r \in Request, HasIt(r)'
      PROVE  /\ row[JobOf[r]].metric = MetricOf[r]
             /\ HandlerKnows(post[r], call'[r], row[JobOf[r]])
  <2>1. HasIt(r)
    BY <1>1, <1>3, Clients DEF HasIt
  <2>2. row[JobOf[r]].metric = MetricOf[r] /\ HandlerKnows(post[r], call[r], row[JobOf[r]])
    BY <2>1 DEF Know, HandlersKnow
  <2>3. r # c => call'[r] = call[r]
    BY <1>1, Clients
  <2> QED BY <2>2, <2>3, Clients DEF HandlerKnows, Writing, Written
<1>4. ASSUME NEW w \in Worker, Executing(task[w])
      PROVE  TaskKnows(task[w], call'[w], row[JobAt(w)])
  <2>1. TaskKnows(task[w], call[w], row[JobAt(w)])
    BY <1>4 DEF Know, TasksKnow
  <2>2. w # c => call'[w] = call[w]
    BY <1>1, Clients
  <2>3. CASE call'[w].at = "failed"
    BY <2>1, <2>3 DEF TaskKnows, KnowsStatus, SavedLpips, SavedHeatmap, SavedDists, Writing, Written
  <2> QED BY <2>1, <2>2, <2>3, Clients
<1>5. HandlersKnow' /\ TasksKnow'
  BY <1>3, <1>4 DEF HandlersKnow, TasksKnow, JobAt
<1> QED BY <1>2, <1>5 DEF Know

\* Every step leaves what is known true.
LEMMA KnowNext == Once /\ TypeInv /\ RowsInv /\ OneInv /\ Know /\ [Next]_vars => Know'
<1> SUFFICES ASSUME Once, TypeInv, RowsInv, OneInv, Know, [Next]_vars PROVE Know'
  OBVIOUS
<1>1. CASE StoreMove
  <2>1. UNCHANGED <<post, queue, task>>
    BY <1>1 DEF StoreMove
  <2>2. ASSUME NEW d \in Reader, Asks(d) PROVE Know'
    BY <2>1, <2>2, RaiseKeepsKnow, Clients DEF Asks
  <2>3. ASSUME NEW c \in Client, Store!Command(c) PROVE Know'
    BY <2>1, <2>3, CommandKeepsKnow
  <2>4. ASSUME NEW c \in Client, Raises(c) PROVE Know'
    BY <2>1, <2>4, RaiseKeepsKnow DEF Raises
  <2>5. ASSUME NEW j \in Job, Store!Expire(j) PROVE Know'
    <3>1. UNCHANGED <<row, call>> /\ heatmap' = heatmap \ {j}
      BY <2>5, ExpireMoves DEF Once
    <3> QED BY <2>1, <3>1 DEF Know, RowsSound, HeatmapsOwned, HandlersKnow, WaitingKnown, TasksKnow,
               HasRow, HasIt, JobAt
  <2>6. UNCHANGED storeVars => Know'
    BY <2>1 DEF storeVars, Know, RowsSound, HeatmapsOwned, HandlersKnow, WaitingKnown, TasksKnow,
       HasRow, HasIt, JobAt
  <2> QED BY <1>1, <2>2, <2>3, <2>4, <2>5, <2>6 DEF StoreMove
<1> QED BY <1>1, HandlerKeepsKnow, WorkerKeepsKnow, StepMoves

\* In the beginning nobody has anything in hand.
LEMMA KnowInit == Init => Know
BY DEF Init, Store!Init, Know, RowsSound, HeatmapsOwned, HandlersKnow, WaitingKnown, TasksKnow,
   HasRow, HasIt, Executing, NoTask

\* The four invariants hold together.
LEMMA Invariants ==
    ASSUME Once
    PROVE  Spec => [](TypeInv /\ RowsInv /\ OneInv /\ Know)
<1>1. Init => OneInv
  BY DEF Init, OneInv, HasIt, NoTask, Executing
<1>2. TypeInv /\ RowsInv /\ [Next]_vars => RowsInv'
  BY RowsNext DEF Once
<1>3. TypeInv /\ RowsInv /\ OneInv /\ [Next]_vars => OneInv'
  BY OneNext
<1>4. TypeInv /\ RowsInv /\ OneInv /\ Know /\ [Next]_vars => Know'
  BY KnowNext
<1> QED BY TypeInit, TypeNext, RowsInit, KnowInit, <1>1, <1>2, <1>3, <1>4, PTL DEF Spec

-----------------------------------------------------------------------------
(***************************************************************************)
(* What clients may rely on                                                *)
(***************************************************************************)

\* A client that reads status "done" finds every result the metric asks for, its
\* heatmap, and no error.
THEOREM DoneIsComplete ==
    ASSUME Once, HeatmapsExpire = FALSE
    PROVE  Spec => []DoneComplete
<1>1. Redis!Spec => []Redis!HeatmapBacked
  BY Redis!HeatmapsBacked, StoreAssumptions
<1>2. Know /\ Redis!HeatmapBacked => DoneComplete
  BY DEF Know, RowsSound, RowSound, DoneComplete, Redis!HeatmapBacked, HasRow
<1>3. Spec => [](TypeInv /\ RowsInv /\ OneInv /\ Know)
  BY Invariants
<1> QED BY StoreRefined, <1>1, <1>2, <1>3, PTL

\* Without a TTL on the rows, only a store command changes one.
LEMMA RowChange ==
    ASSUME Once, TypeInv, [Next]_vars, row' # row
    PROVE  \E c \in Client : Store!Command(c)
<1>1. \A r \in Request : ~HandlerMove(r)
  BY DEF HandlerMove, Submits, Refuses, Enqueues, GivesUp, Apologises, Dies
<1>2. \A w \in Worker : ~WorkerMove(w)
  BY DEF WorkerMove, Walks, Calls, Republishes, Ends, Takes, Dead, Stops, Redelivers, storeVars
<1>3. \A j \in Job : ~Store!Expire(j)
  BY ExpireMoves DEF Once
<1> QED BY <1>1, <1>2, <1>3, StepMoves DEF StoreMove, Asks, Raises, storeVars

\* Who writes the row of a job, and from which status to which.  A call that
\* raises after its SET would let an execution turn "done" into "error".
LEMMA StatusMoves ==
    ASSUME Once, ~CallsRaise, TypeInv, RowsInv, OneInv, Know,
           NEW c \in Client, Store!Command(c), NEW j \in Job, row'[j] # row[j]
    PROVE  \/ /\ row[j] = None /\ c \in Request /\ row'[j] = Store!NewRow(MetricOf[c])
           \/ /\ HasRow(j) /\ row[j].status = "queued"
              /\ row'[j] = Store!Merge(row[j], UpdateOf("error"))
           \/ \E p \in Updating :
                 /\ HasRow(j) /\ row'[j] = Store!Merge(row[j], UpdateOf(p))
                 /\ row[j].status = IF p = "start" THEN "queued" ELSE "running"
                 /\ p \in {"save_lpips", "save_heatmap"} => row[j].metric # "dists"
                 /\ p = "save_dists" => row[j].metric # "lpips"
<1>1. CASE /\ c \in Request /\ post[c] = "failing" /\ JobOf[c] = j
           /\ Sets(c) /\ row'[j] = call[c].data
  <2>1. HasIt(c) /\ HasRow(j)
    BY <1>1 DEF HasIt, RowsInv
  <2>2. HandlerKnows(post[c], call[c], row[j])
    BY <1>1, <2>1 DEF Know, HandlersKnow
  <2> QED BY <1>1, <2>1, <2>2 DEF HandlerKnows, Sets, Writing, UpdateOf
<1>2. CASE /\ c \in Worker /\ task[c].at \in Updating /\ JobAt(c) = j
           /\ Sets(c) /\ row'[j] = call[c].data
  <2> DEFINE r == task[c].msg.request
  <2>1. /\ Executing(task[c]) /\ task[c].at # "idle" /\ task[c].msg \in Message /\ r \in Request
        /\ HasIt(r) /\ HasRow(j) /\ JobOf[r] = j
    BY <1>2, JobsTyped DEF Updating, Executing, HasIt, RowsInv, OneInv, JobAt
  <2>2. row[j].metric = MetricOf[r] /\ TaskKnows(task[c], call[c], row[j])
    BY <1>2, <2>1 DEF Know, HandlersKnow, TasksKnow
  <2>3. call[c].at = "update_set" /\ row'[j] = Store!Merge(row[j], UpdateOf(task[c].at))
    BY <1>2, <2>2 DEF Sets, TaskKnows
  <2>4. row[j].status = IF task[c].at = "start" THEN "queued" ELSE "running"
    BY <1>2, <2>2, <2>3 DEF TaskKnows, KnowsStatus, Updating, Computing, Writing
  <2>5. /\ task[c].at \in {"save_lpips", "save_heatmap"} => row[j].metric # "dists"
        /\ task[c].at = "save_dists" => row[j].metric # "lpips"
    BY <2>1, <2>2, Needs DEF TaskKnows
  <2> QED BY <1>2, <2>1, <2>3, <2>4, <2>5
<1> QED BY <1>1, <1>2, RowWriter

\* The status that settles a job is its final state.
THEOREM SettledStays ==
    ASSUME Once, ~CallsRaise
    PROVE  Spec => SettledIsFinal
<1>1. TypeInv /\ RowsInv /\ OneInv /\ Know /\ [Next]_vars =>
        [\A j \in Job : Settled(j) /\ row'[j] # None => row'[j].status = row[j].status]_row
  <2> SUFFICES ASSUME TypeInv, RowsInv, OneInv, Know, [Next]_vars, row' # row,
                      NEW j \in Job, Settled(j), row'[j] # row[j]
               PROVE  FALSE
    OBVIOUS
  <2>1. PICK c \in Client : Store!Command(c)
    BY RowChange
  <2> QED BY <2>1, StatusMoves DEF Settled, HasRow
<1>2. Spec => [](TypeInv /\ RowsInv /\ OneInv /\ Know)
  BY Invariants
<1> QED BY <1>1, <1>2, PTL DEF Spec, SettledIsFinal

-----------------------------------------------------------------------------
(***************************************************************************)
(* The life that JobLifecycle promises                                     *)
(***************************************************************************)

\* The heatmaps are those that the rows announce, for jobs that asked for one.
Drawn == /\ \A j \in heatmap : HasRow(j) /\ row[j].metric # "dists"
         /\ \A j \in Job : HasRow(j) /\ row[j].has_heatmap => j \in heatmap
         /\ RowsSound

\* What the status answer offers and what the endpoints serve is what the
\* abstract job has at its status.
LEMMA LinksShown ==
    ASSUME TypeInv, Drawn, NEW j \in Job, HasRow(j)
    PROVE  /\ Shown(j).offered = Lifecycle!Links(row[j].metric, row[j].status)
           /\ Shown(j).served = Lifecycle!Links(row[j].metric, row[j].status)
<1>1. RowSound(row[j]) /\ row[j] \in Store!Row
  BY RowsTyped DEF Drawn, RowsSound
<1>2. "heatmap" \in Lifecycle!Wanted(row[j].metric) <=> row[j].metric # "dists"
  BY DEF Lifecycle!Wanted, Lifecycle!Result
<1>3. row[j].status = "done" => /\ row[j].has_heatmap <=> row[j].metric # "dists"
                                /\ j \in heatmap <=> row[j].metric # "dists"
  BY <1>1 DEF RowSound, Drawn
<1>4. Offered(j) = Lifecycle!Links(row[j].metric, row[j].status)
  BY <1>2, <1>3 DEF Offered, Lifecycle!Links, Lifecycle!Link
<1>5. Served(j) = Lifecycle!Links(row[j].metric, row[j].status)
  BY <1>2, <1>3 DEF Served, HeatmapServed, ErrorServed, Lifecycle!Links,
     Lifecycle!Link
<1> QED BY <1>4, <1>5 DEF Shown

\* The abstract state.
Life == [j \in Job |-> IF HasRow(j) THEN Shown(j) ELSE None]

\* A step that writes one row moves one abstract job.
LEMMA LifeMoves ==
    ASSUME TypeInv, NEW j \in Job, \A i \in Job \ {j} : row'[i] = row[i], UNCHANGED heatmap
    PROVE  Life' = [Life EXCEPT ![j] = IF HasRow(j)' THEN Shown(j)' ELSE None]
<1>1. \A i \in Job \ {j} : Life'[i] = Life[i]
  BY DEF Life, HasRow, Shown, Offered, Served, HeatmapServed, ErrorServed
<1>2. Life'[j] = IF HasRow(j)' THEN Shown(j)' ELSE None
  BY DEF Life
<1> QED BY <1>1, <1>2 DEF Life

\* The results that row R publishes.
Results(R) ==
    {x \in {"lpips", "heatmap", "dists"} :
       CASE x = "lpips"   -> R.lpips
         [] x = "heatmap" -> R.has_heatmap
         [] x = "dists"   -> R.dists}

ShownAsIs ==
    \A j \in Job : HasRow(j) =>
        /\ Life[j] = [metric  |-> row[j].metric, status |-> row[j].status,
                      results |-> Results(row[j]),
                      offered |-> Lifecycle!Links(row[j].metric, row[j].status),
                      served  |-> Lifecycle!Links(row[j].metric, row[j].status)]
        /\ Life[j] # None

\* Polling shows of a job what its row says, and no more.
LEMMA ShownAs == TypeInv /\ Drawn => ShownAsIs
<1> SUFFICES ASSUME TypeInv, Drawn, NEW j \in Job, HasRow(j)
             PROVE  /\ Life[j] = [metric  |-> row[j].metric, status |-> row[j].status,
                                  results |-> Results(row[j]),
                                  offered |-> Lifecycle!Links(row[j].metric, row[j].status),
                                  served  |-> Lifecycle!Links(row[j].metric, row[j].status)]
                    /\ Life[j] # None
  BY DEF ShownAsIs
<1> DEFINE L == Lifecycle!Links(row[j].metric, row[j].status)
<1>1. L \subseteq Lifecycle!Link
  BY DEF Lifecycle!Links, Lifecycle!Link
<1>2. Shown(j).offered = L /\ Shown(j).served = L
  BY LinksShown
<1> HIDE DEF L
<1>3. Shown(j) = [metric  |-> row[j].metric, status |-> row[j].status,
                  results |-> Results(row[j]), offered |-> L, served |-> L]
  BY <1>2 DEF Shown, Results
<1>4. Life[j] = Shown(j)
  BY DEF Life
<1>5. row[j].metric \in Metric /\ row[j].status \in Lifecycle!Status
  BY RowsTyped DEF Store!Row, Store!Status, Lifecycle!Status
<1>6. Results(row[j]) \subseteq Lifecycle!Result
  BY DEF Results, Lifecycle!Result
<1>7. Life[j] \in Lifecycle!Published
  BY <1>1, <1>3, <1>4, <1>5, <1>6 DEF Lifecycle!Published
<1>8. Life[j] # None
  BY <1>7, ShownAssumption
<1> QED BY <1>3, <1>4, <1>8 DEF L

\* A step that changes the status and no result is one of the abstract job.
LEMMA BecomesShown ==
    ASSUME TypeInv, ShownAsIs, ShownAsIs', NEW j \in Job, HasRow(j), HasRow(j)',
           \A i \in Job \ {j} : row'[i] = row[i], UNCHANGED heatmap,
           row'[j].metric = row[j].metric, Results(row'[j]) = Results(row[j])
    PROVE  Lifecycle!Becomes(j, row[j].status, row'[j].status)
<1> DEFINE L == Lifecycle!Links(row[j].metric, row'[j].status)
           S == [Life[j] EXCEPT !.status = row'[j].status, !.offered = L, !.served = L]
           K == Lifecycle!Links(row[j].metric, row[j].status)
<1>0. /\ Life[j] = [metric  |-> row[j].metric, status |-> row[j].status,
                    results |-> Results(row[j]), offered |-> K, served |-> K]
      /\ Life[j] # None
  BY DEF ShownAsIs
<1> HIDE DEF K
<1>1. /\ Life[j] # None /\ Life[j].status = row[j].status /\ Life[j].metric = row[j].metric
  BY <1>0
<1>2. Life'[j] = [metric  |-> row'[j].metric, status |-> row'[j].status,
                  results |-> Results(row'[j]), offered |-> L, served |-> L]
  BY DEF ShownAsIs
<1> HIDE DEF L
<1>3. Life'[j] = S
  <2>1. S = [metric  |-> row[j].metric, status |-> row'[j].status,
             results |-> Results(row[j]), offered |-> L, served |-> L]
    <3> DEFINE S1 == [Life[j] EXCEPT !.status = row'[j].status]
               S2 == [S1 EXCEPT !.offered = L]
    <3>1. S1 = [metric  |-> row[j].metric, status |-> row'[j].status,
                results |-> Results(row[j]), offered |-> K, served |-> K]
      BY <1>0
    <3>2. S = [S2 EXCEPT !.served = L]
      OBVIOUS
    <3> HIDE DEF S, S1
    <3>3. S2 = [metric  |-> row[j].metric, status |-> row'[j].status,
                results |-> Results(row[j]), offered |-> L, served |-> K]
      BY <3>1
    <3> HIDE DEF S2
    <3> QED BY <3>2, <3>3
  <2> QED BY <1>2, <2>1
<1>4. Life' = [Life EXCEPT ![j] = S]
  BY <1>3, LifeMoves DEF Life
<1> QED BY <1>1, <1>4 DEF L, Lifecycle!Becomes, Life

\* A step that adds a result is a publication, or shows again what was shown.
LEMMA PublishShown ==
    ASSUME TypeInv, ShownAsIs, ShownAsIs', NEW j \in Job, HasRow(j), HasRow(j)',
           \A i \in Job \ {j} : row'[i] = row[i], UNCHANGED heatmap,
           row'[j].metric = row[j].metric, row[j].status = "running", row'[j].status = "running",
           NEW x \in Lifecycle!Wanted(row[j].metric), Results(row'[j]) = Results(row[j]) \cup {x}
    PROVE  Life' = Life \/ Lifecycle!Publish(j, x)
<1> DEFINE K == Lifecycle!Links(row[j].metric, row[j].status)
           S == [Life[j] EXCEPT !.results = @ \cup {x}]
<1>1. /\ Life[j] = [metric  |-> row[j].metric, status |-> row[j].status,
                    results |-> Results(row[j]), offered |-> K, served |-> K]
      /\ Life[j] # None
  BY DEF ShownAsIs
<1>2. Life'[j] = [metric  |-> row'[j].metric, status |-> row'[j].status,
                  results |-> Results(row'[j]), offered |-> K, served |-> K]
  BY DEF ShownAsIs
<1> HIDE DEF K
<1>3. /\ Life[j].status = "running" /\ Life[j].metric = row[j].metric
      /\ Life[j].results = Results(row[j])
  BY <1>1
<1>4. Life'[j] = S
  <2>1. S = [metric  |-> row[j].metric, status |-> row[j].status,
             results |-> Results(row[j]) \cup {x}, offered |-> K, served |-> K]
    BY <1>1
  <2> QED BY <1>2, <2>1
<1>5. Life' = [Life EXCEPT ![j] = Life'[j]]
  BY LifeMoves DEF Life
<1>6. CASE x \in Life[j].results
  <2>1. Life'[j] = Life[j]
    BY <1>1, <1>2, <1>3, <1>6
  <2> QED BY <1>5, <2>1 DEF Life
<1>7. CASE x \notin Life[j].results
  BY <1>1, <1>3, <1>4, <1>5, <1>7 DEF Lifecycle!Publish, Life
<1> QED BY <1>6, <1>7

\* A row that comes into being is a submission.
LEMMA SubmitShown ==
    ASSUME TypeInv, ShownAsIs', NEW j \in Job, ~HasRow(j), HasRow(j)', NEW m \in Metric,
           \A i \in Job \ {j} : row'[i] = row[i], UNCHANGED heatmap,
           row'[j] = Store!NewRow(m)
    PROVE  Lifecycle!Submit(j, m)
<1>1. /\ row'[j].metric = m /\ row'[j].status = "queued"
      /\ Results(row'[j]) = {} /\ Lifecycle!Links(m, "queued") = {}
  <2>1. /\ row'[j].metric = m /\ row'[j].status = "queued"
        /\ ~row'[j].lpips /\ ~row'[j].has_heatmap /\ ~row'[j].dists
    BY DEF Store!NewRow
  <2>2. Results(row'[j]) = {}
    BY <2>1 DEF Results
  <2>3. Lifecycle!Links(m, "queued") = {}
    BY DEF Lifecycle!Links, Lifecycle!Link
  <2> QED BY <2>1, <2>2, <2>3
<1>2. Life'[j] = [metric  |-> row'[j].metric, status |-> row'[j].status,
                  results |-> Results(row'[j]),
                  offered |-> Lifecycle!Links(row'[j].metric, row'[j].status),
                  served  |-> Lifecycle!Links(row'[j].metric, row'[j].status)]
  BY DEF ShownAsIs
<1>3. Life'[j] = [metric |-> m, status |-> "queued", results |-> {},
                  offered |-> {}, served |-> {}]
  BY <1>1, <1>2
<1>4. Life' = [Life EXCEPT ![j] = Life'[j]]
  BY LifeMoves DEF Life
<1>5. Life[j] = None
  BY DEF Life
<1> QED BY <1>3, <1>4, <1>5 DEF Lifecycle!Submit, Life

\* Every step of the system moves one abstract job one step, or none.
LEMMA LifeNext ==
    ASSUME Once, ~CallsRaise, HeatmapsExpire = FALSE,
           TypeInv, RowsInv, OneInv, Know, Drawn, TypeInv', Drawn', [Next]_vars
    PROVE  Lifecycle!Next \/ Life' = Life
<1>1. ShownAsIs /\ ShownAsIs'
  BY ShownAs, PTL
<1>2. ASSUME NEW c \in Client, Store!Command(c), NEW j \in Job, row'[j] # row[j]
      PROVE  Lifecycle!Next \/ Life' = Life
  <2>1. (\A i \in Job \ {j} : row'[i] = row[i]) /\ UNCHANGED heatmap
    <3>1. row \in [Job -> Store!Row \cup {None}]
      BY StoreTyped DEF Store!TypeOK
    <3>2. Creates(c) \/ Sets(c)
      BY <1>2, CommandOf DEF Gets, Confirms, Draws, Indexes, Lists
    <3>3. row' = [row EXCEPT ![call[c].job] = call[c].data] /\ UNCHANGED heatmap
      BY <1>2, <3>2 DEF Creates, Sets
    <3> QED BY <1>2, <3>1, <3>3
  <2>2. CASE row[j] = None /\ c \in Request /\ row'[j] = Store!NewRow(MetricOf[c])
    <3>1. MetricOf[c] \in Metric /\ Store!NewRow(MetricOf[c]) \in Store!Row
      BY <2>2, CompareAssumption DEF Store!NewRow, Store!Row, Store!Status
    <3>2. ~HasRow(j) /\ HasRow(j)'
      BY <2>2, <3>1, RowAssumption DEF HasRow
    <3>3. Lifecycle!Submit(j, MetricOf[c])
      BY <1>1, <2>1, <2>2, <3>1, <3>2, SubmitShown
    <3> QED BY <3>1, <3>3 DEF Lifecycle!Next
  <2>3. ASSUME NEW p \in Updating, HasRow(j), row'[j] = Store!Merge(row[j], UpdateOf(p)),
               \/ p = "error" /\ row[j].status = "queued"
               \/ /\ row[j].status = IF p = "start" THEN "queued" ELSE "running"
                  /\ p \in {"save_lpips", "save_heatmap"} => row[j].metric # "dists"
                  /\ p = "save_dists" => row[j].metric # "lpips"
        PROVE  Lifecycle!Next \/ Life' = Life
    <3>1. row[j] \in Store!Row /\ HasRow(j)'
      BY <2>3, RowsTyped, RowsStay DEF Once
    <3>2. CASE p \in {"save_lpips", "save_heatmap", "save_dists"}
      <4> DEFINE x == CASE p = "save_lpips"   -> "lpips"
                        [] p = "save_heatmap" -> "heatmap"
                        [] p = "save_dists"   -> "dists"
      <4>1. x \in Lifecycle!Wanted(row[j].metric) /\ x \in Lifecycle!Result
        BY <2>3, <3>2 DEF Lifecycle!Wanted, Lifecycle!Result
      <4>2. /\ row'[j].metric = row[j].metric
            /\ row[j].status = "running" /\ row'[j].status = "running"
        BY <2>3, <3>1, <3>2, Merged
      <4>3. Results(row'[j]) = Results(row[j]) \cup {x}
        <5>1. /\ row'[j].lpips <=> (row[j].lpips \/ p = "save_lpips")
              /\ row'[j].has_heatmap <=> (row[j].has_heatmap \/ p = "save_heatmap")
              /\ row'[j].dists <=> (row[j].dists \/ p = "save_dists")
          BY <2>3, <3>1, Merged
        <5> QED BY <3>2, <5>1 DEF Results
      <4> HIDE DEF x
      <4>4. Life' = Life \/ Lifecycle!Publish(j, x)
        BY <1>1, <2>1, <2>3, <3>1, <4>1, <4>2, <4>3, PublishShown
      <4> QED BY <4>1, <4>4 DEF Lifecycle!Next
    <3>3. CASE p \in {"start", "save_done", "requeue", "error"}
      <4>1. row'[j].metric = row[j].metric /\ Results(row'[j]) = Results(row[j])
        <5>1. /\ row'[j].metric = row[j].metric
              /\ row'[j].lpips <=> row[j].lpips
              /\ row'[j].has_heatmap <=> row[j].has_heatmap
              /\ row'[j].dists <=> row[j].dists
          BY <2>3, <3>1, <3>3, Merged
        <5> QED BY <5>1 DEF Results
      <4>2. Lifecycle!Becomes(j, row[j].status, row'[j].status)
        BY <1>1, <2>1, <2>3, <3>1, <4>1, BecomesShown
      <4>3. row'[j].status = CASE p = "start"     -> "running"
                               [] p = "save_done" -> "done"
                               [] p = "requeue"   -> "queued"
                               [] p = "error"     -> "error"
        BY <2>3, <3>1, <3>3, Merged
      <4>4. CASE p = "start"
        BY <2>3, <4>2, <4>3, <4>4 DEF Lifecycle!Next, Lifecycle!Start
      <4>5. CASE p = "requeue"
        BY <2>3, <4>2, <4>3, <4>5 DEF Lifecycle!Next, Lifecycle!FallBack
      <4>6. CASE p = "error"
        BY <2>3, <4>2, <4>3, <4>6 DEF Lifecycle!Next, Lifecycle!Fail, Lifecycle!Reject
      <4>7. CASE p = "save_done"
        <5>1. RowSound(row'[j]) /\ row'[j].status = "done"
          BY <3>1, <4>3, <4>7 DEF Drawn, RowsSound
        <5>2. Results(row[j]) = Lifecycle!Wanted(row[j].metric)
          <6>1. /\ row'[j].lpips <=> row'[j].metric # "dists"
                /\ row'[j].has_heatmap <=> row'[j].metric # "dists"
                /\ row'[j].dists <=> row'[j].metric # "lpips"
            BY <5>1 DEF RowSound
          <6>2. Results(row'[j]) = Lifecycle!Wanted(row'[j].metric)
            BY <6>1 DEF Results, Lifecycle!Wanted, Lifecycle!Result
          <6> QED BY <4>1, <6>2
        <5>3. Life[j].results = Results(row[j]) /\ Life[j].metric = row[j].metric
          BY <2>3 DEF Life, Shown, Results
        <5>4. Life[j].results = Lifecycle!Wanted(Life[j].metric)
          BY <5>2, <5>3
        <5>5. Lifecycle!Finish(j)
          BY <2>3, <4>2, <4>3, <4>7, <5>4 DEF Lifecycle!Finish, Life
        <5> QED BY <5>5 DEF Lifecycle!Next
      <4> QED BY <3>3, <4>4, <4>5, <4>6, <4>7
    <3> QED BY <3>2, <3>3 DEF Updating
  <2>4. "error" \in Updating
    BY DEF Updating
  <2> QED BY <1>2, <2>2, <2>3, <2>4, StatusMoves
<1>3. CASE row' = row
  <2>1. \A j \in Job : Life'[j] = Life[j]
    BY <1>1, <1>3 DEF ShownAsIs, Life, HasRow
  <2> QED BY <2>1 DEF Life
<1>4. CASE row' # row
  <2>1. PICK c \in Client : Store!Command(c)
    BY <1>4, RowChange
  <2>2. row \in [Job -> Store!Row \cup {None}] /\ row' \in [Job -> Store!Row \cup {None}]
    BY StoreTyped, SameTypes DEF Store!TypeOK, TypeInv, Redis!TypeInv, Redis!TypeOK
  <2>3. \E j \in Job : row'[j] # row[j]
    BY <1>4, <2>2
  <2> QED BY <1>2, <2>1, <2>3
<1> QED BY <1>3, <1>4

\* Polling shows each job the life that JobLifecycle promises: queued, running,
\* each result once and only what was asked for, then done or error, and nothing
\* after that; a URL is offered when, and as long as, it is served.
THEOREM LifecycleKept ==
    ASSUME Once, ~CallsRaise, HeatmapsExpire = FALSE
    PROVE  Spec => Lifecycle!Safety
<1>1. Init => Lifecycle!Init
  BY DEF Init, Store!Init, HasRow, Lifecycle!Init
<1>2. TypeInv /\ RowsInv /\ OneInv /\ Know /\ Drawn /\ TypeInv' /\ Drawn' /\ [Next]_vars =>
        [Lifecycle!Next]_Life
  BY LifeNext DEF Life
<1>3. Know /\ Redis!HeatmapBacked => Drawn
  BY DEF Know, HeatmapsOwned, Redis!HeatmapBacked, Drawn, HasRow
<1>4. Redis!Spec => []Redis!HeatmapBacked
  BY Redis!HeatmapsBacked, StoreAssumptions
<1>5. Spec => [](TypeInv /\ RowsInv /\ OneInv /\ Know)
  BY Invariants
<1>6. Spec => [][Lifecycle!Next]_Life
  BY StoreRefined, <1>2, <1>3, <1>4, <1>5, PTL DEF Spec
<1>7. [][Lifecycle!Next]_Life => [][Lifecycle!Next]_[j \in Job |-> IF HasRow(j) THEN Shown(j) ELSE None]
  <2>1. [Lifecycle!Next]_Life => [Lifecycle!Next]_[j \in Job |-> IF HasRow(j) THEN Shown(j) ELSE None]
    BY DEF Life
  <2> QED BY <2>1, PTL
<1> QED BY <1>1, <1>6, <1>7, PTL DEF Spec, Lifecycle!Safety

-----------------------------------------------------------------------------
(***************************************************************************)
(* Whose heatmap is served                                                 *)
(*                                                                         *)
(* Everything may be delivered twice and anything may die here: nobody     *)
(* knows what the row says, except for its metric.                         *)
(***************************************************************************)

\* Whoever has a job in hand was asked for the metric in its row.
MetricsAgree ==
    /\ \A r \in Request : HasIt(r) => row[JobOf[r]].metric = MetricOf[r]
    /\ \A m \in Message : queue[m] > 0 => row[JobOf[m.request]].metric = MetricOf[m.request]
    /\ \A w \in Worker : task[w].at # "idle" =>
          row[JobAt(w)].metric = MetricOf[task[w].msg.request]

\* An execution computes a heatmap only when it was asked for LPIPS.
DrawersNeed ==
    \A w \in Worker :
        task[w].at \in {"lpips", "save_lpips", "save_heatmap"} => NeedsLpips(task[w].msg)

\* What a heatmap request knows from its first read is what the row still says.
ReadsHold ==
    \A d \in Reader : read[d] # None =>
        HasRow(read[d].job) /\ row[read[d].job].metric = read[d].metric

Belonging == MetricsAgree /\ DrawersNeed /\ HeatmapsOwned /\ ReadsHold

\* Rows stay, and so do their metrics.
MetricsStay == \A j \in Job : HasRow(j) => HasRow(j)' /\ row'[j].metric = row[j].metric

\* A row gets its metric from the handler that creates it, and the message and
\* the execution that follow are of the same request.
LEMMA MetricsNext ==
    ASSUME TypeInv, RowsInv, MetricsAgree, MetricsStay, [Next]_vars
    PROVE  MetricsAgree'
<1>1. ASSUME NEW r \in Request, HasIt(r)' PROVE row'[JobOf[r]].metric = MetricOf[r]
  <2>1. JobOf[r] \in Job /\ row \in [Job -> Store!Row \cup {None}]
    BY CompareAssumption, StoreTyped DEF Store!TypeOK
  <2>2. CASE HasIt(r)
    BY <2>1, <2>2 DEF MetricsAgree, MetricsStay, RowsInv
  <2>3. CASE ~HasIt(r)
    <3>1. row' = [row EXCEPT ![JobOf[r]] = Store!NewRow(MetricOf[r])]
      BY <1>1, <2>3, HasItNext
    <3>2. row'[JobOf[r]] = Store!NewRow(MetricOf[r])
      BY <2>1, <3>1
    <3> QED BY <3>2 DEF Store!NewRow
  <2> QED BY <2>2, <2>3
<1>2. ASSUME NEW m \in Message, queue'[m] > 0
      PROVE  row'[JobOf[m.request]].metric = MetricOf[m.request]
  <2>1. JobOf[m.request] \in Job
    BY CompareAssumption DEF Message
  <2>2. ASSUME HasRow(JobOf[m.request]), row[JobOf[m.request]].metric = MetricOf[m.request]
        PROVE  row'[JobOf[m.request]].metric = MetricOf[m.request]
    BY <2>1, <2>2 DEF MetricsStay
  <2>3. CASE queue[m] > 0
    BY <2>2, <2>3 DEF MetricsAgree, RowsInv
  <2>4. CASE ~(queue[m] > 0)
    <3>1. queue'[m] > queue[m]
      BY <1>2, <2>4 DEF TypeInv, Types
    <3>2. ASSUME NEW r \in Request, m = FirstMessage(r), post[r] = "creating", CallOk(r)
          PROVE  row'[JobOf[m.request]].metric = MetricOf[m.request]
      <4>1. HasIt(r) /\ m.request = r
        BY <3>2 DEF FirstMessage, HasIt, CallOk
      <4> QED BY <2>2, <4>1 DEF MetricsAgree, RowsInv
    <3>3. ASSUME NEW w \in Worker, task[w].at # "idle", m.request = task[w].msg.request
          PROVE  row'[JobOf[m.request]].metric = MetricOf[m.request]
      BY <2>2, <3>3 DEF MetricsAgree, RowsInv, JobAt
    <3> QED BY <3>1, <3>2, <3>3, MessageNext
  <2> QED BY <2>3, <2>4
<1>3. ASSUME NEW w \in Worker, task'[w].at # "idle"
      PROVE  row'[JobOf[task'[w].msg.request]].metric = MetricOf[task'[w].msg.request]
  <2>1. CASE task[w].at # "idle" /\ task'[w].msg = task[w].msg
    <3>1. JobAt(w) \in Job /\ HasRow(JobAt(w))
          /\ row[JobAt(w)].metric = MetricOf[task[w].msg.request]
      BY <2>1, JobsTyped DEF MetricsAgree, RowsInv
    <3>2. row'[JobAt(w)].metric = MetricOf[task[w].msg.request]
      BY <3>1 DEF MetricsStay
    <3> QED BY <2>1, <3>2 DEF JobAt
  <2>2. ASSUME NEW m \in Message, task'[w].msg = m, queue[m] > 0
        PROVE  row'[JobOf[task'[w].msg.request]].metric = MetricOf[task'[w].msg.request]
    <3>1. JobOf[m.request] \in Job /\ HasRow(JobOf[m.request])
          /\ row[JobOf[m.request]].metric = MetricOf[m.request]
      BY <2>2, CompareAssumption DEF Message, MetricsAgree, RowsInv
    <3>2. row'[JobOf[m.request]].metric = MetricOf[m.request]
      BY <3>1 DEF MetricsStay
    <3> QED BY <2>2, <3>2
  <2> QED BY <1>3, <2>1, <2>2, TaskNext
<1> QED BY <1>1, <1>2, <1>3 DEF MetricsAgree, JobAt

\* The way to a heatmap begins where the execution asks for its metric.
LEMMA DrawersNext ==
    ASSUME TypeInv, DrawersNeed, [Next]_vars
    PROVE  DrawersNeed'
<1> SUFFICES ASSUME NEW w \in Worker, task'[w].at \in {"lpips", "save_lpips", "save_heatmap"}
             PROVE  NeedsLpips(task'[w].msg)
  BY DEF DrawersNeed
<1>1. CASE task'[w] = task[w]
  BY <1>1 DEF DrawersNeed
<1>2. CASE task'[w] # task[w]
  <2>1. \A r \in Request : ~HandlerMove(r)
    BY <1>2 DEF HandlerMove, Submits, Refuses, Enqueues, GivesUp, Apologises, Dies
  <2>2. ~StoreMove
    BY <1>2 DEF StoreMove
  <2>3. PICK v \in Worker : WorkerMove(v)
    BY <2>1, <2>2, StepMoves
  <2>4. v = w
    BY <1>2, <2>3 DEF WorkerMove, Walks, Calls, Republishes, Goes, Ends, Takes, Dead, Stops,
       Redelivers, OnlyTask, TypeInv, Types
  <2>5. ASSUME NEW p \in Place, Walks(w, p) PROVE NeedsLpips(task'[w].msg)
    BY <2>5 DEF Walks, Walk, Goes
  <2>6. ASSUME NEW p \in Place, Calls(w, p) PROVE NeedsLpips(task'[w].msg)
    BY <2>6 DEF Calls, Stores, Goes, DrawersNeed
  <2>7. Redelivers(w) => NeedsLpips(task'[w].msg)
    BY DEF Redelivers, DrawersNeed
  <2>8. /\ ~Republishes(w) /\ ~Ends(w) /\ ~Dead(w)
        /\ \A m \in Message : ~Takes(w, m)
    BY DEF Republishes, Goes, Ends, Dead, Stops, Takes, NoTask, TypeInv, Types
  <2> QED BY <2>3, <2>4, <2>5, <2>6, <2>7, <2>8 DEF WorkerMove
<1> QED BY <1>1, <1>2

\* A heatmap is stored by such an execution, under the job that it has in hand.
LEMMA OwnedNext ==
    ASSUME TypeInv, RowsInv, MetricsAgree, DrawersNeed, HeatmapsOwned, MetricsStay, [Next]_vars
    PROVE  HeatmapsOwned'
<1>1. ASSUME NEW j \in heatmap PROVE HasRow(j)' /\ row'[j].metric # "dists"
  BY StoreTyped DEF HeatmapsOwned, MetricsStay, Store!TypeOK
<1>2. CASE heatmap' \subseteq heatmap
  BY <1>1, <1>2 DEF HeatmapsOwned
<1>3. ASSUME NEW w \in Worker, NEW j \in Job, task[w].at = "save_heatmap", j = JobAt(w),
             heatmap' = heatmap \cup {j}
      PROVE  HeatmapsOwned'
  <2>1. task[w].msg \in Message /\ HasRow(j)
    BY <1>3, JobsTyped DEF RowsInv
  <2>2. row[j].metric = MetricOf[task[w].msg.request] /\ NeedsLpips(task[w].msg)
    BY <1>3 DEF MetricsAgree, DrawersNeed
  <2>3. row[j].metric # "dists"
    BY <2>1, <2>2, Needs
  <2>4. HasRow(j)' /\ row'[j].metric # "dists"
    BY <2>1, <2>3 DEF MetricsStay
  <2> QED BY <1>1, <1>3, <2>4 DEF HeatmapsOwned
<1>4. CASE StoreMove
  <2>1. ASSUME NEW c \in Client, Store!Command(c) PROVE HeatmapsOwned'
    <3>1. CASE c \in Worker /\ task[c].at = "save_heatmap" /\ call[c].job = JobAt(c) /\ Draws(c)
      <4>1. task[c].at # "idle"
        BY <3>1
      <4>2. PICK j \in Job : j = JobAt(c)
        BY <3>1, <4>1, JobsTyped
      <4> QED BY <1>3, <3>1, <4>2 DEF Draws
    <3>2. CASE UNCHANGED heatmap
      BY <1>2, <3>2
    <3> QED BY <2>1, <3>1, <3>2, CommandOf DEF Gets, Sets, Confirms, Creates, Indexes, Lists
  <2>2. \A j \in Job : Store!Expire(j) => heatmap' \subseteq heatmap
    BY ExpireMoves
  <2> QED BY <1>2, <1>4, <2>1, <2>2 DEF StoreMove, Asks, Raises, storeVars
<1>5. \A r \in Request : HandlerMove(r) => UNCHANGED heatmap
  BY DEF HandlerMove, Submits, Refuses, Enqueues, GivesUp, Apologises, Dies
<1>6. \A w \in Worker : WorkerMove(w) => UNCHANGED heatmap
  BY DEF WorkerMove, Walks, Calls, Republishes, Ends, Takes, Dead, Stops, Redelivers, storeVars
<1> QED BY <1>2, <1>4, <1>5, <1>6, StepMoves

\* The row may be written between the two reads, but its metric stays.
LEMMA ReadsNext ==
    ASSUME TypeInv, ReadsHold, MetricsStay, [Next]_vars
    PROVE  ReadsHold'
<1>1. \A j \in Job : HasRow(j) => HasRow(j)' /\ row'[j].metric = row[j].metric
  BY DEF MetricsStay
<1>2. \A d \in Reader : read[d] # None => read[d].job \in Job
  BY DEF TypeInv, Types, HeatmapRead
<1>3. ASSUME NEW d \in Reader, GetHeatmapRow(d) PROVE ReadsHold'
  <2>1. PICK j \in Job : /\ row[j] # None /\ UNCHANGED row
                         /\ read' = [read EXCEPT ![d] = [job |-> j, metric |-> row[j].metric,
                                                   has_heatmap |-> row[j].has_heatmap]]
    BY <1>3 DEF GetHeatmapRow, storeVars
  <2>2. read'[d].job = j /\ read'[d].metric = row[j].metric
    BY <2>1 DEF TypeInv, Types
  <2>3. \A e \in Reader \ {d} : read'[e] = read[e]
    BY <2>1 DEF TypeInv, Types
  <2> QED BY <2>1, <2>2, <2>3 DEF ReadsHold, HasRow
<1>4. ASSUME NEW d \in Reader, GetHeatmapPng(d) PROVE ReadsHold'
  BY <1>1, <1>2, <1>4 DEF GetHeatmapPng, ReadsHold, TypeInv, Types
<1>5. ASSUME UNCHANGED read PROVE ReadsHold'
  BY <1>1, <1>2, <1>5 DEF ReadsHold
<1>6. \A r \in Request : Submit(r) \/ Handle(r) \/ ApiDies(r) => UNCHANGED read
  BY DEF Submit, Handle, ApiDies, Refuse, Enqueue, EnqueueFails, Apologise
<1>7. \A w \in Worker : Take(w) \/ Execute(w) \/ Kill(w) \/ Crash(w) \/ Reconnect(w) => UNCHANGED read
  BY ExecuteMoves DEF Take, Kill, Crash, Reconnect, Stop
<1>8. \A c \in Client : StoreCommand(c) \/ StoreRaises(c) => UNCHANGED read
  BY DEF StoreCommand, StoreRaises
<1>9. (\A d \in Reader : ListJobs(d) => UNCHANGED read) /\ (\A j \in Job : Expire(j) => UNCHANGED read)
  BY DEF ListJobs, Expire
<1>10. UNCHANGED vars => UNCHANGED read
  BY DEF vars
<1> QED BY <1>3, <1>4, <1>5, <1>6, <1>7, <1>8, <1>9, <1>10 DEF Next

\* The heatmap that GET .../heatmap answers with is of a job that asked for
\* LPIPS, whatever fails, dies or is delivered twice.  Only a second row under
\* the id of a job makes it otherwise, and that needs rows that expire.
THEOREM HeatmapsBelong == ASSUME JobsExpire = FALSE PROVE Spec => []HeatmapBelongs
<1> DEFINE MetricKept == \A j \in Job : row[j] # None /\ row'[j] # None =>
                                          row'[j].metric = row[j].metric
<1>1. Init => RowsInv /\ Belonging
  BY RowsInit DEF Init, Store!Init, Belonging, MetricsAgree, DrawersNeed, HeatmapsOwned, ReadsHold,
     HasIt, NoTask
<1>2. TypeInv /\ RowsInv /\ Belonging /\ [Next]_vars /\ [MetricKept]_row => (RowsInv /\ Belonging)'
  <2> SUFFICES ASSUME TypeInv, RowsInv, Belonging, [Next]_vars, [MetricKept]_row
               PROVE  RowsInv' /\ Belonging'
    OBVIOUS
  <2>1. MetricsStay
    BY RowsStay DEF MetricsStay, HasRow
  <2> QED BY <2>1, RowsNext, MetricsNext, DrawersNext, OwnedNext, ReadsNext DEF Belonging
<1>3. TypeInv /\ Belonging => HeatmapBelongs
  <2> SUFFICES ASSUME TypeInv, Belonging,
                      NEW d \in Reader, read[d] # None, read[d].job \in heatmap
               PROVE  read[d].metric \in {"lpips", "both"}
    BY DEF HeatmapBelongs
  <2>1. read[d].metric \in Metric /\ read[d].metric # "dists"
    BY DEF TypeInv, Types, HeatmapRead, Belonging, HeatmapsOwned, ReadsHold
  <2> QED BY <2>1, CompareAssumption
<1>4. Redis!Spec => [][MetricKept]_row
  BY Redis!IdentityKept, StoreAssumptions DEF Redis!IdentityStable
<1> QED BY TypeInit, TypeNext, StoreRefined, <1>1, <1>2, <1>3, <1>4, PTL DEF Spec
=============================================================================
