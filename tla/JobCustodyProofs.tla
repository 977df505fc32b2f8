--------------------------- MODULE JobCustodyProofs ---------------------------
(***************************************************************************)
(* Who has a job in hand, and whether anybody does: no job is orphaned, no *)
(* job is in two pairs of hands, and the gauge counts the executions.      *)
(*                                                                         *)
(* Every theorem names the faults it excludes; everything else of module   *)
(* CompareJobs may happen, in any order and any number of times.           *)
(***************************************************************************)
EXTENDS CompareJobsProofs

-----------------------------------------------------------------------------
(***************************************************************************)
(* The kinds of steps                                                      *)
(***************************************************************************)

OnlyPost(r) == \A q \in Request \ {r} : post'[q] = post[q]

FirstMessage(r) == [request |-> r, fallback |-> FALSE]

Submits(r) ==
    /\ post[r] = "new" /\ post'[r] = "creating" /\ OnlyPost(r)
    /\ Done(call[r]) /\ At(r, "create_set", JobOf[r]) /\ OnlyCall(r)
    /\ call'[r].data = Store!NewRow(MetricOf[r])
    /\ UNCHANGED <<row, index, heatmap, queue, task>>

Refuses(r) ==
    /\ post[r] = "creating" /\ post'[r] \in {"conflict", "broken"} /\ OnlyPost(r)
    /\ Done(call[r]) /\ ~CallOk(r)
    /\ UNCHANGED <<row, index, heatmap, call, queue, task>>

Enqueues(r) ==
    /\ post[r] = "creating" /\ post'[r] = "accepted" /\ OnlyPost(r)
    /\ CallOk(r) /\ Put(FirstMessage(r))
    /\ UNCHANGED <<row, index, heatmap, call, task>>

GivesUp(r) ==
    /\ post[r] = "creating" /\ post'[r] = "failing" /\ OnlyPost(r)
    /\ CallOk(r) /\ At(r, "update_get", JobOf[r]) /\ call'[r].fields = Store!Error /\ OnlyCall(r)
    /\ UNCHANGED queue \/ ("publish_unsure" \in Faults /\ Put(FirstMessage(r)))
    /\ UNCHANGED <<row, index, heatmap, task>>

Apologises(r) ==
    /\ post[r] = "failing" /\ OnlyPost(r) /\ Done(call[r])
    /\ post'[r] = IF CallOk(r) THEN "unavailable" ELSE "broken"
    /\ UNCHANGED <<row, index, heatmap, call, queue, task>>

Dies(r) ==
    /\ "api_crash" \in Faults
    /\ post[r] \in Handling /\ post'[r] = "broken" /\ OnlyPost(r)
    /\ Done(call'[r]) /\ OnlyCall(r)
    /\ UNCHANGED <<row, heatmap, queue, task>>

\* The death of the task's process, or of the worker with what it holds.
Dead(w) ==
    /\ Stops(w)
    /\ \/ "kill" \in Faults /\ UNCHANGED queue
       \/ "crash" \in Faults /\ IF task[w].owns THEN Put(task[w].msg) ELSE UNCHANGED queue

Redelivers(w) ==
    /\ "reconnect" \in Faults
    /\ task[w].at # "idle" /\ Put(task[w].msg)
    /\ task' \in [Worker -> Task] /\ OnlyTask(w)
    /\ task'[w].at = task[w].at /\ task'[w].msg = task[w].msg
    /\ UNCHANGED storeVars

\* A client that only reads begins its call.
Asks(d) ==
    /\ OnlyCall(d) /\ Done(call[d]) /\ call'[d].at = "list_zrange"
    /\ UNCHANGED <<row, index, heatmap>>

\* Store calls may raise what the store does not: Redis's error, or the soft limit.
CallsRaise == Faults \cap {"redis", "soft_limit"} # {}

\* A store call raises where it is.
Raises(c) ==
    /\ CallsRaise
    /\ ~Done(call[c]) /\ OnlyCall(c) /\ call'[c].at = "failed"
    /\ UNCHANGED <<row, heatmap>>

HandlerMove(r) ==
    Submits(r) \/ Refuses(r) \/ Enqueues(r) \/ GivesUp(r) \/ Apologises(r) \/ Dies(r)

WorkerMove(w) ==
    /\ UNCHANGED post
    /\ \/ \E p \in Place : Walks(w, p) \/ Calls(w, p)
       \/ Republishes(w) \/ Ends(w)
       \/ \E m \in Message : Takes(w, m)
       \/ Dead(w) \/ Redelivers(w)

StoreMove ==
    /\ UNCHANGED <<post, queue, task>>
    /\ \/ \E d \in Reader : Asks(d)
       \/ \E c \in Client : Store!Command(c) \/ Raises(c)
       \/ \E j \in Job : Store!Expire(j)
       \/ UNCHANGED storeVars

\* Every step of a handler is one of these.
LEMMA HandlerStep ==
    ASSUME TypeInv, NEW r \in Request, Submit(r) \/ Handle(r) \/ ApiDies(r)
    PROVE  HandlerMove(r)
<1>1. Store!TypeOK /\ r \in Client /\ post \in [Request -> {"new"} \cup Handling \cup Answer]
  BY StoreTyped, Clients DEF TypeInv, Types
<1> USE DEF Returned, Store!Returned, Done, CallOk, CallRaised, Answers, OnlyPost
<1>2. CASE Submit(r)
  <2>1. /\ Done(call[r]) /\ UNCHANGED <<row, index, heatmap>> /\ OnlyCall(r)
        /\ At(r, "create_set", JobOf[r]) /\ call'[r].data = Store!NewRow(MetricOf[r])
    BY <1>1, <1>2, CallsMove DEF Submit
  <2> QED BY <1>1, <1>2, <2>1 DEF Submit, Submits, HandlerMove
<1>3. CASE Refuse(r)
  BY <1>1, <1>3 DEF Refuse, Refuses, HandlerMove, storeVars
<1>4. CASE Enqueue(r)
  BY <1>1, <1>4 DEF Enqueue, Enqueues, FirstMessage, HandlerMove, storeVars
<1>5. CASE EnqueueFails(r)
  <2>1. /\ UNCHANGED <<row, index, heatmap>> /\ OnlyCall(r)
        /\ At(r, "update_get", JobOf[r]) /\ call'[r].fields = Store!Error
    BY <1>1, <1>5, CallsMove DEF EnqueueFails
  <2>2. UNCHANGED queue \/ ("publish_unsure" \in Faults /\ Put(FirstMessage(r)))
    BY <1>5 DEF EnqueueFails, Fault, FirstMessage
  <2>3. post'[r] = "failing" /\ OnlyPost(r)
    BY <1>1, <1>5 DEF EnqueueFails
  <2> QED BY <1>5, <2>1, <2>2, <2>3 DEF EnqueueFails, GivesUp, HandlerMove
<1>6. CASE Apologise(r)
  BY <1>1, <1>6 DEF Apologise, Apologises, HandlerMove, storeVars
<1>7. CASE ApiDies(r)
  <2>1. OnlyCall(r) /\ Done(call'[r]) /\ UNCHANGED <<row, heatmap>>
    BY <1>1, <1>7, AbandonMoves DEF ApiDies, DropCall, storeVars, OnlyCall, Returned,
       Store!Returned, Done, Store!Outcome
  <2> QED BY <1>1, <1>7, <2>1 DEF ApiDies, Fault, Dies, HandlerMove
<1> QED BY <1>2, <1>3, <1>4, <1>5, <1>6, <1>7 DEF Handle

\* So is every step of a worker.
LEMMA WorkerStep ==
    ASSUME TypeInv, NEW w \in Worker,
           Take(w) \/ Execute(w) \/ Kill(w) \/ Crash(w) \/ Reconnect(w)
    PROVE  WorkerMove(w)
<1>1. CASE Execute(w)
  BY <1>1, ExecuteMoves DEF WorkerMove
<1>2. CASE Take(w)
  BY <1>2, WorkerStepMoves DEF WorkerMove, Take
<1>3. CASE Kill(w) \/ Crash(w)
  BY <1>3, WorkerStepMoves DEF Kill, Crash, Fault, Stop, Dead, WorkerMove
<1>4. CASE Reconnect(w)
  <2>1. task[w].at # "idle" /\ task \in [Worker -> Task]
    BY <1>4 DEF Reconnect, TypeInv, Types, Placed, TaskPlaced
  <2>2. task' \in [Worker -> Task] /\ OnlyTask(w)
    BY <1>4, <2>1 DEF Reconnect, Task, OnlyTask
  <2>3. task'[w].at = task[w].at /\ task'[w].msg = task[w].msg
    BY <1>4, <2>1 DEF Reconnect, Task
  <2> QED BY <1>4, <2>1, <2>2, <2>3 DEF Reconnect, Fault, Redelivers, WorkerMove
<1> QED BY <1>1, <1>2, <1>3, <1>4

\* Every step of the system is one of these.
LEMMA StepMoves ==
    ASSUME TypeInv, [Next]_vars
    PROVE  \/ \E r \in Request : HandlerMove(r)
           \/ \E w \in Worker : WorkerMove(w)
           \/ StoreMove
<1>1. Store!TypeOK
  BY StoreTyped
<1>2. ASSUME NEW d \in Reader, ListJobs(d) PROVE StoreMove
  <2>1. \A j : Store!CallList(d) =>
                 /\ Returned(d) /\ UNCHANGED <<row, index, heatmap>> /\ OnlyCall(d)
                 /\ call'[d].at = "list_zrange"
    BY <1>1, Clients, CallsMove
  <2>2. Asks(d)
    BY <1>2, <2>1 DEF ListJobs, Asks, Done, Returned, Store!Returned
  <2> QED BY <1>2, <2>2 DEF ListJobs, StoreMove
<1>3. ASSUME NEW d \in Reader, GetHeatmapRow(d) \/ GetHeatmapPng(d) PROVE StoreMove
  BY <1>3 DEF GetHeatmapRow, GetHeatmapPng, StoreMove
<1>4. ASSUME NEW c \in Client, StoreCommand(c) PROVE StoreMove
  BY <1>4 DEF StoreCommand, StoreMove
<1>5. ASSUME NEW c \in Client, StoreRaises(c) PROVE StoreMove
  <2>1. Raises(c)
    BY <1>1, <1>5, AbandonMoves DEF StoreRaises, Fault, CallsRaise, Raises, Done, Returned, Store!Returned
  <2> QED BY <1>5, <2>1 DEF StoreRaises, StoreMove
<1>6. ASSUME NEW j \in Job, Expire(j) PROVE StoreMove
  BY <1>6 DEF Expire, StoreMove
<1>7. UNCHANGED vars => StoreMove
  BY DEF vars, storeVars, StoreMove
<1> QED BY <1>2, <1>3, <1>4, <1>5, <1>6, <1>7, HandlerStep, WorkerStep DEF Next

\* Who sends which command, and for which job.
LEMMA CommandOf ==
    ASSUME TypeInv, NEW c \in Client, Store!Command(c)
    PROVE  /\ OnlyCall(c)
           /\ \/ /\ c \in Worker /\ task[c].at \in Updating
                 /\ Updates(call[c], JobAt(c), UpdateOf(task[c].at))
                 /\ Gets(c) \/ Sets(c) \/ Confirms(c)
              \/ /\ c \in Worker /\ task[c].at = "save_heatmap" /\ call[c].job = JobAt(c)
                 /\ Draws(c)
              \/ /\ c \in Request /\ post[c] = "failing"
                 /\ Updates(call[c], JobOf[c], Store!Error)
                 /\ Gets(c) \/ Sets(c) \/ Confirms(c)
              \/ /\ c \in Request /\ post[c] = "creating" /\ call[c].job = JobOf[c]
                 /\ call[c].at = "create_set" => call[c].data = Store!NewRow(MetricOf[c])
                 /\ Creates(c) \/ Indexes(c)
              \/ c \in Reader /\ Lists(c)
<1>1. /\ Store!TypeOK /\ OnlyCall(c)
      /\ \/ Creates(c) \/ Indexes(c) \/ Gets(c) \/ Sets(c) \/ Confirms(c)
         \/ Draws(c) \/ Lists(c)
  BY StoreTyped, CommandMoves
<1>2. ~Done(call[c])
  BY <1>1 DEF Done, Store!Outcome, Creates, Indexes, Gets, Sets, Confirms, Draws, Lists, Store!InList
<1>3. call[c].at \in Store!InUpdate => Gets(c) \/ Sets(c) \/ Confirms(c)
  BY <1>1 DEF Store!InUpdate, Creates, Indexes, Draws, Lists, Store!InList
<1>4. call[c].at = "heatmap_set" => Draws(c)
  BY <1>1 DEF Creates, Indexes, Gets, Sets, Confirms, Lists, Store!InList
<1>5. call[c].at \in Store!InCreate => Creates(c) \/ Indexes(c)
  BY <1>1 DEF Store!InCreate, Gets, Sets, Confirms, Draws, Lists, Store!InList
<1>6. call[c].at \in Store!InList => Lists(c)
  BY <1>1 DEF Store!InList, Creates, Indexes, Gets, Sets, Confirms, Draws
<1>7. CASE c \in Worker
  BY <1>1, <1>2, <1>3, <1>4, <1>7 DEF TypeInv, Placed, TaskPlaced, Updates, JobAt
<1>8. CASE c \in Request
  BY <1>1, <1>2, <1>3, <1>5, <1>8 DEF TypeInv, Placed, HandlerPlaced, Updates
<1>9. CASE c \in Reader
  BY <1>1, <1>2, <1>6, <1>9 DEF TypeInv, Placed
<1> QED BY <1>7, <1>8, <1>9 DEF Client

-----------------------------------------------------------------------------
(***************************************************************************)
(* No orphans                                                              *)
(*                                                                         *)
(* Carriers counts everybody who has a job in hand, also an execution that *)
(* has nothing left to do for it.  The invariant needs more: an unsettled  *)
(* job has a carrier that has still to write its row or to pass it on.     *)
(***************************************************************************)

HandlerCarries(p, f) ==
    \/ p = "creating" /\ f.at \in {"create_zadd", "ok"}
    \/ p = "failing" /\ f.at \in {"update_get", "update_set"}

TaskCarries(t, f) ==
    \/ t.at \in {"lpips", "save_lpips", "save_heatmap", "dists", "save_dists"}
    \/ t.at \in {"start", "requeue"} /\ f.at \in Store!InUpdate \cup {"ok"}
    \/ t.at = "save_done" /\ f.at \notin {"update_confirm", "ok"}
    \/ t.at = "error" /\ f.at \in {"update_get", "update_set"}

Carried(j) ==
    \/ \E r \in Request : JobOf[r] = j /\ HandlerCarries(post[r], call[r])
    \/ \E m \in Message : JobOf[m.request] = j /\ queue[m] > 0
    \/ \E w \in Worker : JobAt(w) = j /\ TaskCarries(task[w], call[w])

Unsettled(j) == HasRow(j) /\ ~Settled(j)

CarriedInv ==
    /\ \A j \in Job : Unsettled(j) => Carried(j)
    /\ "crash" \in Faults => \A w \in Worker : task[w].at # "idle" => task[w].owns

\* What NoOrphan needs not to happen: an execution that ends without a word, a
\* handler that does, a fallback that is not published; and that a worker dies
\* after its message was delivered to another.
Careful ==
    /\ Faults \cap {"redis", "soft_limit", "temp", "api_crash", "kill", "republish_lost"} = {}
    /\ "crash" \notin Faults \/ "reconnect" \notin Faults

\* When a handler moves, everybody else carries on.
LEMMA HandlerCarriesOn ==
    ASSUME TypeInv, NEW r \in Request, OnlyPost(r), OnlyCall(r), UNCHANGED task,
           \A m \in Message : queue[m] > 0 => queue'[m] > 0,
           NEW j \in Job, Carried(j),
           JobOf[r] = j /\ HandlerCarries(post[r], call[r]) => Carried(j)'
    PROVE  Carried(j)'
<1>1. ASSUME NEW q \in Request \ {r}, JobOf[q] = j, HandlerCarries(post[q], call[q])
      PROVE  Carried(j)'
  <2>1. post'[q] = post[q] /\ call'[q] = call[q]
    BY Clients DEF OnlyPost, OnlyCall
  <2> QED BY <1>1, <2>1 DEF Carried
<1>2. ASSUME NEW m \in Message, JobOf[m.request] = j, queue[m] > 0 PROVE Carried(j)'
  BY <1>2 DEF Carried
<1>3. ASSUME NEW w \in Worker, JobAt(w) = j, TaskCarries(task[w], call[w]) PROVE Carried(j)'
  <2>1. call'[w] = call[w] /\ task'[w] = task[w]
    BY Clients DEF OnlyCall
  <2> QED BY <1>3, <2>1 DEF Carried, JobAt
<1> QED BY <1>1, <1>2, <1>3 DEF Carried

\* When a worker moves, too, but it may take a message from its queue.
LEMMA WorkerCarriesOn ==
    ASSUME TypeInv, NEW w \in Worker, OnlyTask(w), OnlyCall(w), UNCHANGED post,
           NEW j \in Job, Carried(j),
           \A m \in Message : JobOf[m.request] = j /\ queue[m] > 0 => queue'[m] > 0 \/ Carried(j)',
           JobAt(w) = j /\ TaskCarries(task[w], call[w]) => Carried(j)'
    PROVE  Carried(j)'
<1>1. ASSUME NEW q \in Request, JobOf[q] = j, HandlerCarries(post[q], call[q])
      PROVE  Carried(j)'
  <2>1. post'[q] = post[q] /\ call'[q] = call[q]
    BY Clients DEF OnlyCall
  <2> QED BY <1>1, <2>1 DEF Carried
<1>2. ASSUME NEW m \in Message, JobOf[m.request] = j, queue[m] > 0 PROVE Carried(j)'
  BY <1>2 DEF Carried
<1>3. ASSUME NEW v \in Worker \ {w}, JobAt(v) = j, TaskCarries(task[v], call[v])
      PROVE  Carried(j)'
  <2>1. call'[v] = call[v] /\ task'[v] = task[v]
    BY Clients DEF OnlyCall, OnlyTask
  <2> QED BY <1>3, <2>1 DEF Carried, JobAt
<1> QED BY <1>1, <1>2, <1>3 DEF Carried

\* A publication adds a message and takes none away.
LEMMA PutAdds ==
    ASSUME TypeInv, NEW m \in Message, Put(m)
    PROVE  queue'[m] > 0 /\ \A n \in Message : queue[n] > 0 => queue'[n] > 0
BY PutMoves DEF TypeInv, Types

\* The handlers pass on what they have.
LEMMA HandlerKeepsCarried ==
    ASSUME Careful, TypeInv, NEW r \in Request, HandlerMove(r), NEW j \in Job, Carried(j)
    PROVE  Carried(j)'
<1>1. FirstMessage(r) \in Message /\ FirstMessage(r).request = r
  BY DEF FirstMessage, Message
<1>2. CASE Submits(r)
  BY <1>2, HandlerCarriesOn DEF Submits, HandlerCarries
<1>3. CASE Refuses(r)
  <2>1. OnlyCall(r) /\ ~HandlerCarries(post[r], call[r])
    BY <1>3 DEF Refuses, OnlyCall, HandlerCarries, CallOk, Done, Store!Outcome
  <2> QED BY <1>3, <2>1, HandlerCarriesOn DEF Refuses
<1>4. CASE Enqueues(r)
  <2>1. queue'[FirstMessage(r)] > 0 /\ \A n \in Message : queue[n] > 0 => queue'[n] > 0
    BY <1>1, <1>4, PutAdds DEF Enqueues
  <2>2. JobOf[r] = j => Carried(j)'
    BY <1>1, <2>1 DEF Carried
  <2> QED BY <1>4, <2>1, <2>2, HandlerCarriesOn DEF Enqueues, OnlyCall
<1>5. CASE GivesUp(r)
  <2>1. \A n \in Message : queue[n] > 0 => queue'[n] > 0
    BY <1>1, <1>5, PutAdds DEF GivesUp
  <2>2. HandlerCarries(post'[r], call'[r])
    BY <1>5 DEF GivesUp, HandlerCarries, At
  <2>3. JobOf[r] = j => Carried(j)'
    BY <2>2 DEF Carried
  <2> QED BY <1>5, <2>1, <2>3, HandlerCarriesOn DEF GivesUp
<1>6. CASE Apologises(r)
  <2>1. OnlyCall(r) /\ ~HandlerCarries(post[r], call[r])
    BY <1>6 DEF Apologises, OnlyCall, HandlerCarries, Done, Store!Outcome
  <2> QED BY <1>6, <2>1, HandlerCarriesOn DEF Apologises
<1>7. ~Dies(r)
  BY DEF Careful, Dies
<1> QED BY <1>2, <1>3, <1>4, <1>5, <1>6, <1>7 DEF HandlerMove

\* The executions do, too: when one ends its job is settled, or its message waits.
LEMMA WorkerKeepsCarried ==
    ASSUME Careful, TypeInv, CarriedInv, NEW w \in Worker, WorkerMove(w),
           NEW j \in Job, Unsettled(j), Carried(j)
    PROVE  Carried(j)'
<1>1. UNCHANGED post /\ TaskPlaced(task[w], call[w])
  BY DEF WorkerMove, TypeInv, Placed
<1>2. ASSUME NEW p \in Place, Walks(w, p) PROVE Carried(j)'
  <2>1. OnlyCall(w) /\ OnlyTask(w) /\ UNCHANGED <<queue, call>>
    BY <1>2 DEF Walks, Goes, storeVars, OnlyCall
  <2>2. TaskCarries(task[w], call[w]) => TaskCarries(task'[w], call'[w])
    BY <1>2, <2>1 DEF Careful, Walks, Walk, Goes, TaskCarries, Done, Store!Outcome, Store!InUpdate
  <2>3. task'[w].msg = task[w].msg
    BY <1>2 DEF Walks, Goes
  <2>4. JobAt(w) = j /\ TaskCarries(task[w], call[w]) => Carried(j)'
    BY <2>2, <2>3 DEF Carried, JobAt
  <2> QED BY <1>1, <2>1, <2>4, WorkerCarriesOn
<1>3. ASSUME NEW p \in Place, Calls(w, p) PROVE Carried(j)'
  <2>1. OnlyCall(w) /\ OnlyTask(w) /\ UNCHANGED queue
    BY <1>3 DEF Calls, Goes
  <2>2. TaskCarries(task'[w], call'[w])
    BY <1>3 DEF Calls, Stores, Goes, TaskCarries, At, Store!InUpdate
  <2>3. task'[w].msg = task[w].msg
    BY <1>3 DEF Calls, Goes
  <2>4. JobAt(w) = j /\ TaskCarries(task[w], call[w]) => Carried(j)'
    BY <2>2, <2>3 DEF Carried, JobAt
  <2> QED BY <1>1, <2>1, <2>4, WorkerCarriesOn
<1>4. CASE Republishes(w)
  <2> DEFINE m == [task[w].msg EXCEPT !.fallback = TRUE]
  <2>1. m \in Message /\ m.request = task[w].msg.request /\ Put(m)
    BY <1>4, JobsTyped DEF Republishes, Message
  <2>2. queue'[m] > 0 /\ \A n \in Message : queue[n] > 0 => queue'[n] > 0
    BY <2>1, PutAdds
  <2>3. JobAt(w) = j => Carried(j)'
    BY <2>1, <2>2 DEF Carried, JobAt
  <2>4. OnlyCall(w) /\ OnlyTask(w)
    BY <1>4 DEF Republishes, Goes, storeVars, OnlyCall
  <2> QED BY <1>1, <2>2, <2>3, <2>4, WorkerCarriesOn
<1>5. CASE Ends(w)
  <2>1. OnlyCall(w) /\ OnlyTask(w) /\ UNCHANGED queue /\ ~TaskCarries(task[w], call[w])
    BY <1>5 DEF Ends, storeVars, OnlyCall, OnlyTask, TaskCarries, TypeInv, Types
  <2> QED BY <1>1, <2>1, WorkerCarriesOn
<1>6. ASSUME NEW m \in Message, Takes(w, m) PROVE Carried(j)'
  <2>1. OnlyCall(w) /\ OnlyTask(w) /\ ~TaskCarries(task[w], call[w])
    BY <1>6 DEF Takes, TaskCarries
  <2>2. TaskCarries(task'[w], call'[w]) /\ task'[w].msg = m
    BY <1>6 DEF Takes, At, TaskCarries, Store!InUpdate
  <2>3. JobOf[m.request] = j => Carried(j)'
    BY <2>2 DEF Carried, JobAt
  <2>4. \A n \in Message \ {m} : queue'[n] = queue[n]
    BY <1>6 DEF Takes, TypeInv, Types
  <2> QED BY <1>1, <2>1, <2>3, <2>4, WorkerCarriesOn
<1>7. CASE Dead(w)
  <2>1. "crash" \in Faults /\ task[w].at # "idle" /\ task[w].owns
    BY <1>7 DEF Dead, Careful, Stops, CarriedInv
  <2>2. task[w].msg \in Message /\ Put(task[w].msg)
    BY <1>7, <2>1, JobsTyped DEF Dead, Careful
  <2>3. queue'[task[w].msg] > 0 /\ \A n \in Message : queue[n] > 0 => queue'[n] > 0
    BY <2>2, PutAdds
  <2>4. JobAt(w) = j => Carried(j)'
    BY <2>2, <2>3 DEF Carried, JobAt
  <2>5. OnlyCall(w) /\ OnlyTask(w)
    BY <1>7 DEF Dead, Stops, OnlyTask, TypeInv, Types
  <2> QED BY <1>1, <2>3, <2>4, <2>5, WorkerCarriesOn
<1>8. CASE Redelivers(w)
  <2>1. task[w].msg \in Message /\ Put(task[w].msg)
    BY <1>8, JobsTyped DEF Redelivers
  <2>2. queue'[task[w].msg] > 0 /\ \A n \in Message : queue[n] > 0 => queue'[n] > 0
    BY <2>1, PutAdds
  <2>3. JobAt(w) = j => Carried(j)'
    BY <2>1, <2>2 DEF Carried, JobAt
  <2> QED BY <1>1, <1>8, <2>2, <2>3, WorkerCarriesOn DEF Redelivers, storeVars, OnlyCall
<1> QED BY <1>2, <1>3, <1>4, <1>5, <1>6, <1>7, <1>8 DEF WorkerMove

\* A client that moves inside its call and carries as before, or carries nothing.
LEMMA ClientCarriesOn ==
    ASSUME TypeInv, NEW c \in Client, OnlyCall(c), UNCHANGED <<post, queue, task>>,
           NEW j \in Job, Carried(j),
           c \in Request /\ JobOf[c] = j /\ HandlerCarries(post[c], call[c]) => Carried(j)',
           c \in Worker /\ JobAt(c) = j /\ TaskCarries(task[c], call[c]) => Carried(j)'
    PROVE  Carried(j)'
<1>1. ASSUME NEW q \in Request \ {c}, JobOf[q] = j, HandlerCarries(post[q], call[q])
      PROVE  Carried(j)'
  <2>1. post'[q] = post[q] /\ call'[q] = call[q]
    BY Clients DEF OnlyCall
  <2> QED BY <1>1, <2>1 DEF Carried
<1>2. ASSUME NEW m \in Message, JobOf[m.request] = j, queue[m] > 0 PROVE Carried(j)'
  BY <1>2 DEF Carried
<1>3. ASSUME NEW v \in Worker \ {c}, JobAt(v) = j, TaskCarries(task[v], call[v])
      PROVE  Carried(j)'
  <2>1. call'[v] = call[v] /\ task'[v] = task[v]
    BY Clients DEF OnlyCall
  <2> QED BY <1>3, <2>1 DEF Carried, JobAt
<1> QED BY <1>1, <1>2, <1>3 DEF Carried

\* What a command leaves unsettled is carried: a client that wrote it carries it
\* on, and one that finds no row has no job.
LEMMA CommandKeepsCarried ==
    ASSUME TypeInv, NEW c \in Client, Store!Command(c), UNCHANGED <<post, queue, task>>,
           NEW j \in Job, Unsettled(j) => Carried(j), Unsettled(j)'
    PROVE  Carried(j)'
<1>1. OnlyCall(c) /\ row \in [Job -> Store!Row \cup {None}]
  BY CommandOf, StoreTyped DEF Store!TypeOK
<1>2. UNCHANGED row => Unsettled(j)
  BY DEF Unsettled, Settled, HasRow
<1>3. CASE /\ c \in Worker /\ task[c].at \in Updating
           /\ Updates(call[c], JobAt(c), UpdateOf(task[c].at))
           /\ Gets(c) \/ Sets(c) \/ Confirms(c)
  <2>1. task[c].at # "idle" /\ c \notin Request /\ JobAt(c) \in Job
    BY <1>3, JobsTyped, Clients DEF Updating
  <2>2. TaskCarries(task'[c], call'[c]) => (JobAt(c) = j => Carried(j)')
    BY <1>3 DEF Carried, JobAt
  <2>3. CASE Gets(c)
    <3>1. JobAt(c) = j /\ TaskCarries(task[c], call[c]) => TaskCarries(task'[c], call'[c])
      BY <1>2, <1>3, <2>3 DEF Gets, Updates, At, TaskCarries, Store!InUpdate, Unsettled, HasRow
    <3> QED BY <1>1, <1>2, <2>1, <2>2, <2>3, <3>1, ClientCarriesOn DEF Gets
  <2>4. CASE Sets(c) /\ JobAt(c) = j
    <3>1. call[c].job = j /\ row'[j] = call[c].data /\ call'[c].at = "update_confirm"
      BY <1>1, <1>3, <2>4 DEF Sets, Updates, At
    <3>2. \E r \in Store!Row : call[c].data = Store!Merge(r, UpdateOf(task[c].at))
      BY <1>3, <2>4 DEF Sets, Updates
    <3>3. row'[j].status \notin {"done", "error"}
      BY DEF Unsettled, Settled, HasRow
    <3>4. task[c].at \notin {"save_done", "error"}
      BY <3>1, <3>2, <3>3 DEF UpdateOf, Store!Merge, Store!Done, Store!Error, Store!Row
    <3>5. TaskCarries(task'[c], call'[c])
      BY <1>3, <3>1, <3>4 DEF TaskCarries, Updating, Store!InUpdate
    <3> QED BY <2>2, <2>4, <3>5
  <2>5. CASE Sets(c) /\ JobAt(c) # j
    <3>1. row'[j] = row[j]
      BY <1>1, <1>3, <2>1, <2>5 DEF Sets, Updates
    <3>2. Unsettled(j)
      BY <3>1 DEF Unsettled, Settled, HasRow
    <3> QED BY <1>1, <2>1, <2>5, <3>2, ClientCarriesOn
  <2>6. CASE Confirms(c)
    <3>1. JobAt(c) = j /\ TaskCarries(task[c], call[c]) => TaskCarries(task'[c], call'[c])
      BY <1>2, <1>3, <2>6 DEF Confirms, Updates, At, TaskCarries, Store!InUpdate, Unsettled, HasRow
    <3> QED BY <1>1, <1>2, <2>1, <2>2, <2>6, <3>1, ClientCarriesOn DEF Confirms
  <2> QED BY <1>3, <2>3, <2>4, <2>5, <2>6
<1>4. CASE c \in Worker /\ task[c].at = "save_heatmap" /\ Draws(c)
  <2>1. TaskCarries(task'[c], call'[c]) /\ c \notin Request
    BY <1>4, Clients DEF TaskCarries
  <2>2. JobAt(c) = j => Carried(j)'
    BY <1>4, <2>1 DEF Carried, JobAt
  <2> QED BY <1>1, <1>2, <1>4, <2>1, <2>2, ClientCarriesOn DEF Draws
<1>5. CASE /\ c \in Request /\ post[c] = "failing"
           /\ Updates(call[c], JobOf[c], Store!Error)
           /\ Gets(c) \/ Sets(c) \/ Confirms(c)
  <2>1. c \notin Worker /\ JobOf[c] \in Job
    BY <1>5, Clients, CompareAssumption
  <2>2. HandlerCarries(post'[c], call'[c]) => (JobOf[c] = j => Carried(j)')
    BY <1>5 DEF Carried
  <2>3. CASE Gets(c)
    <3>1. JobOf[c] = j => HandlerCarries(post'[c], call'[c])
      BY <1>2, <1>5, <2>3 DEF Gets, Updates, At, HandlerCarries, Unsettled, HasRow
    <3> QED BY <1>1, <1>2, <2>1, <2>2, <2>3, <3>1, ClientCarriesOn DEF Gets
  <2>4. CASE Sets(c) /\ JobOf[c] = j
    <3>1. row'[j] = call[c].data
      BY <1>1, <1>5, <2>4 DEF Sets, Updates
    <3>2. \E r \in Store!Row : call[c].data = Store!Merge(r, Store!Error)
      BY <1>5, <2>4 DEF Sets, Updates
    <3>3. row'[j].status = "error"
      BY <3>1, <3>2 DEF Store!Merge, Store!Error, Store!Row
    <3> QED BY <3>3 DEF Unsettled, Settled, HasRow
  <2>5. CASE Sets(c) /\ JobOf[c] # j
    <3>1. row'[j] = row[j]
      BY <1>1, <1>5, <2>1, <2>5 DEF Sets, Updates
    <3>2. Unsettled(j)
      BY <3>1 DEF Unsettled, Settled, HasRow
    <3> QED BY <1>1, <2>1, <2>5, <3>2, ClientCarriesOn
  <2>6. CASE Confirms(c)
    <3>1. ~HandlerCarries(post[c], call[c])
      BY <1>5, <2>6 DEF Confirms, HandlerCarries
    <3> QED BY <1>1, <1>2, <2>1, <2>6, <3>1, ClientCarriesOn DEF Confirms
  <2> QED BY <1>5, <2>3, <2>4, <2>5, <2>6
<1>6. CASE c \in Request /\ post[c] = "creating" /\ call[c].job = JobOf[c] /\ Creates(c)
  <2>1. c \notin Worker /\ JobOf[c] \in Job /\ ~HandlerCarries(post[c], call[c])
    BY <1>6, Clients, CompareAssumption DEF HandlerCarries, Creates
  <2>2. CASE UNCHANGED row
    BY <1>1, <1>2, <2>1, <2>2, ClientCarriesOn
  <2>3. CASE ~UNCHANGED row
    <3>1. row' = [row EXCEPT ![JobOf[c]] = call[c].data] /\ call'[c].at = "create_zadd"
      BY <1>6, <2>3 DEF Creates, At
    <3>2. CASE JobOf[c] = j
      <4>1. HandlerCarries(post'[c], call'[c])
        BY <1>6, <3>1 DEF HandlerCarries
      <4> QED BY <1>6, <3>2, <4>1 DEF Carried
    <3>3. CASE JobOf[c] # j
      <4>1. Unsettled(j)
        BY <1>1, <2>1, <3>1, <3>3 DEF Unsettled, Settled, HasRow
      <4> QED BY <1>1, <2>1, <4>1, ClientCarriesOn
    <3> QED BY <3>2, <3>3
  <2> QED BY <2>2, <2>3
<1>7. CASE c \in Request /\ post[c] = "creating" /\ Indexes(c)
  <2>1. c \notin Worker /\ HandlerCarries(post'[c], call'[c])
    BY <1>7, Clients DEF HandlerCarries, Indexes
  <2>2. JobOf[c] = j => Carried(j)'
    BY <1>7, <2>1 DEF Carried
  <2> QED BY <1>1, <1>2, <1>7, <2>1, <2>2, ClientCarriesOn DEF Indexes
<1>8. CASE c \in Reader /\ Lists(c)
  BY <1>1, <1>2, <1>8, Clients, ClientCarriesOn DEF Lists
<1> QED BY <1>3, <1>4, <1>5, <1>6, <1>7, <1>8, CommandOf

\* What nobody will settle does not come about.
LEMMA CarriedNext == Careful /\ TypeInv /\ CarriedInv /\ [Next]_vars => CarriedInv'
<1> SUFFICES ASSUME Careful, TypeInv, CarriedInv, [Next]_vars PROVE CarriedInv'
  OBVIOUS
<1>1. ASSUME NEW j \in Job, Unsettled(j)' PROVE Carried(j)'
  <2>1. CASE \E r \in Request : HandlerMove(r)
    <3>1. PICK r \in Request : HandlerMove(r)
      BY <2>1
    <3>2. UNCHANGED row
      BY <3>1 DEF HandlerMove, Submits, Refuses, Enqueues, GivesUp, Apologises, Dies
    <3>3. Carried(j)
      BY <1>1, <3>2 DEF Unsettled, Settled, HasRow, CarriedInv
    <3> QED BY <3>1, <3>3, HandlerKeepsCarried
  <2>2. CASE \E w \in Worker : WorkerMove(w)
    <3>1. PICK w \in Worker : WorkerMove(w)
      BY <2>2
    <3>2. UNCHANGED row
      BY <3>1 DEF WorkerMove, Walks, Calls, Republishes, Ends, Takes, Dead, Stops, Redelivers,
         storeVars
    <3>3. Unsettled(j) /\ Carried(j)
      BY <1>1, <3>2 DEF Unsettled, Settled, HasRow, CarriedInv
    <3> QED BY <3>1, <3>3, WorkerKeepsCarried
  <2>3. CASE StoreMove
    <3>1. UNCHANGED <<post, queue, task>>
      BY <2>3 DEF StoreMove
    <3>2. ASSUME NEW d \in Reader, Asks(d) PROVE Carried(j)'
      <4>1. Carried(j) /\ OnlyCall(d) /\ d \in Client /\ d \notin Request /\ d \notin Worker
        BY <1>1, <3>2, Clients DEF Asks, Unsettled, Settled, HasRow, CarriedInv
      <4> QED BY <3>1, <4>1, ClientCarriesOn
    <3>3. ASSUME NEW c \in Client, Store!Command(c) PROVE Carried(j)'
      BY <1>1, <3>1, <3>3, CommandKeepsCarried DEF CarriedInv
    <3>4. \A c \in Client : ~Raises(c)
      BY DEF Careful, CallsRaise, Raises
    <3>5. ASSUME NEW i \in Job, Store!Expire(i) PROVE Carried(j)'
      <4>1. UNCHANGED call /\ (UNCHANGED row \/ row' = [row EXCEPT ![i] = None])
        BY <3>5, ExpireMoves
      <4>2. Unsettled(j)
        BY <1>1, <4>1, StoreTyped DEF Store!TypeOK, Unsettled, Settled, HasRow
      <4>3. Carried(j)
        BY <4>2 DEF CarriedInv
      <4> QED BY <3>1, <4>1, <4>3 DEF Carried, JobAt
    <3>6. UNCHANGED storeVars => Carried(j)'
      BY <1>1, <3>1 DEF storeVars, Carried, JobAt, Unsettled, Settled, HasRow, CarriedInv
    <3> QED BY <2>3, <3>2, <3>3, <3>4, <3>5, <3>6 DEF StoreMove
  <2> QED BY <2>1, <2>2, <2>3, StepMoves
<1>2. ASSUME "crash" \in Faults, NEW w \in Worker, task'[w].at # "idle" PROVE task'[w].owns
  <2>1. task[w].at # "idle" => task[w].owns
    BY <1>2 DEF CarriedInv
  <2>2. CASE \E r \in Request : HandlerMove(r)
    <3>1. UNCHANGED task
      BY <2>2 DEF HandlerMove, Submits, Refuses, Enqueues, GivesUp, Apologises, Dies
    <3> QED BY <1>2, <2>1, <3>1
  <2>3. ASSUME NEW v \in Worker, WorkerMove(v) PROVE task'[w].owns
    <3>1. ~Redelivers(v)
      BY <1>2 DEF Careful, Redelivers
    <3>2. CASE v # w
      <4>1. task'[w] = task[w]
        BY <2>3, <3>1, <3>2 DEF WorkerMove, Walks, Calls, Republishes, Goes, Ends, Takes, Dead,
           Stops, OnlyTask, TypeInv, Types
      <4> QED BY <1>2, <2>1, <4>1
    <3>3. CASE v = w
      <4>1. ASSUME NEW p \in Place, Walks(w, p) \/ Calls(w, p)
            PROVE  task[w].at # "idle" /\ task'[w].owns = task[w].owns
        BY <4>1 DEF Walks, Walk, Calls, Stores, Goes
      <4>2. Republishes(w) => task[w].at # "idle" /\ task'[w].owns = task[w].owns
        BY DEF Republishes, Goes
      <4>3. \A m \in Message : Takes(w, m) => task'[w].owns
        BY DEF Takes
      <4>4. ~Ends(w) /\ ~Dead(w)
        BY <1>2 DEF Ends, Dead, Stops, NoTask, TypeInv, Types
      <4> QED BY <2>1, <2>3, <3>1, <3>3, <4>1, <4>2, <4>3, <4>4 DEF WorkerMove
    <3> QED BY <3>2, <3>3
  <2>4. CASE StoreMove
    BY <1>2, <2>1, <2>4 DEF StoreMove
  <2> QED BY <2>2, <2>3, <2>4, StepMoves
<1> QED BY <1>1, <1>2 DEF CarriedInv

\* A job that is not settled is in somebody's hands, whatever expires, and even
\* when computations fail, publications fail, messages are delivered twice or
\* workers die: as long as no execution and no handler ends without a word.
THEOREM NoOrphans == ASSUME Careful PROVE Spec => []NoOrphan
<1>1. Init => CarriedInv
  BY StoreAssumptions DEF Init, Store!Init, CarriedInv, Unsettled, HasRow, NoTask
<1>2. TypeInv /\ CarriedInv => NoOrphan
  <2> SUFFICES ASSUME TypeInv, CarriedInv, NEW j \in Job, Unsettled(j)
               PROVE  Carriers(j) # {}
    BY DEF NoOrphan, Unsettled
  <2>1. Carried(j)
    BY DEF CarriedInv
  <2>2. ASSUME NEW r \in Request, JobOf[r] = j, HandlerCarries(post[r], call[r])
        PROVE  Carriers(j) # {}
    <3>1. r \in Creators(j)
      BY <2>2 DEF HandlerCarries, Creators, CallOk
    <3> QED BY <3>1 DEF Carriers
  <2>3. ASSUME NEW m \in Message, JobOf[m.request] = j, queue[m] > 0
        PROVE  Carriers(j) # {}
    <3>1. m \in Waiting(j)
      BY <2>3 DEF Waiting
    <3> QED BY <3>1 DEF Carriers
  <2>4. ASSUME NEW w \in Worker, JobAt(w) = j, TaskCarries(task[w], call[w])
        PROVE  Carriers(j) # {}
    <3>1. w \in Executions(j)
      BY <2>4 DEF TaskCarries, Executions
    <3> QED BY <3>1 DEF Carriers
  <2> QED BY <2>1, <2>2, <2>3, <2>4 DEF Carried
<1>3. TypeInv /\ CarriedInv /\ [Next]_vars => CarriedInv'
  BY CarriedNext
<1> QED BY TypeInit, TypeNext, <1>1, <1>2, <1>3, PTL DEF Spec

-----------------------------------------------------------------------------
(***************************************************************************)
(* Without a TTL on the rows, whoever has a job in hand finds its row      *)
(***************************************************************************)

\* Request r created the row of its job.
HasIt(r) ==
    \/ post[r] \in {"accepted", "failing", "unavailable"}
    \/ post[r] = "creating" /\ call[r].at \in {"create_zadd", "ok"}

\* How a call of a worker may stand: it has no reason to raise.
CallFine(f) == f.at \notin {"duplicate", "missing", "failed"}

RowsInv ==
    /\ \A r \in Request : HasIt(r) => HasRow(JobOf[r])
    /\ \A m \in Message : queue[m] > 0 => HasRow(JobOf[m.request])
    /\ \A w \in Worker : task[w].at # "idle" => HasRow(JobAt(w))
    /\ ~CallsRaise => \A w \in Worker : task[w].at # "idle" => CallFine(call[w])

\* A row that is there stays.
LEMMA RowsStay ==
    ASSUME JobsExpire = FALSE, TypeInv, [Next]_vars, NEW j \in Job, HasRow(j)
    PROVE  HasRow(j)'
<1>1. /\ row \in [Job -> Store!Row \cup {None}] /\ Redis!FramesOK
      /\ None \notin Store!Row /\ Store!Row = Redis!Row
  BY StoreTyped, RowAssumption, SameTypes DEF Store!TypeOK
<1>2. \A r \in Request : HandlerMove(r) => UNCHANGED row
  BY DEF HandlerMove, Submits, Refuses, Enqueues, GivesUp, Apologises, Dies
<1>3. \A w \in Worker : WorkerMove(w) => UNCHANGED row
  BY DEF WorkerMove, Walks, Calls, Republishes, Ends, Takes, Dead, Stops, Redelivers, storeVars
<1>4. CASE StoreMove
  <2>1. ASSUME NEW c \in Client, Store!Command(c) PROVE HasRow(j)'
    <3>1. UNCHANGED row \/ Creates(c) \/ Sets(c)
      BY <2>1, CommandOf DEF Indexes, Gets, Confirms, Draws, Lists
    <3>2. call[c].at \in {"create_set", "update_set"} => call[c].data \in Store!Row
      BY <1>1 DEF Redis!FramesOK, Redis!FrameOK
    <3>3. UNCHANGED row \/ (call[c].data \in Store!Row /\ row' = [row EXCEPT ![call[c].job] = call[c].data])
      BY <3>1, <3>2 DEF Creates, Sets
    <3> QED BY <1>1, <3>3 DEF HasRow
  <2>2. \A i \in Job : Store!Expire(i) => UNCHANGED row
    BY ExpireMoves
  <2> QED BY <1>4, <2>1, <2>2 DEF StoreMove, Asks, Raises, storeVars, HasRow
<1> QED BY <1>2, <1>3, <1>4, StepMoves DEF HasRow

\* Only the creation of its row makes a request have it.
LEMMA HasItNext ==
    ASSUME TypeInv, [Next]_vars, NEW r \in Request, HasIt(r)', ~HasIt(r)
    PROVE  /\ row[JobOf[r]] = None /\ row'[JobOf[r]] # None
           /\ \A q \in Request \ {r} : HasIt(q)' => HasIt(q)
           /\ UNCHANGED <<post, queue, task>>
           /\ call[r].at = "create_set" /\ post[r] = "creating"
           /\ row' = [row EXCEPT ![JobOf[r]] = Store!NewRow(MetricOf[r])] /\ OnlyCall(r)
           /\ UNCHANGED heatmap /\ call'[r].at = "create_zadd"
<1>1. ASSUME NEW q \in Request, HandlerMove(q) PROVE FALSE
  <2>1. q # r => HasIt(r)' = HasIt(r)
    BY <1>1, Clients DEF HandlerMove, Submits, Refuses, Enqueues, GivesUp, Apologises, Dies,
       OnlyPost, OnlyCall, HasIt
  <2>2. q = r => HasIt(r) \/ ~HasIt(r)'
    BY <1>1 DEF HandlerMove, Submits, Refuses, Enqueues, GivesUp, Apologises, Dies, HasIt, CallOk,
       At
  <2> QED BY <2>1, <2>2
<1>2. ASSUME NEW w \in Worker, WorkerMove(w) PROVE FALSE
  <2>1. OnlyCall(w) /\ UNCHANGED post
    BY <1>2 DEF WorkerMove, Walks, Calls, Republishes, Ends, Takes, Dead, Stops, Redelivers,
       storeVars, OnlyCall
  <2> QED BY <2>1, Clients DEF OnlyCall, HasIt
<1>3. PICK c \in Client : Store!Command(c) \/ Raises(c) \/ (c \in Reader /\ Asks(c))
  BY <1>1, <1>2, StepMoves, ExpireMoves, Clients DEF StoreMove, storeVars, HasIt
<1>4. UNCHANGED <<post, queue, task>> /\ OnlyCall(c)
  BY <1>1, <1>2, <1>3, StepMoves, CommandOf DEF StoreMove, Raises, Asks
<1>5. c = r
  BY <1>4, Clients DEF OnlyCall, HasIt
<1>6. Store!Command(c)
  BY <1>3, <1>4, <1>5, Clients DEF Raises, HasIt
<1>7. /\ post[c] = "creating" /\ call[c].job = JobOf[c] /\ Creates(c)
      /\ call[c].data = Store!NewRow(MetricOf[c])
  BY <1>4, <1>5, <1>6, CommandOf, Clients DEF HasIt, Indexes, Creates
<1>8. row[JobOf[r]] = None /\ row' = [row EXCEPT ![JobOf[r]] = Store!NewRow(MetricOf[r])]
  BY <1>4, <1>5, <1>7 DEF Creates, HasIt
<1>9. Store!NewRow(MetricOf[r]) \in Store!Row
  BY CompareAssumption DEF Store!NewRow, Store!Row, Store!Status
<1>10. row'[JobOf[r]] # None
  BY <1>8, <1>9, StoreTyped, RowAssumption, CompareAssumption DEF Store!TypeOK
<1>11. \A q \in Request \ {r} : HasIt(q)' => HasIt(q)
  BY <1>4, <1>5, Clients DEF OnlyCall, HasIt
<1>12. call[c].at = "create_set" /\ UNCHANGED heatmap /\ call'[c].at = "create_zadd"
  BY <1>5, <1>7, <1>8 DEF Creates, At
<1> QED BY <1>4, <1>5, <1>7, <1>8, <1>10, <1>11, <1>12

\* A message comes from the handler that has its row, or from an execution.
LEMMA MessageNext ==
    ASSUME TypeInv, [Next]_vars, NEW m \in Message, queue'[m] > queue[m]
    PROVE  \/ \E r \in Request :
                /\ m = FirstMessage(r) /\ post[r] = "creating" /\ CallOk(r)
                /\ Enqueues(r) \/ ("publish_unsure" \in Faults /\ GivesUp(r))
           \/ \E w \in Worker :
                /\ task[w].at # "idle" /\ m.request = task[w].msg.request
                /\ \/ Republishes(w) /\ m = [task[w].msg EXCEPT !.fallback = TRUE]
                   \/ "crash" \in Faults
                   \/ "reconnect" \in Faults
<1>1. queue[m] \in Nat
  BY DEF TypeInv, Types
<1>2. ASSUME NEW n \in Message, Put(n) PROVE m = n
  BY <1>1, <1>2, PutMoves DEF TypeInv, Types
<1>3. ASSUME NEW r \in Request, HandlerMove(r)
      PROVE  /\ m = FirstMessage(r) /\ post[r] = "creating" /\ CallOk(r)
             /\ Enqueues(r) \/ ("publish_unsure" \in Faults /\ GivesUp(r))
  <2>1. FirstMessage(r) \in Message
    BY DEF FirstMessage, Message
  <2> QED BY <1>1, <1>2, <1>3, <2>1
          DEF HandlerMove, Submits, Refuses, Enqueues, GivesUp, Apologises, Dies
<1>4. ASSUME NEW w \in Worker, WorkerMove(w)
      PROVE  /\ task[w].at # "idle" /\ m.request = task[w].msg.request
             /\ \/ Republishes(w) /\ m = [task[w].msg EXCEPT !.fallback = TRUE]
                \/ "crash" \in Faults
                \/ "reconnect" \in Faults
  <2>1. CASE Republishes(w)
    <3>1. task[w].msg \in Message /\ task[w].at # "idle"
      BY <2>1, JobsTyped DEF Republishes
    <3>2. [task[w].msg EXCEPT !.fallback = TRUE] \in Message
      BY <3>1 DEF Message
    <3>3. m = [task[w].msg EXCEPT !.fallback = TRUE]
      BY <1>2, <2>1, <3>2 DEF Republishes
    <3> QED BY <2>1, <3>1, <3>3 DEF Message
  <2>2. CASE Dead(w)
    BY <1>1, <1>2, <2>2, JobsTyped DEF Dead, Stops
  <2>3. CASE Redelivers(w)
    BY <1>1, <1>2, <2>3, JobsTyped DEF Redelivers
  <2>4. ASSUME NEW n \in Message, Takes(w, n) PROVE FALSE
    <3>1. queue'[m] = queue[m] \/ (m = n /\ queue'[m] = queue[m] - 1)
      BY <2>4 DEF Takes, TypeInv, Types
    <3> QED BY <1>1, <3>1
  <2>5. ASSUME NEW p \in Place, Walks(w, p) \/ Calls(w, p) PROVE FALSE
    BY <1>1, <2>5 DEF Walks, Calls
  <2>6. ~Ends(w)
    BY <1>1 DEF Ends
  <2> QED BY <1>4, <2>1, <2>2, <2>3, <2>4, <2>5, <2>6 DEF WorkerMove
<1>5. ~StoreMove
  BY <1>1 DEF StoreMove
<1> QED BY <1>3, <1>4, <1>5, StepMoves

\* An execution has its message from the queue and keeps it.
LEMMA TaskNext ==
    ASSUME TypeInv, [Next]_vars, NEW w \in Worker, task'[w].at # "idle"
    PROVE  \/ task[w].at # "idle" /\ task'[w].msg = task[w].msg
           \/ \E m \in Message : Takes(w, m) /\ task'[w].msg = m /\ queue[m] > 0
<1>1. \A r \in Request : HandlerMove(r) => UNCHANGED task
  BY DEF HandlerMove, Submits, Refuses, Enqueues, GivesUp, Apologises, Dies
<1>2. ASSUME NEW v \in Worker, WorkerMove(v)
      PROVE  \/ task[w].at # "idle" /\ task'[w].msg = task[w].msg
             \/ \E m \in Message : Takes(w, m) /\ task'[w].msg = m /\ queue[m] > 0
  <2>1. CASE v # w
    <3>1. task'[w] = task[w]
      BY <1>2, <2>1 DEF WorkerMove, Walks, Calls, Republishes, Goes, Ends, Takes, Dead, Stops,
         Redelivers, OnlyTask, TypeInv, Types
    <3> QED BY <3>1
  <2>2. CASE v = w
    <3>1. ASSUME NEW p \in Place, Walks(w, p) \/ Calls(w, p)
          PROVE  task[w].at # "idle" /\ task'[w].msg = task[w].msg
      BY <3>1 DEF Walks, Walk, Calls, Stores, Goes
    <3>2. Republishes(w) \/ Redelivers(w) => task[w].at # "idle" /\ task'[w].msg = task[w].msg
      BY DEF Republishes, Redelivers, Goes
    <3>3. \A m \in Message : Takes(w, m) => task'[w].msg = m /\ queue[m] > 0
      BY DEF Takes
    <3>4. ~Ends(w) /\ ~Dead(w)
      BY DEF Ends, Dead, Stops, NoTask, TypeInv, Types
    <3> QED BY <1>2, <2>2, <3>1, <3>2, <3>3, <3>4 DEF WorkerMove
  <2> QED BY <2>1, <2>2
<1>3. StoreMove => UNCHANGED task
  BY DEF StoreMove
<1> QED BY <1>1, <1>2, <1>3, StepMoves

\* Without a TTL and with no call cut short no call of a worker has a reason to raise.
LEMMA CallsFineNext ==
    ASSUME JobsExpire = FALSE, TypeInv, RowsInv, [Next]_vars, ~CallsRaise,
           NEW w \in Worker, task'[w].at # "idle"
    PROVE  CallFine(call'[w])
<1>1. \A r \in Request : HandlerMove(r) => call'[w] = call[w] /\ task'[w] = task[w]
  BY Clients DEF HandlerMove, Submits, Refuses, Enqueues, GivesUp, Apologises, Dies, OnlyCall
<1>2. ASSUME NEW v \in Worker, WorkerMove(v) PROVE CallFine(call'[w])
  <2>1. CASE v # w
    <3>1. task'[w] = task[w] /\ call'[w] = call[w]
      BY <1>2, <2>1, Clients DEF WorkerMove, Walks, Calls, Republishes, Goes, Ends, Takes, Dead,
         Stops, Redelivers, OnlyTask, OnlyCall, storeVars, TypeInv, Types
    <3> QED BY <3>1 DEF RowsInv
  <2>2. CASE v = w
    <3>1. ASSUME NEW p \in Place, Walks(w, p)
          PROVE  task[w].at # "idle" /\ call' = call
      BY <3>1 DEF Walks, Walk, storeVars
    <3>2. ASSUME NEW p \in Place, Calls(w, p)
          PROVE  CallFine(call'[w])
      BY <3>2 DEF Calls, At, CallFine
    <3>3. Republishes(w) \/ Redelivers(w) => task[w].at # "idle" /\ call' = call
      BY DEF Republishes, Redelivers, storeVars
    <3>4. \A m \in Message : Takes(w, m) => CallFine(call'[w])
      BY DEF Takes, At, CallFine
    <3>5. ~Ends(w) /\ ~Dead(w)
      BY DEF Ends, Dead, Stops, NoTask, TypeInv, Types
    <3> QED BY <1>2, <2>2, <3>1, <3>2, <3>3, <3>4, <3>5 DEF WorkerMove, RowsInv
  <2> QED BY <2>1, <2>2
<1>3. CASE StoreMove
  <2>1. task[w].at # "idle" /\ CallFine(call[w]) /\ HasRow(JobAt(w))
    BY <1>3 DEF StoreMove, RowsInv
  <2>2. ASSUME NEW c \in Client, Store!Command(c) PROVE CallFine(call'[w])
    <3>1. CASE c # w
      BY <2>1, <2>2, <3>1, CommandOf, Clients DEF OnlyCall
    <3>2. CASE c = w
      BY <2>1, <2>2, <3>2, CommandOf, Clients DEF Updates, Gets, Sets, Confirms, Draws, At, HasRow,
         CallFine
    <3> QED BY <3>1, <3>2
  <2>3. \A c \in Client : ~Raises(c)
    BY DEF Raises
  <2>4. \A d \in Reader : Asks(d) => call'[w] = call[w]
    BY Clients DEF Asks, OnlyCall
  <2>5. \A j \in Job : Store!Expire(j) => UNCHANGED call
    BY ExpireMoves
  <2> QED BY <1>3, <2>1, <2>2, <2>3, <2>4, <2>5 DEF StoreMove, storeVars
<1> QED BY <1>1, <1>2, <1>3, StepMoves DEF RowsInv

\* Without a TTL, the rows of what is waiting or executing stay.
LEMMA RowsNext ==
    ASSUME JobsExpire = FALSE, TypeInv, RowsInv, [Next]_vars
    PROVE  RowsInv'
<1>1. ASSUME NEW r \in Request, HasIt(r)' PROVE HasRow(JobOf[r])'
  <2>1. JobOf[r] \in Job
    BY CompareAssumption
  <2>2. CASE HasIt(r)
    BY <2>1, <2>2, RowsStay DEF RowsInv
  <2>3. CASE ~HasIt(r)
    BY <1>1, <2>3, HasItNext DEF HasRow
  <2> QED BY <2>2, <2>3
<1>2. ASSUME NEW m \in Message, queue'[m] > 0 PROVE HasRow(JobOf[m.request])'
  <2>1. JobOf[m.request] \in Job
    BY CompareAssumption DEF Message
  <2>2. CASE queue[m] > 0
    BY <2>1, <2>2, RowsStay DEF RowsInv
  <2>3. CASE ~(queue[m] > 0)
    <3>1. queue'[m] > queue[m]
      BY <1>2, <2>3 DEF TypeInv, Types
    <3>2. ASSUME NEW r \in Request, m = FirstMessage(r), post[r] = "creating", CallOk(r)
          PROVE  HasRow(JobOf[m.request])
      BY <3>2 DEF FirstMessage, HasIt, CallOk, RowsInv
    <3>3. ASSUME NEW w \in Worker, task[w].at # "idle", m.request = task[w].msg.request
          PROVE  HasRow(JobOf[m.request])
      BY <3>3 DEF RowsInv, JobAt
    <3>4. HasRow(JobOf[m.request])
      BY <3>1, <3>2, <3>3, MessageNext
    <3> QED BY <2>1, <3>4, RowsStay
  <2> QED BY <2>2, <2>3
<1>3. ASSUME NEW w \in Worker, task'[w].at # "idle" PROVE HasRow(JobAt(w))'
  <2>1. CASE task[w].at # "idle" /\ task'[w].msg = task[w].msg
    <3>1. HasRow(JobAt(w)) /\ JobAt(w) \in Job
      BY <2>1, JobsTyped DEF RowsInv
    <3>2. HasRow(JobOf[task[w].msg.request])'
      <4> DEFINE j == JobOf[task[w].msg.request]
      <4>1. j \in Job /\ row[j] # None
        BY <3>1 DEF JobAt, HasRow
      <4>2. \A i \in Job : row[i] # None => row'[i] # None
        BY RowsStay DEF HasRow
      <4>3. row'[j] # None
        BY <4>1, <4>2
      <4> QED BY <2>1, <4>3 DEF HasRow
    <3> QED BY <2>1, <3>2 DEF JobAt, HasRow
  <2>2. ASSUME NEW m \in Message, task'[w].msg = m, queue[m] > 0 PROVE HasRow(JobAt(w))'
    <3>1. JobOf[m.request] \in Job /\ HasRow(JobOf[m.request])
      BY <2>2, CompareAssumption DEF Message, RowsInv
    <3>2. HasRow(JobOf[m.request])'
      BY <3>1, RowsStay
    <3> QED BY <2>2, <3>2 DEF JobAt, HasRow
  <2> QED BY <1>3, <2>1, <2>2, TaskNext
<1>4. ASSUME ~CallsRaise, NEW w \in Worker, task'[w].at # "idle"
      PROVE  CallFine(call'[w])
  BY <1>4, CallsFineNext
<1> QED BY <1>1, <1>2, <1>3, <1>4 DEF RowsInv

-----------------------------------------------------------------------------
(***************************************************************************)
(* The gauge                                                               *)
(***************************************************************************)

\* What InflightExact needs not to happen: that an execution leaves by another
\* way than its finally clause, or ends inside it.
Counted ==
    /\ JobsExpire = FALSE
    /\ Faults \cap {"redis", "soft_limit", "temp", "kill", "finally"} = {}

GaugeAt(w) == inflight[w] = IF task[w].at \in {"idle", "ack"} THEN 0 ELSE 1

\* An execution is counted while it runs.
LEMMA GaugeExecute ==
    ASSUME Counted, TypeInv, RowsInv, NEW w \in Worker, GaugeAt(w), Execute(w)
    PROVE  GaugeAt(w)'
<1>1. task[w].at # "idle" => CallFine(call[w])
  BY DEF RowsInv, Counted, CallsRaise
<1>2. task \in [Worker -> Task] /\ inflight \in [Worker -> Nat]
  BY DEF TypeInv, Types
<1>3. CASE Finally(w)
  <2>1. MovesTemps(w, 0, "ack")
    BY <1>3 DEF Finally, MovesTemps
  <2>2. task'[w].at = "ack"
    BY <1>2, <2>1, TempsMove DEF Goes, Place
  <2>3. inflight[w] = 1 /\ inflight'[w] = inflight[w] - 1
    BY <1>2, <1>3 DEF Finally, GaugeAt
  <2> QED BY <2>2, <2>3 DEF GaugeAt
<1>4. ~Escape(w)
  BY <1>1 DEF Escape, CallFine, CallRaised, CallOk, Returned, Store!Returned, Store!Outcome
<1>5. ~TempFails(w) /\ ~FinallyFails(w)
  BY DEF Counted, TempFails, FinallyFails, Fault
<1>6. CASE Ack(w)
  <2>1. task'[w].at = "idle" /\ inflight[w] = 0 /\ UNCHANGED inflight
    BY <1>2, <1>6 DEF Ack, NoTask, GaugeAt
  <2> QED BY <2>1 DEF GaugeAt
<1>7. CASE ~Finally(w) /\ ~Ack(w)
  <2>1. UNCHANGED inflight /\ task[w].at \notin {"idle", "ack", "finally"}
    BY <1>4, <1>5, <1>7 DEF Execute, StoreTemps, Lpips, SaveHeatmap, LpipsSaved, Dists, SaveDone,
       Finished, ComputeFails, GpuFails, SaveFails, Republish, RepublishFails, Excepted
  <2>2. task'[w].at \notin {"idle", "ack"}
    <3>1. ASSUME NEW p \in Place, Walks(w, p) PROVE p \notin {"idle", "ack"} /\ task'[w].at = p
      BY <1>1, <2>1, <3>1 DEF Walks, Walk, Goes, CallFine, Counted, Done, Store!Outcome
    <3>2. ASSUME NEW p \in Place, Calls(w, p) PROVE p \notin {"idle", "ack"} /\ task'[w].at = p
      BY <3>2 DEF Calls, Stores, Goes
    <3>3. Republishes(w) => task'[w].at = "finally"
      BY DEF Republishes, Goes
    <3>4. ~Ends(w)
      BY <2>1 DEF Ends
    <3> QED BY <3>1, <3>2, <3>3, <3>4, ExecuteMoves
  <2> QED BY <2>1, <2>2 DEF GaugeAt
<1> QED BY <1>3, <1>6, <1>7

\* The gauge of every worker stays exact.
LEMMA GaugeNext ==
    ASSUME Counted, TypeInv, RowsInv, InflightExact, [Next]_vars
    PROVE  InflightExact'
<1> SUFFICES ASSUME NEW w \in Worker PROVE GaugeAt(w)'
  BY DEF InflightExact, GaugeAt
<1>1. GaugeAt(w) /\ task \in [Worker -> Task] /\ inflight \in [Worker -> Nat]
  BY DEF InflightExact, GaugeAt, TypeInv, Types
<1>2. (UNCHANGED <<task, inflight>>) => GaugeAt(w)'
  BY <1>1 DEF GaugeAt
<1>3. ASSUME NEW v \in Worker, Take(v) \/ Execute(v) \/ Crash(v) \/ Reconnect(v)
      PROVE  GaugeAt(w)'
  <2>1. CASE v # w
    <3>1. task'[w] = task[w]
      <4>1. OnlyTask(v)
        BY <1>3, WorkerStep DEF WorkerMove, Walks, Calls, Republishes, Goes, Ends, Takes, Dead,
           Stops, Redelivers, OnlyTask, TypeInv, Types
      <4> QED BY <2>1, <4>1 DEF OnlyTask
    <3>2. inflight'[w] = inflight[w]
      <4>1. Take(v) \/ Crash(v) \/ Reconnect(v) => inflight'[w] = inflight[w]
        BY <1>1, <2>1 DEF Take, Crash, Reconnect
      <4>2. CASE Finally(v) \/ FinallyFails(v)
        BY <1>1, <2>1, <4>2 DEF Finally, FinallyFails
      <4>3. CASE Execute(v) /\ ~(Finally(v) \/ FinallyFails(v))
        BY <4>3 DEF Execute, Escape, TempFails, StoreTemps, Lpips, SaveHeatmap, LpipsSaved, Dists,
           SaveDone, Finished, ComputeFails, GpuFails, SaveFails, Republish, RepublishFails,
           Excepted, Ack
      <4> QED BY <1>3, <4>1, <4>2, <4>3
    <3> QED BY <1>1, <3>1, <3>2 DEF GaugeAt
  <2>2. CASE v = w
    <3>1. CASE Take(w)
      BY <1>1, <3>1 DEF Take, GaugeAt
    <3>2. CASE Execute(w)
      BY <1>1, <3>2, GaugeExecute
    <3>3. CASE Crash(w)
      BY <1>1, <3>3 DEF Crash, Stop, NoTask, GaugeAt
    <3>4. CASE Reconnect(w)
      <4>1. task'[w].at = task[w].at /\ UNCHANGED inflight
        BY <1>1, <3>4 DEF Reconnect, Task
      <4> QED BY <1>1, <4>1 DEF GaugeAt
    <3> QED BY <1>3, <2>2, <3>1, <3>2, <3>3, <3>4
  <2> QED BY <2>1, <2>2
<1>4. \A v \in Worker : ~Kill(v)
  BY DEF Counted, Kill, Fault
<1>5. \A r \in Request : Submit(r) \/ Handle(r) \/ ApiDies(r) => UNCHANGED <<task, inflight>>
  BY DEF Submit, Handle, ApiDies, Refuse, Enqueue, EnqueueFails, Apologise
<1>6. \A d \in Reader : ListJobs(d) \/ GetHeatmapRow(d) \/ GetHeatmapPng(d) =>
                           UNCHANGED <<task, inflight>>
  BY DEF ListJobs, GetHeatmapRow, GetHeatmapPng
<1>7. \A c \in Client : StoreCommand(c) \/ StoreRaises(c) => UNCHANGED <<task, inflight>>
  BY DEF StoreCommand, StoreRaises
<1>8. \A j \in Job : Expire(j) => UNCHANGED <<task, inflight>>
  BY DEF Expire
<1>9. UNCHANGED vars => UNCHANGED <<task, inflight>>
  BY DEF vars
<1> QED BY <1>2, <1>3, <1>4, <1>5, <1>6, <1>7, <1>8, <1>9 DEF Next

\* At first nobody has anything in hand.
LEMMA RowsInit == Init => RowsInv
BY DEF Init, RowsInv, HasIt, NoTask

\* Whatever fails, is delivered twice or dies with its worker, a worker's part of
\* the gauge is 1 while it executes a job and 0 otherwise.
THEOREM GaugeExact == ASSUME Counted PROVE Spec => []InflightExact
<1>1. Init => InflightExact
  BY DEF Init, InflightExact, NoTask
<1>2. TypeInv /\ RowsInv /\ [Next]_vars => RowsInv'
  BY RowsNext DEF Counted
<1>3. TypeInv /\ RowsInv /\ InflightExact /\ [Next]_vars => InflightExact'
  BY GaugeNext
<1> QED BY TypeInit, TypeNext, RowsInit, <1>1, <1>2, <1>3, PTL DEF Spec

\* With every fault, too, the gauge never shows too few: what leaves past its
\* finally clause, or ends inside it, can only leave the gauge too high.
THEOREM GaugeCovers == Spec => []InflightCovers
<1>1. TypeInv => InflightCovers
  BY DEF TypeInv, Placed, InflightCovers
<1> QED BY TypeInit, TypeNext, <1>1, PTL DEF Spec

NoLitter == litter = 0

\* Where in addition no worker dies, no temporary image stays behind.
THEOREM TracesRemoved ==
    ASSUME Counted, "crash" \notin Faults
    PROVE  Spec => []LeavesNoTrace
<1>1. Init => NoLitter
  BY DEF Init, NoLitter
<1>2. TypeInv /\ NoLitter /\ [Next]_vars => NoLitter'
  <2> SUFFICES ASSUME TypeInv, litter = 0, [Next]_vars PROVE UNCHANGED litter
    BY DEF NoLitter
  <2>1. ASSUME NEW w \in Worker, Take(w) \/ Execute(w) \/ Reconnect(w) PROVE UNCHANGED litter
    <3>1. ~TempFails(w) /\ ~FinallyFails(w)
      BY DEF Counted, TempFails, FinallyFails, Fault
    <3> QED BY <2>1, <3>1 DEF Take, Reconnect, Execute, Escape, StoreTemps, Lpips, SaveHeatmap,
               LpipsSaved, Dists, SaveDone, Finished, ComputeFails, GpuFails, SaveFails, Republish,
               RepublishFails, Excepted, Finally, Ack
  <2>2. \A w \in Worker : ~Kill(w) /\ ~Crash(w)
    BY DEF Counted, Kill, Crash, Fault
  <2>3. \A r \in Request : Submit(r) \/ Handle(r) \/ ApiDies(r) => UNCHANGED litter
    BY DEF Submit, Handle, ApiDies, Refuse, Enqueue, EnqueueFails, Apologise
  <2>4. \A d \in Reader : ListJobs(d) \/ GetHeatmapRow(d) \/ GetHeatmapPng(d) => UNCHANGED litter
    BY DEF ListJobs, GetHeatmapRow, GetHeatmapPng
  <2>5. \A c \in Client : StoreCommand(c) \/ StoreRaises(c) => UNCHANGED litter
    BY DEF StoreCommand, StoreRaises
  <2>6. \A j \in Job : Expire(j) => UNCHANGED litter
    BY DEF Expire
  <2>7. UNCHANGED vars => UNCHANGED litter
    BY DEF vars
  <2> QED BY <2>1, <2>2, <2>3, <2>4, <2>5, <2>6, <2>7 DEF Next
<1>3. InflightExact /\ NoLitter => LeavesNoTrace
  BY DEF NoLitter, LeavesNoTrace
<1>4. Spec => []InflightExact
  BY GaugeExact
<1> QED BY TypeInit, TypeNext, <1>1, <1>2, <1>3, <1>4, PTL DEF Spec

-----------------------------------------------------------------------------
(***************************************************************************)
(* One pair of hands                                                       *)
(***************************************************************************)

\* What OneCarrier needs not to happen: a second delivery or a second row.
Once ==
    /\ JobsExpire = FALSE
    /\ Faults \cap {"crash", "reconnect", "publish_unsure"} = {}

Executing(t) == t.at \notin {"idle", "finally", "ack"}

\* One request has the job, and its work is in one message or in one execution.
OneInv ==
    /\ \A q, r \in Request : HasIt(q) /\ HasIt(r) /\ JobOf[q] = JobOf[r] => q = r
    /\ \A m \in Message : queue[m] <= 1 /\ (queue[m] > 0 => post[m.request] = "accepted")
    /\ \A w \in Worker : task[w].at # "idle" => post[task[w].msg.request] = "accepted"
    /\ \A m, n \in Message : queue[m] > 0 /\ queue[n] > 0 /\ m.request = n.request => m = n
    /\ \A m \in Message, w \in Worker :
          queue[m] > 0 /\ Executing(task[w]) => m.request # task[w].msg.request
    /\ \A v, w \in Worker :
          Executing(task[v]) /\ Executing(task[w]) /\ task[v].msg.request = task[w].msg.request
             => v = w

\* An accepted request stays accepted.
LEMMA AcceptedStays ==
    ASSUME TypeInv, [Next]_vars, NEW r \in Request, post[r] = "accepted"
    PROVE  post'[r] = "accepted"
<1>1. ASSUME NEW q \in Request, HandlerMove(q) PROVE post'[r] = post[r]
  BY <1>1 DEF HandlerMove, Submits, Refuses, Enqueues, GivesUp, Apologises, Dies, OnlyPost, Handling
<1> QED BY <1>1, StepMoves DEF WorkerMove, StoreMove

\* Two requests never have the same job.
LEMMA OwnerUnique ==
    ASSUME TypeInv, RowsInv, OneInv, [Next]_vars,
           NEW q \in Request, NEW r \in Request, HasIt(q)', HasIt(r)', JobOf[q] = JobOf[r]
    PROVE  q = r
BY HasItNext DEF RowsInv, OneInv, HasRow

\* Work that ends, or goes on where it is, leaves no second pair of hands.
LEMMA FewerHands ==
    ASSUME TypeInv, RowsInv, OneInv, [Next]_vars, UNCHANGED queue,
           \A w \in Worker :
              /\ task'[w].at # "idle" => task[w].at # "idle" /\ task'[w].msg = task[w].msg
              /\ Executing(task'[w]) => Executing(task[w])
    PROVE  OneInv'
<1>1. \A q, r \in Request : HasIt(q)' /\ HasIt(r)' /\ JobOf[q] = JobOf[r] => q = r
  BY OwnerUnique
<1>2. \A m \in Message : queue'[m] <= 1 /\ (queue'[m] > 0 => post'[m.request] = "accepted")
  BY AcceptedStays DEF Message, OneInv
<1>3. \A w \in Worker : task'[w].at # "idle" => post'[task'[w].msg.request] = "accepted"
  BY AcceptedStays, JobsTyped DEF OneInv
<1>4. \A m, n \in Message : queue'[m] > 0 /\ queue'[n] > 0 /\ m.request = n.request => m = n
  BY DEF OneInv
<1>5. \A m \in Message, w \in Worker :
         queue'[m] > 0 /\ Executing(task'[w]) => m.request # task'[w].msg.request
  BY DEF OneInv, Executing
<1>6. \A v, w \in Worker :
         Executing(task'[v]) /\ Executing(task'[w]) /\ task'[v].msg.request = task'[w].msg.request
            => v = w
  BY DEF OneInv, Executing
<1> QED BY <1>1, <1>2, <1>3, <1>4, <1>5, <1>6 DEF OneInv

\* No step gives a job to a second pair of hands.
LEMMA OneNext ==
    ASSUME Once, TypeInv, RowsInv, OneInv, [Next]_vars
    PROVE  OneInv'
<1>0. \A q, r \in Request : HasIt(q)' /\ HasIt(r)' /\ JobOf[q] = JobOf[r] => q = r
  BY OwnerUnique
<1>1. CASE UNCHANGED <<queue, task>>
  BY <1>1, FewerHands
<1>2. ASSUME NEW r \in Request, Enqueues(r) PROVE OneInv'
  <2> DEFINE m == FirstMessage(r)
  <2>1. m \in Message /\ m.request = r
    BY DEF FirstMessage, Message
  <2>2. post[r] # "accepted" /\ post'[r] = "accepted" /\ UNCHANGED task
    BY <1>2 DEF Enqueues
  <2>3. \A n \in Message : queue[n] > 0 => n.request # r
    BY <2>2 DEF OneInv
  <2>4. \A w \in Worker : task[w].at # "idle" => task[w].msg.request # r
    BY <2>2 DEF OneInv
  <2>5. queue'[m] = queue[m] + 1 /\ \A n \in Message \ {m} : queue'[n] = queue[n]
    BY <1>2, <2>1, PutMoves DEF Enqueues, TypeInv, Types
  <2>6. queue'[m] = 1
    BY <2>1, <2>3, <2>5 DEF TypeInv, Types
  <2> HIDE DEF m
  <2>7. \A n \in Message : queue'[n] <= 1 /\ (queue'[n] > 0 => post'[n.request] = "accepted")
    BY <2>1, <2>2, <2>5, <2>6, AcceptedStays DEF Message, OneInv
  <2>8. \A w \in Worker : task'[w].at # "idle" => post'[task'[w].msg.request] = "accepted"
    BY <2>2, AcceptedStays, JobsTyped DEF OneInv
  <2>9. \A k, n \in Message : queue'[k] > 0 /\ queue'[n] > 0 /\ k.request = n.request => k = n
    BY <2>1, <2>3, <2>5 DEF OneInv
  <2>10. \A n \in Message, w \in Worker :
           queue'[n] > 0 /\ Executing(task'[w]) => n.request # task'[w].msg.request
    BY <2>1, <2>2, <2>4, <2>5 DEF OneInv, Executing
  <2> QED BY <1>0, <2>2, <2>7, <2>8, <2>9, <2>10 DEF OneInv
<1>3. ASSUME NEW w \in Worker, WorkerMove(w), UNCHANGED queue PROVE OneInv'
  <2>1. OnlyTask(w)
    BY <1>3 DEF WorkerMove, Walks, Calls, Republishes, Goes, Ends, Takes, Dead, Stops, Redelivers,
       OnlyTask, TypeInv, Types
  <2>2. /\ task'[w].at # "idle" => task[w].at # "idle" /\ task'[w].msg = task[w].msg
        /\ Executing(task'[w]) => Executing(task[w])
    <3>1. ASSUME NEW p \in Place, Walks(w, p) \/ Calls(w, p)
          PROVE  /\ task[w].at # "idle" /\ task'[w].msg = task[w].msg
                 /\ Executing(task'[w]) => Executing(task[w])
      BY <3>1 DEF Walks, Walk, Calls, Stores, Goes, Executing
    <3>2. Republishes(w) => task[w].at = "requeue" /\ task'[w].msg = task[w].msg
      BY DEF Republishes, Goes
    <3>3. Ends(w) \/ Dead(w) => task'[w].at = "idle"
      BY DEF Ends, Dead, Stops, NoTask, TypeInv, Types
    <3>4. \A m \in Message : ~Takes(w, m)
      <4> SUFFICES ASSUME NEW m \in Message, Takes(w, m) PROVE FALSE
        OBVIOUS
      <4>1. queue'[m] = queue[m] - 1 /\ queue[m] \in Nat
        BY DEF Takes, TypeInv, Types
      <4> QED BY <1>3, <4>1
    <3>5. ~Redelivers(w)
      BY DEF Once, Redelivers
    <3> QED BY <1>3, <3>1, <3>2, <3>3, <3>4, <3>5 DEF WorkerMove, Executing
  <2>3. \A v \in Worker :
           /\ task'[v].at # "idle" => task[v].at # "idle" /\ task'[v].msg = task[v].msg
           /\ Executing(task'[v]) => Executing(task[v])
    BY <2>1, <2>2 DEF OnlyTask
  <2> QED BY <1>3, <2>3, FewerHands
<1>4. ASSUME NEW w \in Worker, Republishes(w) PROVE OneInv'
  <2> DEFINE m == [task[w].msg EXCEPT !.fallback = TRUE]
  <2>1. m \in Message /\ m.request = task[w].msg.request /\ Put(m)
    BY <1>4, JobsTyped DEF Republishes, Message
  <2>2. Executing(task[w]) /\ task[w].at # "idle"
    BY <1>4 DEF Republishes, Executing
  <2>3. \A n \in Message : queue[n] > 0 => n.request # m.request
    BY <2>1, <2>2 DEF OneInv
  <2>4. queue'[m] = queue[m] + 1 /\ \A n \in Message \ {m} : queue'[n] = queue[n]
    BY <2>1, PutMoves DEF TypeInv, Types
  <2>5. queue'[m] = 1 /\ post'[m.request] = "accepted"
    <3>1. queue[m] \in Nat /\ ~(queue[m] > 0)
      BY <2>1, <2>3 DEF TypeInv, Types
    <3>2. task[w].msg.request \in Request /\ post[task[w].msg.request] = "accepted"
      BY <2>2, JobsTyped DEF OneInv
    <3>3. post'[task[w].msg.request] = "accepted"
      BY <3>2, AcceptedStays
    <3> QED BY <2>1, <2>4, <3>1, <3>3
  <2>6. OnlyTask(w) /\ task'[w].at = "finally" /\ task'[w].msg = task[w].msg
    BY <1>4 DEF Republishes, Goes
  <2>7. \A v \in Worker \ {w} : Executing(task[v]) => task[v].msg.request # m.request
    BY <2>1, <2>2 DEF OneInv
  <2> HIDE DEF m
  <2>8. \A n \in Message : queue'[n] <= 1 /\ (queue'[n] > 0 => post'[n.request] = "accepted")
    BY <2>1, <2>4, <2>5, AcceptedStays DEF Message, OneInv
  <2>9. \A v \in Worker : task'[v].at # "idle" => post'[task'[v].msg.request] = "accepted"
    BY <2>2, <2>6, AcceptedStays, JobsTyped DEF OneInv, OnlyTask
  <2>10. \A k, n \in Message : queue'[k] > 0 /\ queue'[n] > 0 /\ k.request = n.request => k = n
    BY <2>1, <2>3, <2>4 DEF OneInv
  <2>11. \A n \in Message, v \in Worker :
           queue'[n] > 0 /\ Executing(task'[v]) => n.request # task'[v].msg.request
    BY <2>1, <2>4, <2>6, <2>7 DEF OneInv, OnlyTask, Executing
  <2>12. \A u, v \in Worker :
           Executing(task'[u]) /\ Executing(task'[v])
             /\ task'[u].msg.request = task'[v].msg.request => u = v
    BY <2>6 DEF OneInv, OnlyTask, Executing
  <2> QED BY <1>0, <2>8, <2>9, <2>10, <2>11, <2>12 DEF OneInv
<1>5. ASSUME NEW w \in Worker, NEW m \in Message, Takes(w, m) PROVE OneInv'
  <2>1. /\ queue[m] > 0 /\ queue[m] <= 1 /\ queue[m] \in Nat /\ post[m.request] = "accepted"
        /\ m.request \in Request
    BY <1>5 DEF Takes, OneInv, TypeInv, Types, Message
  <2>2. queue'[m] = 0 /\ \A n \in Message \ {m} : queue'[n] = queue[n]
    BY <1>5, <2>1 DEF Takes, TypeInv, Types
  <2>3. OnlyTask(w) /\ task'[w].at = "start" /\ task'[w].msg = m
    BY <1>5 DEF Takes
  <2>4. \A n \in Message : queue'[n] > 0 => n # m /\ queue[n] > 0 /\ n.request # m.request
    BY <2>1, <2>2 DEF OneInv
  <2>5. \A v \in Worker : Executing(task[v]) => task[v].msg.request # m.request
    BY <2>1 DEF OneInv
  <2>6. \A n \in Message : queue'[n] <= 1 /\ (queue'[n] > 0 => post'[n.request] = "accepted")
    BY <2>2, <2>4, AcceptedStays DEF Message, OneInv
  <2>7. \A v \in Worker : task'[v].at # "idle" => post'[task'[v].msg.request] = "accepted"
    BY <2>1, <2>3, AcceptedStays, JobsTyped DEF OneInv, OnlyTask
  <2>8. \A k, n \in Message : queue'[k] > 0 /\ queue'[n] > 0 /\ k.request = n.request => k = n
    BY <2>4 DEF OneInv
  <2>9. \A n \in Message, v \in Worker :
          queue'[n] > 0 /\ Executing(task'[v]) => n.request # task'[v].msg.request
    BY <2>3, <2>4 DEF OneInv, OnlyTask
  <2>10. \A u, v \in Worker :
           Executing(task'[u]) /\ Executing(task'[v])
             /\ task'[u].msg.request = task'[v].msg.request => u = v
    BY <2>3, <2>5 DEF OneInv, OnlyTask
  <2> QED BY <1>0, <2>6, <2>7, <2>8, <2>9, <2>10 DEF OneInv
<1>6. ASSUME NEW r \in Request, HandlerMove(r), ~Enqueues(r) PROVE UNCHANGED <<queue, task>>
  BY <1>6 DEF Once, HandlerMove, Submits, Refuses, GivesUp, Apologises, Dies
<1>7. ASSUME NEW w \in Worker, WorkerMove(w), ~Republishes(w), \A m \in Message : ~Takes(w, m)
      PROVE  UNCHANGED queue
  BY <1>7 DEF Once, WorkerMove, Walks, Calls, Ends, Dead, Redelivers
<1>8. StoreMove => UNCHANGED <<queue, task>>
  BY DEF StoreMove
<1> QED BY <1>1, <1>2, <1>3, <1>4, <1>5, <1>6, <1>7, <1>8, StepMoves

\* Without a TTL on the rows and without a second delivery, a job is in one pair
\* of hands: the handler's, the queue's or one execution's.  Processes may die,
\* Redis and publications fail, and ids be submitted again.
THEOREM OneCarriers == ASSUME Once PROVE Spec => []OneCarrier
<1>1. Init => OneInv
  BY DEF Init, OneInv, HasIt, NoTask, Executing
<1>2. TypeInv /\ RowsInv /\ [Next]_vars => RowsInv'
  BY RowsNext DEF Once
<1>3. TypeInv /\ RowsInv /\ OneInv /\ [Next]_vars => OneInv'
  BY OneNext
<1>4. TypeInv /\ OneInv => OneCarrier
  <2> SUFFICES ASSUME TypeInv, OneInv PROVE OneCarrier
    OBVIOUS
  <2>1. ASSUME NEW j \in Job, NEW x \in Carriers(j), NEW y \in Carriers(j) PROVE x = y
    <3> DEFINE Api(z, r)  == r \in Creators(j) /\ z = <<"api", r>>
               Que(z, m)  == m \in Waiting(j) /\ z = <<"queue", m>>
               Work(z, w) == w \in Executions(j) /\ z = <<"worker", w>>
               Is(z) == \/ \E r \in Request : Api(z, r)
                        \/ \E m \in Message : Que(z, m)
                        \/ \E w \in Worker : Work(z, w)
    <3>1. Is(x) /\ Is(y)
      BY DEF Carriers, Creators, Waiting, Executions
    <3>2. \A r \in Creators(j) : HasIt(r) /\ post[r] # "accepted" /\ JobOf[r] = j
      BY DEF Creators, HasIt, CallOk
    <3>3. \A m \in Waiting(j) : /\ m.request \in Request /\ post[m.request] = "accepted"
                                /\ JobOf[m.request] = j /\ queue[m] > 0
      BY DEF Waiting, OneInv, Message
    <3>4. \A w \in Executions(j) :
             /\ task[w].msg.request \in Request /\ post[task[w].msg.request] = "accepted"
             /\ JobOf[task[w].msg.request] = j /\ Executing(task[w])
      BY JobsTyped DEF Executions, OneInv, JobAt, Executing
    <3>5. \A q, r \in Request : HasIt(q) /\ HasIt(r) /\ JobOf[q] = j /\ JobOf[r] = j => q = r
      BY DEF OneInv
    <3>6. \A r \in Request : post[r] = "accepted" => HasIt(r)
      BY DEF HasIt
    <3>7. ASSUME NEW r \in Request, Api(x, r) PROVE x = y
      <4>1. \A q \in Request : Api(y, q) => x = y
        BY <3>2, <3>5, <3>7
      <4>2. \A m \in Message : ~Que(y, m)
        BY <3>2, <3>3, <3>5, <3>6, <3>7
      <4>3. \A w \in Worker : ~Work(y, w)
        BY <3>2, <3>4, <3>5, <3>6, <3>7
      <4> QED BY <3>1, <4>1, <4>2, <4>3
    <3>8. ASSUME NEW m \in Message, Que(x, m) PROVE x = y
      <4>1. \A r \in Request : ~Api(y, r)
        BY <3>2, <3>3, <3>5, <3>6, <3>8
      <4>2. ASSUME NEW n \in Message, Que(y, n) PROVE x = y
        <5>1. m.request = n.request
          BY <3>3, <3>5, <3>6, <3>8, <4>2
        <5> QED BY <3>3, <3>8, <4>2, <5>1 DEF OneInv
      <4>3. ASSUME NEW w \in Worker, Work(y, w) PROVE FALSE
        <5>1. m.request = task[w].msg.request
          BY <3>3, <3>4, <3>5, <3>6, <3>8, <4>3
        <5> QED BY <3>3, <3>4, <3>8, <4>3, <5>1 DEF OneInv
      <4> QED BY <3>1, <4>1, <4>2, <4>3
    <3>9. ASSUME NEW w \in Worker, Work(x, w) PROVE x = y
      <4>1. \A r \in Request : ~Api(y, r)
        BY <3>2, <3>4, <3>5, <3>6, <3>9
      <4>2. ASSUME NEW m \in Message, Que(y, m) PROVE FALSE
        <5>1. m.request = task[w].msg.request
          BY <3>3, <3>4, <3>5, <3>6, <3>9, <4>2
        <5> QED BY <3>3, <3>4, <3>9, <4>2, <5>1 DEF OneInv
      <4>3. ASSUME NEW v \in Worker, Work(y, v) PROVE x = y
        <5>1. task[v].msg.request = task[w].msg.request
          BY <3>4, <3>5, <3>6, <3>9, <4>3
        <5> QED BY <3>4, <3>9, <4>3, <5>1 DEF OneInv
      <4> QED BY <3>1, <4>1, <4>2, <4>3
    <3> QED BY <3>1, <3>7, <3>8, <3>9
  <2>2. \A m \in Message : queue[m] <= 1
    BY DEF OneInv
  <2> QED BY <2>1, <2>2 DEF OneCarrier
<1> QED BY TypeInit, TypeNext, RowsInit, <1>1, <1>2, <1>3, <1>4, PTL DEF Spec
=============================================================================
