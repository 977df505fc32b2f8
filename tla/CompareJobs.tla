----------------------------- MODULE CompareJobs -----------------------------
(***************************************************************************)
(* The life of asynchronous comparison jobs across the processes of the    *)
(* service: POST /v1/compare/jobs in the API processes                     *)
(* (app/api/routes/compare.py, create_compare_job), the Celery queues, and *)
(* process_compare_job in the workers (app/tasks/compare_tasks.py), all    *)
(* over the job store of module RedisJobStore.                             *)
(*                                                                         *)
(* A handler and a task are sequential programs whose every store call is  *)
(* several Redis commands; those are steps of their own, so the programs   *)
(* here only say which call comes next and what each outcome leads to.     *)
(* The messages carry images that nothing below depends on: a message is   *)
(* the request it was made for and whether it is the CPU fallback.         *)
(*                                                                         *)
(* Celery and Redis-as-broker are not part of the repository.  They are    *)
(* modelled from the configuration in app/core/celery_app.py: late         *)
(* acknowledgement, hard time limit, one task at a time in each worker.    *)
(***************************************************************************)
EXTENDS Naturals, FiniteSets

CONSTANTS
    Request,         \* executions of the POST handler, each with its own process
    Worker,          \* worker processes
    Reader,          \* clients of the read endpoints, each with one request at a time
    Job, Metric,     \* job ids; the metrics asked for
    None,
    JobOf,           \* JobOf[r], MetricOf[r]: the form fields of request r
    MetricOf,
    Consumes,        \* Consumes[w]: the queue that worker w was started on (-Q)
    Mode,            \* COMPARE_EXECUTION_DEVICE
    GpuQueueEnabled, \* ENABLE_GPU_QUEUE
    JobsExpire,      \* JOB_TTL_SEC > 0
    HeatmapsExpire,  \* HEATMAP_TTL_SEC > 0
    Faults,          \* what may go wrong
    MaxFaults        \* bound: how often something may go wrong

FaultKind == {"compute",        \* a metric raises, or the soft time limit does meanwhile
              "gpu",            \* a metric raises and the text names the GPU
              "temp",           \* a temporary image cannot be stored, or the limit raises
              "soft_limit",     \* the soft time limit raises inside a task's store call
              "redis",          \* a command to the job store raises
              "publish_lost",   \* apply_async raises and nothing was queued
              "publish_unsure", \* apply_async raises after the message was queued
              "republish_lost", \* apply_async of the CPU fallback raises
              "finally",        \* the soft time limit or a removal raises in the finally clause
              "api_crash",      \* the API process dies in the handler
              "kill",           \* the task's process dies: time limit, OOM
              "crash",          \* the whole worker dies and is restarted
              "reconnect"}      \* the worker loses its broker connection

CutShort == {"redis", "soft_limit", "api_crash", "kill", "crash"}

ASSUME CompareAssumption ==
    /\ JobOf \in [Request -> Job] /\ MetricOf \in [Request -> Metric]
    /\ Metric \subseteq {"lpips", "dists", "both"}
    /\ Consumes \in [Worker -> {"cpu", "gpu"}]
    /\ Mode \in {"cpu", "gpu", "auto"} /\ GpuQueueEnabled \in BOOLEAN
    /\ Faults \subseteq FaultKind /\ MaxFaults \in Nat
    /\ Request \cap Worker = {} /\ Reader \cap (Request \cup Worker) = {}

VARIABLES
    row, index, heatmap, call, \* the job store, see RedisJobStore
    post,    \* post[r]: where the handler of r is, or what it answered
    queue,   \* queue[m]: deliveries of message m that wait in m's queue
    task,    \* task[w]: the execution of process_compare_job in worker w
    inflight,\* inflight[w]: worker w's part of the gauge pms_jobs_inflight
    litter,  \* temporary images on disk that no execution will remove
    read,    \* read[d]: what d's heatmap request knows from its first read, or None
    faults   \* how often something went wrong

Client == Request \cup Worker \cup Reader

Store == INSTANCE RedisJobStore
           WITH Client <- Client,
                CallsMayFail <- Faults \cap CutShort # {}

\* What the store assumes of its constants.
ASSUME RowAssumption ==
    JobsExpire \in BOOLEAN /\ HeatmapsExpire \in BOOLEAN /\ None \notin Store!Row

storeVars == <<row, index, heatmap, call>>
vars == <<row, index, heatmap, call, post, queue, task, inflight, litter, read, faults>>

-----------------------------------------------------------------------------
Message == [request : Request, fallback : BOOLEAN]

\* select_queue_for_job for a new job, the CPU queue for a fallback.  The
\* device a message forces follows its queue: "cuda" on the GPU queue.
QueueOf(m) ==
    IF m.fallback \/ Mode = "cpu" \/ ~GpuQueueEnabled THEN "cpu" ELSE "gpu"

NeedsLpips(m) == MetricOf[m.request] \in {"lpips", "both"}
NeedsDists(m) == MetricOf[m.request] \in {"dists", "both"}

Answer == {"accepted",    \* 202
           "conflict",    \* 409
           "unavailable", \* 503
           "broken"}      \* 500, or no answer

Handling == {"creating", "failing"}

\* The places of process_compare_job: save_x waits for the store call that
\* saves x, the others are about to do what they are named for.
Guarded == {"lpips", "save_lpips", "save_heatmap", "dists", "save_dists", "save_done",
            "requeue", "error", "finally"}
Place   == {"idle", "start", "ack"} \cup Guarded

Task == [at : Place, msg : Message \cup {None},
         owns  : BOOLEAN,  \* its acknowledgement still removes the message
         temps : 0..2]     \* its temporary images

HeatmapRead == [job : Job, metric : Metric, has_heatmap : BOOLEAN]

NoTask == [at |-> "idle", msg |-> None, owns |-> FALSE, temps |-> 0]

Init ==
    /\ Store!Init
    /\ post = [r \in Request |-> "new"]
    /\ queue = [m \in Message |-> 0]
    /\ task = [w \in Worker |-> NoTask]
    /\ inflight = [w \in Worker |-> 0]
    /\ litter = 0
    /\ read = [d \in Reader |-> None]
    /\ faults = 0

Fault(kind) ==
    /\ kind \in Faults /\ faults < MaxFaults
    /\ faults' = faults + 1

Returned(c)   == Store!Returned(c)
CallOk(c)     == call[c].at = "ok"
CallRaised(c) == Returned(c) /\ ~CallOk(c)

Put(m) == queue' = [queue EXCEPT ![m] = @ + 1]

\* The store call of a process that dies ends where it is.
DropCall(c) ==
    IF Returned(c) THEN UNCHANGED storeVars ELSE Store!Abandon(c)

-----------------------------------------------------------------------------
\* create_compare_job, from create_job on.  What comes before it (rate limit,
\* validation, signature) touches no state that is modelled here.

Answers(r, a) == post' = [post EXCEPT ![r] = a]

Submit(r) ==
    /\ post[r] = "new"
    /\ Answers(r, "creating")
    /\ Store!CallCreate(r, JobOf[r], MetricOf[r])
    /\ UNCHANGED <<queue, task, inflight, litter, faults, read>>

\* ValueError is 409; any other exception of create_job is not caught.
Refuse(r) ==
    /\ post[r] = "creating" /\ CallRaised(r)
    /\ Answers(r, IF call[r].at = "duplicate" THEN "conflict" ELSE "broken")
    /\ UNCHANGED <<storeVars, queue, task, inflight, litter, faults, read>>

Enqueue(r) ==
    /\ post[r] = "creating" /\ CallOk(r)
    /\ Put([request |-> r, fallback |-> FALSE])
    /\ Answers(r, "accepted")
    /\ UNCHANGED <<storeVars, task, inflight, litter, faults, read>>

\* Deviation: 503 without marking the row.
EnqueueFailsSilently(r) ==
    /\ post[r] = "creating" /\ CallOk(r)
    /\ Fault("publish_lost")
    /\ Answers(r, "unavailable")
    /\ UNCHANGED <<storeVars, queue, task, inflight, litter, read>>

\* apply_async raises: the row gets status "error".  The exception does not say
\* whether the broker has the message.
EnqueueFails(r) ==
    /\ post[r] = "creating" /\ CallOk(r)
    /\ \/ Fault("publish_lost") /\ UNCHANGED queue
       \/ Fault("publish_unsure") /\ Put([request |-> r, fallback |-> FALSE])
    /\ Store!CallUpdate(r, JobOf[r], Store!Error)
    /\ Answers(r, "failing")
    /\ UNCHANGED <<task, inflight, litter, read>>

Apologise(r) ==
    /\ post[r] = "failing" /\ Returned(r)
    /\ Answers(r, IF CallOk(r) THEN "unavailable" ELSE "broken")
    /\ UNCHANGED <<storeVars, queue, task, inflight, litter, faults, read>>

ApiDies(r) ==
    /\ post[r] \in Handling
    /\ Fault("api_crash")
    /\ Answers(r, "broken")
    /\ DropCall(r)
    /\ UNCHANGED <<queue, task, inflight, litter, read>>

-----------------------------------------------------------------------------
\* process_compare_job.

JobAt(w) == JobOf[task[w].msg.request]

Goto(w, p)         == task' = [task EXCEPT ![w].at = p]
Save(w, fields, p) == Store!CallUpdate(w, JobAt(w), fields) /\ Goto(w, p)

\* Deviation: the message is acknowledged before the task runs.
TakeAndAck(w) ==
    \E m \in Message :
        /\ task[w].at = "idle"
        /\ queue[m] > 0 /\ QueueOf(m) = Consumes[w]
        /\ queue' = [queue EXCEPT ![m] = @ - 1]
        /\ task' = [task EXCEPT ![w] =
                      [at |-> "start", msg |-> m, owns |-> FALSE, temps |-> 0]]
        /\ inflight' = [inflight EXCEPT ![w] = @ + 1]
        /\ Store!CallUpdate(w, JobOf[m.request], Store!Running)
        /\ UNCHANGED <<post, litter, faults, read>>

\* Delivery, the counters, and the first store call: status "running".
Take(w) ==
    \E m \in Message :
        /\ task[w].at = "idle"
        /\ queue[m] > 0 /\ QueueOf(m) = Consumes[w]
        /\ queue' = [queue EXCEPT ![m] = @ - 1]
        /\ task' = [task EXCEPT ![w] =
                      [at |-> "start", msg |-> m, owns |-> TRUE, temps |-> 0]]
        /\ inflight' = [inflight EXCEPT ![w] = @ + 1]
        /\ Store!CallUpdate(w, JobOf[m.request], Store!Running)
        /\ UNCHANGED <<post, litter, faults, read>>

\* What raises before the try statement passes by its except and its finally.
Escape(w) ==
    /\ task[w].at = "start" /\ CallRaised(w)
    /\ Goto(w, "ack")
    /\ UNCHANGED <<storeVars, post, queue, inflight, litter, faults, read>>

TempFails(w) ==
    /\ task[w].at = "start" /\ CallOk(w)
    /\ Fault("temp")
    /\ \E n \in 0..2 : litter' = litter + n
    /\ Goto(w, "ack")
    /\ UNCHANGED <<storeVars, post, queue, inflight, read>>

StoreTemps(w) ==
    /\ task[w].at = "start" /\ CallOk(w)
    /\ task' = [task EXCEPT ![w].temps = 2,
                            ![w].at = IF NeedsLpips(task[w].msg) THEN "lpips" ELSE "dists"]
    /\ UNCHANGED <<storeVars, post, queue, inflight, litter, faults, read>>

\* The LPIPS distance and its heatmap are both computed before either is saved.
Lpips(w) ==
    /\ task[w].at = "lpips"
    /\ Save(w, Store!Lpips, "save_lpips")
    /\ UNCHANGED <<post, queue, inflight, litter, faults, read>>

SaveHeatmap(w) ==
    /\ task[w].at = "save_lpips" /\ CallOk(w)
    /\ Store!CallSetHeatmap(w, JobAt(w))
    /\ Goto(w, "save_heatmap")
    /\ UNCHANGED <<post, queue, inflight, litter, faults, read>>

LpipsSaved(w) ==
    /\ task[w].at = "save_heatmap" /\ CallOk(w) /\ NeedsDists(task[w].msg)
    /\ Goto(w, "dists")
    /\ UNCHANGED <<storeVars, post, queue, inflight, litter, faults, read>>

Dists(w) ==
    /\ task[w].at = "dists"
    /\ Save(w, Store!Dists, "save_dists")
    /\ UNCHANGED <<post, queue, inflight, litter, faults, read>>

\* Deviation: done as soon as the LPIPS part is saved.
SaveDoneEarly(w) ==
    /\ task[w].at \in {"save_heatmap", "save_dists"}
    /\ CallOk(w)
    /\ Save(w, Store!Done, "save_done")
    /\ UNCHANGED <<post, queue, inflight, litter, faults, read>>

SaveDone(w) ==
    /\ \/ task[w].at = "save_heatmap" /\ ~NeedsDists(task[w].msg)
       \/ task[w].at = "save_dists"
    /\ CallOk(w)
    /\ Save(w, Store!Done, "save_done")
    /\ UNCHANGED <<post, queue, inflight, litter, faults, read>>

\* Deviation: the gauge is decremented here and again in finally.
FinishedAndCounted(w) ==
    /\ task[w].at = "save_done" /\ CallOk(w)
    /\ Goto(w, "finally")
    /\ inflight' = [inflight EXCEPT ![w] = @ - 1]
    /\ UNCHANGED <<storeVars, post, queue, litter, faults, read>>

Finished(w) ==
    /\ task[w].at = "save_done" /\ CallOk(w)
    /\ Goto(w, "finally")
    /\ UNCHANGED <<storeVars, post, queue, inflight, litter, faults, read>>

-----------------------------------------------------------------------------
\* The except clause: a GPU failure of a first attempt on the GPU goes back to
\* the queue for the CPU, everything else is an error.

MayFallBack(m) == QueueOf(m) = "gpu" /\ ~m.fallback

Raised(w, isGpuFailure) ==
    IF isGpuFailure /\ MayFallBack(task[w].msg)
    THEN Save(w, Store!Requeue, "requeue")
    ELSE Save(w, Store!Error, "error")

\* The text of a heatmap failure is replaced by one that names no GPU, so a GPU
\* failure there is an ordinary one: it is in "compute".
ComputeFails(w) ==
    /\ task[w].at \in {"lpips", "dists"}
    /\ Fault("compute")
    /\ Raised(w, FALSE)
    /\ UNCHANGED <<post, queue, inflight, litter, read>>

\* Deviation: the fallback is published before the row says "queued".
GpuFailsPublishFirst(w) ==
    /\ task[w].at \in {"lpips", "dists"} /\ QueueOf(task[w].msg) = "gpu"
    /\ Fault("gpu")
    /\ Put([task[w].msg EXCEPT !.fallback = TRUE])
    /\ Save(w, Store!Requeue, "error")
    /\ UNCHANGED <<post, inflight, litter, read>>

GpuFails(w) ==
    /\ task[w].at \in {"lpips", "dists"} /\ QueueOf(task[w].msg) = "gpu"
    /\ Fault("gpu")
    /\ Raised(w, TRUE)
    /\ UNCHANGED <<post, queue, inflight, litter, read>>

SaveFails(w) ==
    /\ task[w].at \in {"save_lpips", "save_heatmap", "save_dists", "save_done"}
    /\ CallRaised(w)
    /\ Raised(w, FALSE)
    /\ UNCHANGED <<post, queue, inflight, litter, faults, read>>

\* Deviation: the fallback returns past the finally clause.
RepublishAndLeave(w) ==
    /\ task[w].at = "requeue" /\ CallOk(w)
    /\ Put([task[w].msg EXCEPT !.fallback = TRUE])
    /\ Goto(w, "ack")
    /\ UNCHANGED <<storeVars, post, inflight, litter, faults, read>>

\* Deviation: the row is queued again, the message is not.
RepublishForgotten(w) ==
    /\ task[w].at = "requeue" /\ CallOk(w)
    /\ Goto(w, "finally")
    /\ UNCHANGED <<storeVars, post, queue, inflight, litter, faults, read>>

Republish(w) ==
    /\ task[w].at = "requeue" /\ CallOk(w)
    /\ Put([task[w].msg EXCEPT !.fallback = TRUE])
    /\ Goto(w, "finally")
    /\ UNCHANGED <<storeVars, post, inflight, litter, faults, read>>

RepublishFails(w) ==
    /\ task[w].at = "requeue" /\ CallOk(w)
    /\ Fault("republish_lost")
    /\ Goto(w, "finally")
    /\ UNCHANGED <<storeVars, post, queue, inflight, litter, read>>

\* The last store call of the except clause returned, or raised.
Excepted(w) ==
    /\ \/ task[w].at = "requeue" /\ CallRaised(w)
       \/ task[w].at = "error" /\ Returned(w)
    /\ Goto(w, "finally")
    /\ UNCHANGED <<storeVars, post, queue, inflight, litter, faults, read>>

Finally(w) ==
    /\ task[w].at = "finally"
    /\ inflight' = [inflight EXCEPT ![w] = @ - 1]
    /\ task' = [task EXCEPT ![w].temps = 0, ![w].at = "ack"]
    /\ UNCHANGED <<storeVars, post, queue, litter, faults, read>>

\* The clause is cut short: before the gauge's dec(), or with at least one image
\* left, since only a missing file is suppressed.
FinallyFails(w) ==
    /\ task[w].at = "finally"
    /\ Fault("finally")
    /\ \/ litter' = litter + 2 /\ UNCHANGED inflight
       \/ /\ \E n \in 1..2 : litter' = litter + n
          /\ inflight' = [inflight EXCEPT ![w] = @ - 1]
    /\ task' = [task EXCEPT ![w].temps = 0, ![w].at = "ack"]
    /\ UNCHANGED <<storeVars, post, queue, read>>

\* task_acks_late: Celery acknowledges the message when the task has returned
\* or raised.
Ack(w) ==
    /\ task[w].at = "ack"
    /\ task' = [task EXCEPT ![w] = NoTask]
    /\ UNCHANGED <<storeVars, post, queue, inflight, litter, faults, read>>

-----------------------------------------------------------------------------
\* What happens to a worker.

Stop(w) ==
    /\ task[w].at # "idle"
    /\ task' = [task EXCEPT ![w] = NoTask]
    /\ litter' = litter + task[w].temps
    /\ DropCall(w)
    /\ UNCHANGED <<post, read>>

\* The task's process is killed by the hard time limit or the OOM killer.
\* Celery's parent process acknowledges the message; the shutdown signal that
\* calls mark_process_dead does not run in a killed process, so its part of the
\* gauge stays.
Kill(w) ==
    /\ Fault("kill")
    /\ Stop(w)
    /\ UNCHANGED <<queue, inflight>>

\* Deviation: the metric files of the previous run are kept.
CrashKeepingMetrics(w) ==
    /\ Fault("crash")
    /\ Stop(w)
    /\ IF task[w].owns THEN Put(task[w].msg) ELSE UNCHANGED queue
    /\ UNCHANGED inflight

\* The worker dies with everything it runs.  The broker delivers its message
\* again, and worker_init deletes the metric files of the previous run.
Crash(w) ==
    /\ Fault("crash")
    /\ Stop(w)
    /\ inflight' = [inflight EXCEPT ![w] = 0]
    /\ IF task[w].owns THEN Put(task[w].msg) ELSE UNCHANGED queue

\* The broker puts back what was not acknowledged; the task runs on.
Reconnect(w) ==
    /\ task[w].owns
    /\ Fault("reconnect")
    /\ Put(task[w].msg)
    /\ task' = [task EXCEPT ![w].owns = FALSE]
    /\ UNCHANGED <<storeVars, post, inflight, litter, read>>

-----------------------------------------------------------------------------
StoreCommand(c) ==
    /\ Store!Command(c)
    /\ UNCHANGED <<post, queue, task, inflight, litter, faults, read>>

\* Redis raises, or in a task the soft time limit does: in the middle of a call, or
\* at its end, when everything is written and the call has still to return.
StoreRaises(c) ==
    /\ Fault("redis") \/ (c \in Worker /\ Fault("soft_limit"))
    /\ Store!Abandon(c)
    /\ UNCHANGED <<post, queue, task, inflight, litter, read>>

Expire(j) ==
    /\ Store!Expire(j)
    /\ UNCHANGED <<post, queue, task, inflight, litter, faults, read>>

\* list_compare_jobs: it only reads, but what it calls prunes the index.
ListJobs(d) ==
    /\ read[d] = None
    /\ Store!CallList(d)
    /\ UNCHANGED <<post, queue, task, inflight, litter, read, faults>>

\* get_compare_job_heatmap reads twice: the row, which must say "done", then
\* the PNG.  What it refuses after the first read leaves no trace.
GetHeatmapRow(d) ==
    /\ Returned(d) /\ read[d] = None
    /\ \E j \in Job :
         /\ row[j] # None /\ row[j].status = "done"
         /\ read' = [read EXCEPT ![d] = [job |-> j, metric |-> row[j].metric,
                                         has_heatmap |-> row[j].has_heatmap]]
    /\ UNCHANGED <<storeVars, post, queue, task, inflight, litter, faults>>

\* 200 if the PNG is there, else 404.
GetHeatmapPng(d) ==
    /\ read[d] # None
    /\ read' = [read EXCEPT ![d] = None]
    /\ UNCHANGED <<storeVars, post, queue, task, inflight, litter, faults>>

Handle(r) == Refuse(r) \/ Enqueue(r) \/ EnqueueFails(r) \/ Apologise(r)

Execute(w) ==
    \/ Escape(w) \/ TempFails(w) \/ StoreTemps(w)
    \/ Lpips(w) \/ SaveHeatmap(w) \/ LpipsSaved(w) \/ Dists(w) \/ SaveDone(w) \/ Finished(w)
    \/ ComputeFails(w) \/ GpuFails(w) \/ SaveFails(w)
    \/ Republish(w) \/ RepublishFails(w) \/ Excepted(w) \/ Finally(w) \/ FinallyFails(w) \/ Ack(w)

Next ==
    \/ \E r \in Request : Submit(r) \/ Handle(r) \/ ApiDies(r)
    \/ \E w \in Worker : Take(w) \/ Execute(w) \/ Kill(w) \/ Crash(w) \/ Reconnect(w)
    \/ \E d \in Reader : ListJobs(d) \/ GetHeatmapRow(d) \/ GetHeatmapPng(d)
    \/ \E c \in Client : StoreCommand(c) \/ StoreRaises(c)
    \/ \E j \in Job : Expire(j)

\* A handler that began goes on, and a worker takes messages and goes on; that
\* anybody submits or lists is not assumed, nor that anything goes wrong.
Fairness ==
    /\ \A r \in Request : WF_vars(Handle(r) \/ StoreCommand(r))
    /\ \A w \in Worker : WF_vars(Take(w) \/ Execute(w) \/ StoreCommand(w))

Spec     == Init /\ [][Next]_vars
FairSpec == Spec /\ Fairness

-----------------------------------------------------------------------------
TypeOK ==
    /\ Store!TypeOK
    /\ post \in [Request -> {"new"} \cup Handling \cup Answer]
    /\ queue \in [Message -> Nat]
    /\ task \in [Worker -> Task]
    /\ inflight \in [Worker -> Nat]
    /\ litter \in Nat
    /\ read \in [Reader -> HeatmapRead \cup {None}]
    /\ faults \in 0..MaxFaults

HasRow(j) == row[j] # None
Settled(j) == HasRow(j) /\ row[j].status \in {"done", "error"}

\* Who will still move job j on: the handler that created its row, deliveries
\* that wait, executions that have not reached their finally clause.
Creators(j) ==
    {r \in Request : /\ JobOf[r] = j
                     /\ \/ post[r] = "creating" /\ (CallOk(r) \/ call[r].at = "create_zadd")
                        \/ post[r] = "failing"}
Waiting(j)    == {m \in Message : JobOf[m.request] = j /\ queue[m] > 0}
Executions(j) == {w \in Worker : task[w].at \notin {"idle", "finally", "ack"} /\ JobAt(w) = j}

Carriers(j) ==
    {<<"api", r>> : r \in Creators(j)} \cup {<<"queue", m>> : m \in Waiting(j)}
      \cup {<<"worker", w>> : w \in Executions(j)}

\* Every job is in one pair of hands: update_job is not atomic, so the store is
\* only right when no two of them work on the same job.
OneCarrier ==
    /\ \A j \in Job : \A x, y \in Carriers(j) : x = y
    /\ \A m \in Message : queue[m] <= 1

\* A job that is not settled is in somebody's hands, so it can still be.
NoOrphan ==
    \A j \in Job : HasRow(j) /\ ~Settled(j) => Carriers(j) # {}

\* A client that reads status "done" finds every result the metric asks for,
\* its heatmap, and no error.
DoneComplete ==
    \A j \in Job : HasRow(j) /\ row[j].status = "done" =>
        /\ row[j].metric # "dists" => row[j].lpips /\ row[j].has_heatmap /\ j \in heatmap
        /\ row[j].metric # "lpips" => row[j].dists
        /\ ~row[j].error_message

\* The status that settles a job is its final state.
SettledIsFinal ==
    [][\A j \in Job : Settled(j) /\ row'[j] # None => row'[j].status = row[j].status]_row

\* The gauge counts the executions in progress.
InflightExact ==
    \A w \in Worker : inflight[w] = IF task[w].at \in {"idle", "ack"} THEN 0 ELSE 1

\* Whatever goes wrong, the gauge of a worker that executes a job is above zero:
\* every way out of an execution decrements it at most once.
InflightCovers ==
    \A w \in Worker : task[w].at \notin {"idle", "ack"} => inflight[w] > 0

\* An execution that is over left the gauge as it was and no image behind.
LeavesNoTrace == InflightExact /\ litter = 0

\* GET .../heatmap is documented for jobs that include LPIPS: when it is about
\* to answer 200, the row it read first was of a job that asked for LPIPS.
HeatmapBelongs ==
    \A d \in Reader : read[d] # None /\ read[d].job \in heatmap =>
        read[d].metric \in {"lpips", "both"}

\* A heatmap request whose row announces the PNG gets it, although the PNG is
\* read later than the row and other executions of the job may be under way.
HeatmapDelivered ==
    \A d \in Reader : read[d] # None /\ read[d].has_heatmap => read[d].job \in heatmap

\* The URLs that a status answer contains.
Offered(j) ==
    {x \in {"heatmap", "error"} :
        CASE x = "heatmap" -> row[j].has_heatmap /\ row[j].status = "done"
          [] x = "error"   -> row[j].status = "error"}

\* What the heatmap and the error endpoint would answer with 200.
HeatmapServed(j) == row[j].status = "done" /\ j \in heatmap
ErrorServed(j)   == row[j].status = "error"

Served(j) ==
    {x \in {"heatmap", "error"} : IF x = "heatmap" THEN HeatmapServed(j) ELSE ErrorServed(j)}

\* What a client reads about job j, and no more.
Shown(j) ==
    [metric |-> row[j].metric, status |-> row[j].status,
     results |-> {x \in {"lpips", "heatmap", "dists"} :
                    CASE x = "lpips"   -> row[j].lpips
                      [] x = "heatmap" -> row[j].has_heatmap
                      [] x = "dists"   -> row[j].dists},
     offered |-> Offered(j), served |-> Served(j)]

Lifecycle == INSTANCE JobLifecycle
               WITH job <- [j \in Job |-> IF HasRow(j) THEN Shown(j) ELSE None]

\* A client can tell a job that is not there from one that is.
ASSUME ShownAssumption == None \notin Lifecycle!Published

\* Polling shows each job the life it was promised: queued, running, each
\* result once, then done or error, and nothing after that; it gets there, and a
\* URL is offered when, and as long as, it is served.
KeepsPromise == Lifecycle!Spec

\* Every job that was created is settled in the end, or its row expires.
Settles == \A j \in Job : HasRow(j) ~> (Settled(j) \/ ~HasRow(j))
=============================================================================
