---------------------------- MODULE RedisJobStore ----------------------------
(***************************************************************************)
(* The shared job store of app/core/job_store.py: class RedisJobStore.     *)
(*                                                                         *)
(* The store keeps three kinds of Redis keys: one JSON row per job, one    *)
(* PNG per heatmap, and one sorted set that indexes the jobs.  A method is *)
(* a sequence of Redis commands with nothing around it: no MULTI, no       *)
(* WATCH, no lock.  So each Redis command is one action here, and a client *)
(* (an API request or a worker's task) that is inside a method has its     *)
(* place in it, and the locals it still needs, in call[c].                 *)
(*                                                                         *)
(* A row is abstracted to what the rest of the system tells apart: which   *)
(* of the optional fields are present.  Merging works on the whole decoded *)
(* dictionary, as data.update(fields) does, so two overlapping updates     *)
(* lose fields here exactly as they do there.                              *)
(***************************************************************************)
EXTENDS TLC

CONSTANTS
    Job,            \* job ids
    Client,         \* the threads of control that call the store
    Metric,         \* the metrics a job may ask for
    None,           \* no row, no job, no fields
    JobsExpire,     \* JOB_TTL_SEC > 0
    HeatmapsExpire, \* HEATMAP_TTL_SEC > 0
    CallsMayFail    \* a method may be cut short: Redis raises, or its process dies

ASSUME StoreAssumption ==
    /\ JobsExpire \in BOOLEAN
    /\ HeatmapsExpire \in BOOLEAN
    /\ CallsMayFail \in BOOLEAN

VARIABLES
    row,      \* row[j]: the value of the key prefix:job:j, or None
    index,    \* the members of the sorted set prefix:jobs:index
    heatmap,  \* the jobs whose key prefix:job:j:heatmap exists
    call      \* call[c]: the method client c is in, or how its last one ended

storeVars == <<row, index, heatmap, call>>

-----------------------------------------------------------------------------
Status == {"queued", "running", "done", "error"}

Row == [metric        : Metric,
        status        : Status,
        lpips         : BOOLEAN,  \* the value is present (is not None)
        dists         : BOOLEAN,
        error_message : BOOLEAN,  \* likewise; the text may be empty, as str(exc) may be
        has_heatmap   : BOOLEAN]

ASSUME NoneAssumption == None \notin Row

\* Deviation: a status the schema does not know.
PendingRow(m) == [metric |-> m, status |-> "pending", lpips |-> FALSE,
                  dists |-> FALSE, error_message |-> FALSE, has_heatmap |-> FALSE]

NewRow(m) == [metric |-> m, status |-> "queued", lpips |-> FALSE,
              dists |-> FALSE, error_message |-> FALSE, has_heatmap |-> FALSE]

\* The keyword arguments that the program passes to update_job.
Running == [status |-> "running"]
Lpips   == [lpips |-> TRUE]
Heatmap == [has_heatmap |-> TRUE]
Dists   == [dists |-> TRUE]
Done    == [status |-> "done"]
Requeue == [status |-> "queued", error_message |-> FALSE]
Error   == [status |-> "error", error_message |-> TRUE]

Fields == {Running, Lpips, Heatmap, Dists, Done, Requeue, Error}

Merge(data, fields) ==
    [f \in DOMAIN data |-> IF f \in DOMAIN fields THEN fields[f] ELSE data[f]]

-----------------------------------------------------------------------------
\* Where a client is inside a method, named by the command it sends next.
InCreate == {"create_set", "create_zadd"}
InUpdate == {"update_get", "update_set", "update_confirm"}
InList   == {"list_zrange", "list_mget", "list_zrem"}
Inside   == InCreate \cup InUpdate \cup {"heatmap_set"} \cup InList

\* How a method ends: it returns, it raises ValueError (create_job) or
\* KeyError (update_job), or the Redis client raises.
Outcome  == {"ok", "duplicate", "missing", "failed"}

Call == [at     : Inside \cup Outcome,
         job    : Job \cup {None},
         fields : Fields \cup {None},
         data   : Row \cup {None},   \* the decoded row it holds
         ids    : SUBSET Job]

Blank == [at |-> "ok", job |-> None, fields |-> None, data |-> None, ids |-> {}]

Returned(c) == call[c].at \in Outcome

Init ==
    /\ row = [j \in Job |-> None]
    /\ index = {}
    /\ heatmap = {}
    /\ call = [c \in Client |-> Blank]

Enter(c, frame)    == call' = [call EXCEPT ![c] = frame]
Return(c, outcome) == call' = [call EXCEPT ![c] = [Blank EXCEPT !.at = outcome]]

-----------------------------------------------------------------------------
\* create_job: SET key payload NX EX ttl, then ZADD index.

CallCreate(c, j, m) ==
    /\ Returned(c)
    /\ Enter(c, [Blank EXCEPT !.at = "create_set", !.job = j, !.data = NewRow(m)])
    /\ UNCHANGED <<row, index, heatmap>>

\* Deviation: SET without NX.
CreateSetWithoutNx(c) ==
    /\ call[c].at = "create_set"
    /\ row' = [row EXCEPT ![call[c].job] = call[c].data]
    /\ Enter(c, [call[c] EXCEPT !.at = "create_zadd", !.data = None])
    /\ UNCHANGED <<index, heatmap>>

CreateSet(c) ==
    LET j == call[c].job IN
    /\ call[c].at = "create_set"
    /\ \/ /\ row[j] # None
          /\ Return(c, "duplicate")
          /\ UNCHANGED row
       \/ /\ row[j] = None
          /\ row' = [row EXCEPT ![j] = call[c].data]
          /\ Enter(c, [call[c] EXCEPT !.at = "create_zadd", !.data = None])
    /\ UNCHANGED <<index, heatmap>>

CreateZadd(c) ==
    /\ call[c].at = "create_zadd"
    /\ index' = index \cup {call[c].job}
    /\ Return(c, "ok")
    /\ UNCHANGED <<row, heatmap>>

-----------------------------------------------------------------------------
\* update_job: GET, merge the fields, TTL, SET the whole row, GET again.  The
\* TTL command only chooses the expiry of the SET; with expiry an event that
\* may come at any time it shares UpdateSet's step.

CallUpdate(c, j, fields) ==
    /\ Returned(c)
    /\ Enter(c, [Blank EXCEPT !.at = "update_get", !.job = j, !.fields = fields])
    /\ UNCHANGED <<row, index, heatmap>>

UpdateGet(c) ==
    LET j == call[c].job IN
    /\ call[c].at = "update_get"
    /\ \/ /\ row[j] = None
          /\ Return(c, "missing")
       \/ /\ row[j] # None
          /\ Enter(c, [call[c] EXCEPT !.at = "update_set", !.fields = None,
                                      !.data = Merge(row[j], call[c].fields)])
    /\ UNCHANGED <<row, index, heatmap>>

\* SET without XX: it writes whether or not the key is still there.
UpdateSet(c) ==
    /\ call[c].at = "update_set"
    /\ row' = [row EXCEPT ![call[c].job] = call[c].data]
    /\ Enter(c, [call[c] EXCEPT !.at = "update_confirm", !.data = None])
    /\ UNCHANGED <<index, heatmap>>

UpdateConfirm(c) ==
    /\ call[c].at = "update_confirm"
    /\ Return(c, IF row[call[c].job] = None THEN "missing" ELSE "ok")
    /\ UNCHANGED <<row, index, heatmap>>

-----------------------------------------------------------------------------
\* set_heatmap: SET the PNG, then update_job(has_heatmap=True).

\* Deviation: the row announces the PNG and nobody stores it.
CallSetHeatmapFlag(c, j) ==
    /\ Returned(c)
    /\ Enter(c, [Blank EXCEPT !.at = "update_get", !.job = j, !.fields = Heatmap])
    /\ UNCHANGED <<row, index, heatmap>>

CallSetHeatmap(c, j) ==
    /\ Returned(c)
    /\ Enter(c, [Blank EXCEPT !.at = "heatmap_set", !.job = j])
    /\ UNCHANGED <<row, index, heatmap>>

\* Deviation: the row announces the PNG before the PNG is stored.
HeatmapSetAfterFlag(c) ==
    LET j == call[c].job IN
    /\ call[c].at = "heatmap_set"
    /\ IF row[j] # None /\ ~row[j].has_heatmap
       THEN row' = [row EXCEPT ![j].has_heatmap = TRUE] /\ UNCHANGED <<heatmap, call>>
       ELSE heatmap' = heatmap \cup {j} /\ Return(c, "ok") /\ UNCHANGED row
    /\ UNCHANGED index

HeatmapSet(c) ==
    /\ call[c].at = "heatmap_set"
    /\ heatmap' = heatmap \cup {call[c].job}
    /\ Enter(c, [call[c] EXCEPT !.at = "update_get", !.fields = Heatmap])
    /\ UNCHANGED <<row, index>>

-----------------------------------------------------------------------------
\* list_jobs: ZRANGE the index, MGET the rows, ZREM the ids that had none.

CallList(c) ==
    /\ Returned(c)
    /\ Enter(c, [Blank EXCEPT !.at = "list_zrange"])
    /\ UNCHANGED <<row, index, heatmap>>

ListZrange(c) ==
    /\ call[c].at = "list_zrange"
    /\ IF index = {} THEN Return(c, "ok")
                     ELSE Enter(c, [call[c] EXCEPT !.at = "list_mget", !.ids = index])
    /\ UNCHANGED <<row, index, heatmap>>

\* Deviation: finished jobs count as stale.
ListMgetUnfinished(c) ==
    LET stale == {j \in call[c].ids :
                    row[j] = None \/ row[j].status \in {"done", "error"}} IN
    /\ call[c].at = "list_mget"
    /\ IF stale = {} THEN Return(c, "ok")
                     ELSE Enter(c, [call[c] EXCEPT !.at = "list_zrem", !.ids = stale])
    /\ UNCHANGED <<row, index, heatmap>>

ListMget(c) ==
    LET stale == {j \in call[c].ids : row[j] = None} IN
    /\ call[c].at = "list_mget"
    /\ IF stale = {} THEN Return(c, "ok")
                     ELSE Enter(c, [call[c] EXCEPT !.at = "list_zrem", !.ids = stale])
    /\ UNCHANGED <<row, index, heatmap>>

ListZrem(c) ==
    /\ call[c].at = "list_zrem"
    /\ index' = index \ call[c].ids
    /\ Return(c, "ok")
    /\ UNCHANGED <<row, heatmap>>

-----------------------------------------------------------------------------
\* Redis drops a key when its time is over, between any two commands.

ExpireRow(j) ==
    /\ JobsExpire /\ row[j] # None
    /\ row' = [row EXCEPT ![j] = None]
    /\ UNCHANGED <<index, heatmap, call>>

ExpireHeatmap(j) ==
    /\ HeatmapsExpire /\ j \in heatmap
    /\ heatmap' = heatmap \ {j}
    /\ UNCHANGED <<row, index, call>>

\* The method ends between two commands.  A command that took effect but whose
\* reply is lost is the same event one step later, unless it was the last of its
\* method: the ZADD and the ZREM may have taken effect here.
Abandon(c) ==
    /\ CallsMayFail
    /\ ~Returned(c)
    /\ Return(c, "failed")
    /\ \/ UNCHANGED index
       \/ call[c].at = "create_zadd" /\ index' = index \cup {call[c].job}
       \/ call[c].at = "list_zrem" /\ index' = index \ call[c].ids
    /\ UNCHANGED <<row, heatmap>>

-----------------------------------------------------------------------------
Command(c) ==
    \/ CreateSet(c) \/ CreateZadd(c)
    \/ UpdateGet(c) \/ UpdateSet(c) \/ UpdateConfirm(c)
    \/ HeatmapSet(c)
    \/ ListZrange(c) \/ ListMget(c) \/ ListZrem(c)

Begin(c) ==
    \/ \E j \in Job, m \in Metric : CallCreate(c, j, m)
    \/ \E j \in Job, fields \in Fields \ {Heatmap} : CallUpdate(c, j, fields)
    \/ \E j \in Job : CallSetHeatmap(c, j)
    \/ CallList(c)

Expire(j) == ExpireRow(j) \/ ExpireHeatmap(j)

Next ==
    \/ \E c \in Client : Begin(c) \/ Command(c) \/ Abandon(c)
    \/ \E j \in Job : Expire(j)

Spec == Init /\ [][Next]_storeVars

-----------------------------------------------------------------------------
TypeOK ==
    /\ row \in [Job -> Row \cup {None}]
    /\ index \subseteq Job
    /\ heatmap \subseteq Job
    /\ call \in [Client -> Call]

\* The row that client c is about to write, if it is about to write one.
Held(c) == call[c].data
Writing(c) == call[c].at \in {"create_set", "update_set"}

\* GET /v1/compare/jobs lists the index, so a row that left the index is a job
\* the service no longer lists: every row is indexed, or its create_job has
\* still to send the ZADD.
IndexCovers ==
    \A j \in Job : row[j] # None =>
        \/ j \in index
        \/ \E c \in Client : call[c].at = "create_zadd" /\ call[c].job = j

\* The status answer offers heatmap_url for a done job with has_heatmap set.  A
\* row that has it set, done or not yet, stored or held by an overlapping update,
\* has its PNG in the store, so that it can be offered the moment it is done.
HeatmapBacked ==
    /\ \A j \in Job : row[j] # None /\ row[j].has_heatmap => j \in heatmap
    /\ \A c \in Client : Writing(c) /\ Held(c).has_heatmap => call[c].job \in heatmap

\* The row of a job id belongs to one submission: no overlapping update puts
\* back the parameters of an earlier submission under the same id.
IdentityStable ==
    [][\A j \in Job : row[j] # None /\ row'[j] # None => row'[j].metric = row[j].metric]_row
=============================================================================
