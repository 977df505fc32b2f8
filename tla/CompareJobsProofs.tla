-------------------------- MODULE CompareJobsProofs --------------------------
(***************************************************************************)
(* Type correctness of CompareJobs, and its refinement of RedisJobStore:   *)
(* the handlers and the tasks call the store as the store's specification  *)
(* lets any client call it, so what RedisJobStoreProofs proves of the      *)
(* store holds in the running service.                                     *)
(*                                                                         *)
(* CompareJobs instantiates RedisJobStore, the proofs of the store extend  *)
(* it: Store!X and Redis!X are the same definition reached by two paths,   *)
(* and the first lemmas say so.                                            *)
(***************************************************************************)
EXTENDS CompareJobs, TLAPS

Redis == INSTANCE RedisJobStoreProofs
           WITH Client <- Client,
                CallsMayFail <- Faults \cap CutShort # {}

\* The store's assumptions on its constants hold here.
LEMMA StoreAssumptions == Redis!StoreAssumption /\ Redis!NoneAssumption
BY RowAssumption DEF Redis!StoreAssumption, Redis!NoneAssumption, Store!Row, Redis!Row,
   Store!Status, Redis!Status

\* The commands of the store are those that RedisJobStoreProofs is about.
LEMMA SameCommands ==
    ASSUME NEW c \in Client
    PROVE  /\ Store!Command(c) => Redis!Command(c)
           /\ Store!Abandon(c) => Redis!Abandon(c)
<1> USE DEF Store!Enter, Redis!Enter, Store!Return, Redis!Return, Store!Blank, Redis!Blank
<1>1. Store!CreateSet(c) => Redis!CreateSet(c)
  BY DEF Store!CreateSet, Redis!CreateSet
<1>2. Store!CreateZadd(c) => Redis!CreateZadd(c)
  BY DEF Store!CreateZadd, Redis!CreateZadd
<1>3. Store!UpdateGet(c) => Redis!UpdateGet(c)
  BY DEF Store!UpdateGet, Redis!UpdateGet, Store!Merge, Redis!Merge
<1>4. Store!UpdateSet(c) => Redis!UpdateSet(c)
  BY DEF Store!UpdateSet, Redis!UpdateSet
<1>5. Store!UpdateConfirm(c) => Redis!UpdateConfirm(c)
  BY DEF Store!UpdateConfirm, Redis!UpdateConfirm
<1>6. Store!HeatmapSet(c) => Redis!HeatmapSet(c)
  BY DEF Store!HeatmapSet, Redis!HeatmapSet, Store!Heatmap, Redis!Heatmap
<1>7. Store!ListZrange(c) => Redis!ListZrange(c)
  BY DEF Store!ListZrange, Redis!ListZrange
<1>8. Store!ListMget(c) => Redis!ListMget(c)
  BY DEF Store!ListMget, Redis!ListMget
<1>9. Store!ListZrem(c) => Redis!ListZrem(c)
  BY DEF Store!ListZrem, Redis!ListZrem
<1>10. Store!Abandon(c) => Redis!Abandon(c)
  BY DEF Store!Abandon, Redis!Abandon, Store!Returned, Redis!Returned,
     Store!Outcome, Redis!Outcome
<1> QED BY <1>1, <1>2, <1>3, <1>4, <1>5, <1>6, <1>7, <1>8, <1>9, <1>10
           DEF Store!Command, Redis!Command

\* So are the calls that the program makes.
LEMMA SameCalls ==
    ASSUME NEW c \in Client, NEW j \in Job
    PROVE  /\ \A m \in Metric : Store!CallCreate(c, j, m) => Redis!Begin(c)
           /\ \A u \in Store!Fields \ {Store!Heatmap} :
                 Store!CallUpdate(c, j, u) => Redis!Begin(c)
           /\ Store!CallSetHeatmap(c, j) => Redis!Begin(c)
<1> USE DEF Store!Enter, Redis!Enter, Store!Blank, Redis!Blank, Store!Returned,
    Redis!Returned, Store!Outcome, Redis!Outcome
<1>1. ASSUME NEW m \in Metric, Store!CallCreate(c, j, m) PROVE Redis!CallCreate(c, j, m)
  BY <1>1 DEF Store!CallCreate, Redis!CallCreate, Store!NewRow, Redis!NewRow
<1>2. Store!Fields = Redis!Fields /\ Store!Heatmap = Redis!Heatmap
  BY DEF Store!Fields, Redis!Fields, Store!Running, Redis!Running, Store!Lpips, Redis!Lpips,
     Store!Heatmap, Redis!Heatmap, Store!Dists, Redis!Dists, Store!Done, Redis!Done,
     Store!Requeue, Redis!Requeue, Store!Error, Redis!Error
<1>3. ASSUME NEW u, Store!CallUpdate(c, j, u) PROVE Redis!CallUpdate(c, j, u)
  BY <1>3 DEF Store!CallUpdate, Redis!CallUpdate
<1>4. Store!CallSetHeatmap(c, j) => Redis!CallSetHeatmap(c, j)
  BY DEF Store!CallSetHeatmap, Redis!CallSetHeatmap
<1> QED BY <1>1, <1>2, <1>3, <1>4 DEF Redis!Begin

\* And the listing of the jobs.
LEMMA SameList ==
    ASSUME NEW c \in Client, Store!CallList(c)
    PROVE  Redis!Begin(c)
BY DEF Store!CallList, Redis!CallList, Redis!Begin, Store!Enter, Redis!Enter, Store!Blank,
   Redis!Blank, Store!Returned, Redis!Returned, Store!Outcome, Redis!Outcome

\* And what expires.
LEMMA SameExpiry == ASSUME NEW j \in Job PROVE Store!Expire(j) => Redis!Expire(j)
BY DEF Store!Expire, Redis!Expire, Store!ExpireRow, Redis!ExpireRow,
   Store!ExpireHeatmap, Redis!ExpireHeatmap

\* Its states, rows and properties are the same, too.
LEMMA SameTypes ==
    /\ Store!TypeOK <=> Redis!TypeOK
    /\ Store!Init <=> Redis!Init
    /\ Store!Row = Redis!Row /\ Store!Fields = Redis!Fields
<1>1. Store!Fields = Redis!Fields
  BY DEF Store!Fields, Redis!Fields, Store!Running, Redis!Running, Store!Lpips, Redis!Lpips,
     Store!Heatmap, Redis!Heatmap, Store!Dists, Redis!Dists, Store!Done, Redis!Done,
     Store!Requeue, Redis!Requeue, Store!Error, Redis!Error
<1>2. Store!Row = Redis!Row
  BY DEF Store!Row, Redis!Row, Store!Status, Redis!Status
<1>3. Store!Call = Redis!Call
  BY <1>1, <1>2 DEF Store!Call, Redis!Call, Store!Inside, Redis!Inside, Store!Outcome,
     Redis!Outcome, Store!InCreate, Redis!InCreate, Store!InUpdate, Redis!InUpdate,
     Store!InList, Redis!InList
<1>4. Store!Init <=> Redis!Init
  BY DEF Store!Init, Redis!Init, Store!Blank, Redis!Blank
<1> QED BY <1>1, <1>2, <1>3, <1>4 DEF Store!TypeOK, Redis!TypeOK

-----------------------------------------------------------------------------
(***************************************************************************)
(* What a step does to the store                                           *)
(***************************************************************************)

\* The place of a call and its locals, as far as the proofs need them.
At(c, at, j) == call'[c].at = at /\ call'[c].job = j

\* Only c's call moves.
OnlyCall(c) == \A d \in Client \ {c} : call'[d] = call[d]

\* The three ways in which the program calls the store.
LEMMA CallsMove ==
    ASSUME Store!TypeOK, NEW c \in Client, NEW j
    PROVE  /\ \A u : Store!CallUpdate(c, j, u) =>
                /\ Returned(c) /\ UNCHANGED <<row, index, heatmap>> /\ OnlyCall(c)
                /\ At(c, "update_get", j) /\ call'[c].fields = u
           /\ \A m : Store!CallCreate(c, j, m) =>
                /\ Returned(c) /\ UNCHANGED <<row, index, heatmap>> /\ OnlyCall(c)
                /\ At(c, "create_set", j) /\ call'[c].data = Store!NewRow(m)
           /\ Store!CallSetHeatmap(c, j) =>
                /\ Returned(c) /\ UNCHANGED <<row, index, heatmap>> /\ OnlyCall(c)
                /\ At(c, "heatmap_set", j)
           /\ Store!CallList(c) =>
                /\ Returned(c) /\ UNCHANGED <<row, index, heatmap>> /\ OnlyCall(c)
                /\ call'[c].at = "list_zrange"
<1> USE DEF Store!TypeOK, Store!Enter, Store!Blank, OnlyCall, At, Returned
<1>1. \A u : Store!CallUpdate(c, j, u) =>
                /\ Returned(c) /\ UNCHANGED <<row, index, heatmap>> /\ OnlyCall(c)
                /\ At(c, "update_get", j) /\ call'[c].fields = u
  BY DEF Store!CallUpdate
<1>2. \A m : Store!CallCreate(c, j, m) =>
                /\ Returned(c) /\ UNCHANGED <<row, index, heatmap>> /\ OnlyCall(c)
                /\ At(c, "create_set", j) /\ call'[c].data = Store!NewRow(m)
  BY DEF Store!CallCreate
<1>3. Store!CallSetHeatmap(c, j) =>
                /\ Returned(c) /\ UNCHANGED <<row, index, heatmap>> /\ OnlyCall(c)
                /\ At(c, "heatmap_set", j)
  BY DEF Store!CallSetHeatmap
<1>4. Store!CallList(c) =>
                /\ Returned(c) /\ UNCHANGED <<row, index, heatmap>> /\ OnlyCall(c)
                /\ call'[c].at = "list_zrange"
  BY DEF Store!CallList
<1> QED BY <1>1, <1>2, <1>3, <1>4

\* What a client that does a command goes to, and what it writes.
Creates(c) ==
    /\ call[c].at = "create_set" /\ UNCHANGED <<index, heatmap>>
    /\ \/ row[call[c].job] # None /\ UNCHANGED row /\ call'[c].at = "duplicate"
       \/ /\ row[call[c].job] = None
          /\ row' = [row EXCEPT ![call[c].job] = call[c].data]
          /\ At(c, "create_zadd", call[c].job)

Indexes(c) ==
    /\ call[c].at = "create_zadd" /\ UNCHANGED <<row, heatmap>>
    /\ call'[c].at = "ok"

Gets(c) ==
    /\ call[c].at = "update_get" /\ UNCHANGED <<row, index, heatmap>>
    /\ \/ row[call[c].job] = None /\ call'[c].at = "missing"
       \/ /\ row[call[c].job] # None
          /\ At(c, "update_set", call[c].job)
          /\ call'[c].data = Store!Merge(row[call[c].job], call[c].fields)

Sets(c) ==
    /\ call[c].at = "update_set" /\ UNCHANGED <<index, heatmap>>
    /\ row' = [row EXCEPT ![call[c].job] = call[c].data]
    /\ At(c, "update_confirm", call[c].job)

Confirms(c) ==
    /\ call[c].at = "update_confirm" /\ UNCHANGED <<row, index, heatmap>>
    /\ \/ row[call[c].job] = None /\ call'[c].at = "missing"
       \/ row[call[c].job] # None /\ call'[c].at = "ok"

Draws(c) ==
    /\ call[c].at = "heatmap_set" /\ UNCHANGED <<row, index>>
    /\ heatmap' = heatmap \cup {call[c].job}
    /\ At(c, "update_get", call[c].job) /\ call'[c].fields = Store!Heatmap

Lists(c) ==
    /\ call[c].at \in Store!InList /\ UNCHANGED <<row, heatmap>>
    /\ call'[c].at \in Store!InList \cup {"ok"}

\* What a command does to the store and to the call it belongs to.
LEMMA CommandMoves ==
    ASSUME Store!TypeOK, NEW c \in Client, Store!Command(c)
    PROVE  /\ OnlyCall(c)
           /\ \/ Creates(c) \/ Indexes(c) \/ Gets(c) \/ Sets(c) \/ Confirms(c)
              \/ Draws(c) \/ Lists(c)
<1> USE DEF Store!TypeOK, Store!Enter, Store!Return, Store!Blank, OnlyCall, At
<1>1. CASE Store!CreateSet(c)
  <2>1. CASE row[call[c].job] # None
    <3>1. OnlyCall(c) /\ Creates(c)
      BY <1>1, <2>1 DEF Store!CreateSet, Creates
    <3> QED BY <3>1
  <2>2. CASE row[call[c].job] = None
    <3> DEFINE f == [call[c] EXCEPT !.at = "create_zadd", !.data = None]
    <3>1. f.at = "create_zadd" /\ f.job = call[c].job
      BY DEF Store!Call
    <3>2. call' = [call EXCEPT ![c] = f]
      BY <1>1, <2>2 DEF Store!CreateSet
    <3>3. call'[c] = f /\ OnlyCall(c)
      BY <3>2
    <3> HIDE DEF f
    <3>4. Creates(c)
      BY <1>1, <2>2, <3>1, <3>3 DEF Store!CreateSet, Creates
    <3> QED BY <3>3, <3>4
  <2> QED BY <2>1, <2>2
<1>2. CASE Store!CreateZadd(c)
  <2>1. OnlyCall(c) /\ Indexes(c)
    BY <1>2 DEF Store!CreateZadd, Indexes
  <2> QED BY <2>1
<1>3. CASE Store!UpdateGet(c)
  <2>1. CASE row[call[c].job] = None
    <3>1. OnlyCall(c) /\ Gets(c)
      BY <1>3, <2>1 DEF Store!UpdateGet, Gets
    <3> QED BY <3>1
  <2>2. CASE row[call[c].job] # None
    <3> DEFINE data == Store!Merge(row[call[c].job], call[c].fields)
               f == [call[c] EXCEPT !.at = "update_set", !.fields = None, !.data = data]
    <3>1. f.at = "update_set" /\ f.job = call[c].job /\ f.data = data
      BY DEF Store!Call
    <3>2. call' = [call EXCEPT ![c] = f]
      BY <1>3, <2>2 DEF Store!UpdateGet
    <3>3. call'[c] = f /\ OnlyCall(c)
      BY <3>2
    <3> HIDE DEF f
    <3>4. Gets(c)
      BY <1>3, <2>2, <3>1, <3>3 DEF Store!UpdateGet, Gets
    <3> QED BY <3>3, <3>4
  <2> QED BY <2>1, <2>2
<1>4. CASE Store!UpdateSet(c)
  <2>1. OnlyCall(c) /\ Sets(c)
    BY <1>4 DEF Store!UpdateSet, Sets, Store!Call
  <2> QED BY <2>1
<1>5. CASE Store!UpdateConfirm(c)
  <2>1. OnlyCall(c) /\ Confirms(c)
    BY <1>5 DEF Store!UpdateConfirm, Confirms
  <2> QED BY <2>1
<1>6. CASE Store!HeatmapSet(c)
  <2>1. OnlyCall(c) /\ Draws(c)
    BY <1>6 DEF Store!HeatmapSet, Draws, Store!Call
  <2> QED BY <2>1
<1>7. CASE Store!ListZrange(c) \/ Store!ListMget(c) \/ Store!ListZrem(c)
  <2>1. OnlyCall(c) /\ Lists(c)
    BY <1>7 DEF Store!ListZrange, Store!ListMget, Store!ListZrem, Lists, Store!InList, Store!Call
  <2> QED BY <2>1
<1> QED BY <1>1, <1>2, <1>3, <1>4, <1>5, <1>6, <1>7 DEF Store!Command

\* A call that is cut short has failed.
LEMMA AbandonMoves ==
    ASSUME Store!TypeOK, NEW c \in Client, Store!Abandon(c)
    PROVE  /\ ~Returned(c) /\ OnlyCall(c) /\ call'[c].at = "failed"
           /\ UNCHANGED <<row, heatmap>>
BY DEF Store!TypeOK, Store!Abandon, Store!Return, Store!Blank, OnlyCall, Returned

\* Expiry moves no call.
LEMMA ExpireMoves ==
    ASSUME NEW j \in Job, Store!Expire(j)
    PROVE  /\ UNCHANGED call
           /\ \/ JobsExpire /\ row' = [row EXCEPT ![j] = None] /\ UNCHANGED heatmap
              \/ HeatmapsExpire /\ heatmap' = heatmap \ {j} /\ UNCHANGED row
BY DEF Store!Expire, Store!ExpireRow, Store!ExpireHeatmap

-----------------------------------------------------------------------------
(***************************************************************************)
(* Type correctness: where a program is, and which store call it is in     *)
(***************************************************************************)

\* The places that wait for an update_job, and its fields.
Updating == {"start", "save_lpips", "save_heatmap", "save_dists", "save_done",
             "requeue", "error"}

UpdateOf(p) ==
    CASE p = "start"        -> Store!Running
      [] p = "save_lpips"   -> Store!Lpips
      [] p = "save_heatmap" -> Store!Heatmap
      [] p = "save_dists"   -> Store!Dists
      [] p = "save_done"    -> Store!Done
      [] p = "requeue"      -> Store!Requeue
      [] p = "error"        -> Store!Error

\* The frame f of a call is inside update_job(j, u).
Updates(f, j, u) ==
    /\ f.at \in Store!InUpdate /\ f.job = j
    /\ f.at = "update_get" => f.fields = u
    /\ f.at = "update_set" => \E r \in Store!Row : f.data = Store!Merge(r, u)

Done(f) == f.at \in Store!Outcome

\* A task t whose store call is f has it where the place says.
TaskPlaced(t, f) ==
    /\ IF t.at = "idle" THEN ~t.owns ELSE t.msg \in Message
    /\ \/ Done(f)
       \/ t.at \in Updating /\ Updates(f, JobOf[t.msg.request], UpdateOf(t.at))
       \/ t.at = "save_heatmap" /\ f.at = "heatmap_set" /\ f.job = JobOf[t.msg.request]

\* So does the handler of r that is at p.
HandlerPlaced(r, p, f) ==
    \/ Done(f)
    \/ /\ p = "creating" /\ f.at \in Store!InCreate /\ f.job = JobOf[r]
       /\ f.at = "create_set" => f.data = Store!NewRow(MetricOf[r])
    \/ p = "failing" /\ Updates(f, JobOf[r], Store!Error)

Placed ==
    /\ \A w \in Worker : TaskPlaced(task[w], call[w])
    /\ \A w \in Worker : task[w].at \notin {"idle", "ack"} => inflight[w] > 0
    /\ \A r \in Request : HandlerPlaced(r, post[r], call[r])
    /\ \A d \in Reader : Done(call[d]) \/ call[d].at \in Store!InList

\* The types of what is not the store's.
Types ==
    /\ post \in [Request -> {"new"} \cup Handling \cup Answer]
    /\ queue \in [Message -> Nat]
    /\ task \in [Worker -> Task]
    /\ inflight \in [Worker -> Nat]
    /\ litter \in Nat
    /\ read \in [Reader -> HeatmapRead \cup {None}]
    /\ faults \in 0..MaxFaults

TypeInv == Redis!TypeInv /\ Types /\ Placed

\* The type invariant has the store's.
LEMMA StoreTyped == ASSUME TypeInv PROVE Store!TypeOK /\ Redis!FramesOK
BY SameTypes DEF TypeInv, Redis!TypeInv

\* The clients of the store are of three kinds.
LEMMA Clients ==
    /\ \A w \in Worker : w \in Client /\ w \notin Request /\ w \notin Reader
    /\ \A r \in Request : r \in Client /\ r \notin Worker /\ r \notin Reader
    /\ \A d \in Reader : d \in Client /\ d \notin Worker /\ d \notin Request
BY CompareAssumption DEF Client

\* What the places save is what the program passes to update_job.
LEMMA ProgramFields ==
    \A p \in Updating \ {"save_heatmap"} : UpdateOf(p) \in Store!Fields \ {Store!Heatmap}
BY DEF Updating, UpdateOf, Store!Fields, Store!Heatmap, Store!Running, Store!Lpips, Store!Dists,
   Store!Done, Store!Requeue, Store!Error

\* An execution has a message, and so a request and a job.
LEMMA JobsTyped ==
    ASSUME TypeInv, NEW w \in Worker, task[w].at # "idle"
    PROVE  /\ task[w].msg \in Message /\ task[w].msg.request \in Request
           /\ task[w].msg.fallback \in BOOLEAN /\ JobAt(w) \in Job
BY CompareAssumption DEF TypeInv, Placed, TaskPlaced, Message, JobAt

\* Every step of the system is a step of the store or leaves it alone.
LEMMA StoreStep ==
    ASSUME TypeInv, [Next]_vars
    PROVE  [Redis!Next]_Redis!storeVars
<1> USE DEF Redis!Next, Redis!storeVars
<1>1. ASSUME NEW r \in Request, Submit(r) \/ Handle(r) \/ ApiDies(r)
      PROVE  [Redis!Next]_Redis!storeVars
  <2>1. r \in Client /\ JobOf[r] \in Job /\ MetricOf[r] \in Metric
    BY CompareAssumption DEF Client
  <2>2. CASE Submit(r)
    BY <2>1, <2>2, SameCalls DEF Submit
  <2>3. CASE EnqueueFails(r)
    <3>1. Store!Error \in Store!Fields \ {Store!Heatmap}
      BY ProgramFields DEF Updating, UpdateOf
    <3> QED BY <2>1, <2>3, <3>1, SameCalls DEF EnqueueFails
  <2>4. CASE Refuse(r) \/ Enqueue(r) \/ Apologise(r)
    BY <2>4 DEF Refuse, Enqueue, Apologise, storeVars
  <2>5. CASE ApiDies(r)
    BY <2>1, <2>5, SameCommands DEF ApiDies, DropCall, storeVars
  <2> QED BY <1>1, <2>2, <2>3, <2>4, <2>5 DEF Handle
<1>2. ASSUME NEW w \in Worker, Take(w)
      PROVE  [Redis!Next]_Redis!storeVars
  <2>1. PICK m \in Message : Store!CallUpdate(w, JobOf[m.request], Store!Running)
    BY <1>2 DEF Take
  <2>2. w \in Client /\ JobOf[m.request] \in Job
    BY CompareAssumption DEF Client, Message
  <2>3. Store!Running \in Store!Fields \ {Store!Heatmap}
    BY ProgramFields DEF Updating, UpdateOf
  <2> QED BY <2>1, <2>2, <2>3, SameCalls
<1>3. ASSUME NEW w \in Worker, Execute(w)
      PROVE  [Redis!Next]_Redis!storeVars
  <2>1. w \in Client /\ (task[w].at # "idle" => JobAt(w) \in Job)
    BY JobsTyped DEF Client
  <2>2. \A u \in {Store!Lpips, Store!Dists, Store!Done, Store!Requeue, Store!Error} :
           u \in Store!Fields \ {Store!Heatmap}
    BY ProgramFields DEF Updating, UpdateOf
  <2>3. ASSUME task[w].at # "idle",
               NEW u \in {Store!Lpips, Store!Dists, Store!Done, Store!Requeue, Store!Error},
               NEW p, Save(w, u, p)
        PROVE  [Redis!Next]_Redis!storeVars
    BY <2>1, <2>2, <2>3, SameCalls DEF Save
  <2>4. CASE \/ Escape(w) \/ TempFails(w) \/ StoreTemps(w) \/ LpipsSaved(w) \/ Finished(w)
             \/ Republish(w) \/ RepublishFails(w) \/ Excepted(w) \/ Finally(w)
             \/ FinallyFails(w) \/ Ack(w)
    BY <2>4 DEF Escape, TempFails, StoreTemps, LpipsSaved, Finished, Republish,
       RepublishFails, Excepted, Finally, FinallyFails, Ack, storeVars
  <2>5. CASE Lpips(w) \/ Dists(w) \/ SaveDone(w)
    BY <2>3, <2>5 DEF Lpips, Dists, SaveDone
  <2>6. CASE ComputeFails(w) \/ GpuFails(w) \/ SaveFails(w)
    BY <2>3, <2>6 DEF ComputeFails, GpuFails, SaveFails, Raised
  <2>7. CASE SaveHeatmap(w)
    BY <2>1, <2>7, SameCalls DEF SaveHeatmap
  <2> QED BY <1>3, <2>4, <2>5, <2>6, <2>7 DEF Execute
<1>4. ASSUME NEW w \in Worker, Kill(w) \/ Crash(w) \/ Reconnect(w)
      PROVE  [Redis!Next]_Redis!storeVars
  BY <1>4, SameCommands DEF Client, Kill, Crash, Reconnect, Stop, DropCall, storeVars
<1>5. ASSUME NEW d \in Reader, ListJobs(d) \/ GetHeatmapRow(d) \/ GetHeatmapPng(d)
      PROVE  [Redis!Next]_Redis!storeVars
  BY <1>5, SameList DEF Client, ListJobs, GetHeatmapRow, GetHeatmapPng, storeVars
<1>6. ASSUME NEW c \in Client, StoreCommand(c) \/ StoreRaises(c)
      PROVE  [Redis!Next]_Redis!storeVars
  <2>1. CASE Store!Command(c)
    <3>1. Redis!Command(c)
      BY <2>1, SameCommands
    <3> QED BY <3>1
  <2>2. CASE Store!Abandon(c)
    <3>1. Redis!Abandon(c)
      BY <2>2, SameCommands
    <3> QED BY <3>1
  <2> QED BY <1>6, <2>1, <2>2 DEF StoreCommand, StoreRaises
<1>7. ASSUME NEW j \in Job, Expire(j)
      PROVE  [Redis!Next]_Redis!storeVars
  BY <1>7, SameExpiry DEF Expire
<1>8. CASE UNCHANGED vars
  BY <1>8 DEF vars
<1> HIDE DEF Redis!Next, Redis!storeVars
<1> QED BY <1>1, <1>2, <1>3, <1>4, <1>5, <1>6, <1>7, <1>8 DEF Next

-----------------------------------------------------------------------------
(***************************************************************************)
(* What a step does to an execution                                        *)
(***************************************************************************)

OnlyTask(w) == \A v \in Worker \ {w} : task'[v] = task[v]

\* The execution in w goes to p; nobody else's moves.
Goes(w, p) ==
    /\ task' \in [Worker -> Task] /\ OnlyTask(w)
    /\ task'[w].at = p /\ task'[w].msg = task[w].msg /\ task'[w].owns = task[w].owns

\* Where task t goes without a store call, when its last one ended as f.
Walk(t, f, p) ==
    \/ t.at = "start" /\ f.at # "ok" /\ p = "ack"
    \/ t.at = "start" /\ f.at = "ok" /\ "temp" \in Faults /\ p = "ack"
    \/ t.at = "start" /\ f.at = "ok" /\ p = IF NeedsLpips(t.msg) THEN "lpips" ELSE "dists"
    \/ t.at = "save_heatmap" /\ f.at = "ok" /\ NeedsDists(t.msg) /\ p = "dists"
    \/ t.at = "save_done" /\ f.at = "ok" /\ p = "finally"
    \/ t.at = "requeue" /\ (f.at # "ok" \/ "republish_lost" \in Faults) /\ p = "finally"
    \/ t.at = "error" /\ p = "finally"
    \/ t.at = "finally" /\ p = "ack"

\* Where it goes with one.
Stores(t, f, p) ==
    \/ t.at = "lpips" /\ p = "save_lpips"
    \/ t.at = "save_lpips" /\ f.at = "ok" /\ p = "save_heatmap"
    \/ t.at = "dists" /\ p = "save_dists"
    \/ t.at = "save_heatmap" /\ f.at = "ok" /\ ~NeedsDists(t.msg) /\ p = "save_done"
    \/ t.at = "save_dists" /\ f.at = "ok" /\ p = "save_done"
    \/ t.at \in {"lpips", "dists"} /\ p = "error"
    \/ t.at \in {"lpips", "dists"} /\ MayFallBack(t.msg) /\ p = "requeue"
    \/ /\ t.at \in {"save_lpips", "save_heatmap", "save_dists", "save_done"} /\ f.at # "ok"
       /\ p = "error"

Walks(w, p) ==
    /\ Done(call[w]) /\ UNCHANGED <<storeVars, queue>>
    /\ Walk(task[w], call[w], p) /\ Goes(w, p)

Calls(w, p) ==
    /\ Done(call[w]) /\ UNCHANGED <<row, index, heatmap, queue>> /\ OnlyCall(w)
    /\ Stores(task[w], call[w], p) /\ Goes(w, p)
    /\ IF p = "save_heatmap"
       THEN At(w, "heatmap_set", JobAt(w))
       ELSE At(w, "update_get", JobAt(w)) /\ call'[w].fields = UpdateOf(p)

Republishes(w) ==
    /\ task[w].at = "requeue" /\ CallOk(w) /\ UNCHANGED storeVars
    /\ Put([task[w].msg EXCEPT !.fallback = TRUE]) /\ Goes(w, "finally")

Ends(w) ==
    /\ task[w].at = "ack" /\ UNCHANGED <<storeVars, queue>>
    /\ task' = [task EXCEPT ![w] = NoTask]

\* An execution that only goes to another place keeps its message.
LEMMA TaskMoves ==
    ASSUME task \in [Worker -> Task], NEW w \in Worker, NEW p \in Place, Goto(w, p)
    PROVE  Goes(w, p)
BY DEF Goto, Goes, OnlyTask, Task

MovesTemps(w, n, p) == task' = [task EXCEPT ![w].temps = n, ![w].at = p]

\* So does one that stores or removes its temporary images on the way.
LEMMA TempsMove ==
    ASSUME task \in [Worker -> Task], NEW w \in Worker, NEW p \in Place, NEW n \in 0..2,
           MovesTemps(w, n, p)
    PROVE  Goes(w, p)
<1> USE DEF MovesTemps
<1>1. task'[w].at = p /\ task'[w].msg = task[w].msg /\ task'[w].owns = task[w].owns
  BY DEF Task
<1>2. OnlyTask(w)
  BY DEF Task, OnlyTask
<1>3. task' \in [Worker -> Task]
  BY DEF Task
<1> QED BY <1>1, <1>2, <1>3 DEF Goes

\* Every step of an execution is one of these.
LEMMA ExecuteMoves ==
    ASSUME TypeInv, NEW w \in Worker, Execute(w)
    PROVE  /\ UNCHANGED <<post, read>>
           /\ \/ \E p \in Place : Walks(w, p) \/ Calls(w, p)
              \/ Republishes(w)
              \/ Ends(w)
<1>1. /\ task \in [Worker -> Task] /\ Store!TypeOK /\ w \in Client
      /\ TaskPlaced(task[w], call[w])
  BY StoreTyped, Clients DEF TypeInv, Types, Placed
<1> USE DEF Returned, CallRaised, CallOk, Done, Store!Returned
<1>2. CASE Escape(w)
  <2>1. Walks(w, "ack")
    BY <1>1, <1>2, TaskMoves DEF Escape, Walks, Walk, Place
  <2> QED BY <1>2, <2>1 DEF Escape, Place
<1>3. CASE TempFails(w)
  <2>1. Walks(w, "ack")
    BY <1>1, <1>3, TaskMoves DEF TempFails, Walks, Walk, Place, Fault, Store!Outcome
  <2> QED BY <1>3, <2>1 DEF TempFails, Place
<1>4. CASE StoreTemps(w)
  <2> DEFINE p == IF NeedsLpips(task[w].msg) THEN "lpips" ELSE "dists"
  <2>1. p \in Place
    BY DEF Place, Guarded
  <2>2. Walk(task[w], call[w], p)
    BY <1>4 DEF StoreTemps, Walk
  <2>3. MovesTemps(w, 2, p)
    BY <1>4 DEF StoreTemps, MovesTemps
  <2> HIDE DEF p
  <2>4. Goes(w, p)
    BY <1>1, <2>1, <2>3, TempsMove
  <2>5. Walks(w, p)
    BY <1>4, <2>2, <2>4 DEF StoreTemps, Walks, Store!Outcome
  <2> QED BY <1>4, <2>1, <2>5 DEF StoreTemps
<1>5. CASE LpipsSaved(w)
  <2>1. Walks(w, "dists")
    BY <1>1, <1>5, TaskMoves DEF LpipsSaved, Walks, Walk, Place, Guarded, Store!Outcome
  <2> QED BY <1>5, <2>1 DEF LpipsSaved, Place, Guarded
<1>6. CASE Finished(w)
  <2>1. Walks(w, "finally")
    BY <1>1, <1>6, TaskMoves DEF Finished, Walks, Walk, Place, Guarded, Store!Outcome
  <2> QED BY <1>6, <2>1 DEF Finished, Place, Guarded
<1>7. CASE RepublishFails(w) \/ Excepted(w)
  <2>1. Walks(w, "finally")
    BY <1>1, <1>7, TaskMoves DEF RepublishFails, Excepted, Fault, Walks, Walk, Place, Guarded,
       Store!Outcome
  <2> QED BY <1>7, <2>1 DEF RepublishFails, Excepted, Place, Guarded
<1>8. CASE Finally(w) \/ FinallyFails(w)
  <2>1. MovesTemps(w, 0, "ack")
    BY <1>8 DEF Finally, FinallyFails, MovesTemps
  <2>2. Goes(w, "ack")
    BY <1>1, <2>1, TempsMove DEF Place
  <2>3. Done(call[w])
    BY <1>1, <1>8 DEF Finally, FinallyFails, TaskPlaced, Updating
  <2>4. Walks(w, "ack")
    BY <1>8, <2>2, <2>3 DEF Finally, FinallyFails, Walks, Walk
  <2> QED BY <1>8, <2>4 DEF Finally, FinallyFails, Place
<1>9. CASE Ack(w)
  BY <1>9 DEF Ack, Ends
<1>10. CASE Republish(w)
  <2>1. Republishes(w)
    BY <1>1, <1>10, TaskMoves DEF Republish, Republishes, Place, Guarded
  <2> QED BY <1>10, <2>1 DEF Republish
<1>11. ASSUME NEW p \in Updating \ {"save_heatmap"}, Save(w, UpdateOf(p), p),
              Stores(task[w], call[w], p), UNCHANGED queue
       PROVE  Calls(w, p)
  <2>1. Goes(w, p)
    BY <1>1, <1>11, TaskMoves DEF Save, Updating, Place, Guarded
  <2>2. /\ Done(call[w]) /\ UNCHANGED <<row, index, heatmap>> /\ OnlyCall(w)
        /\ At(w, "update_get", JobAt(w)) /\ call'[w].fields = UpdateOf(p)
    BY <1>1, <1>11, CallsMove DEF Save
  <2> QED BY <1>11, <2>1, <2>2 DEF Calls
<1>12. \A p \in {"save_lpips", "save_dists", "save_done", "requeue", "error"} :
          p \in Updating \ {"save_heatmap"} /\ p \in Place
  BY DEF Updating, Place, Guarded
<1>13. CASE Lpips(w)
  <2>1. Calls(w, "save_lpips")
    BY <1>11, <1>12, <1>13 DEF Lpips, UpdateOf, Stores
  <2> QED BY <1>12, <1>13, <2>1 DEF Lpips
<1>14. CASE Dists(w)
  <2>1. Calls(w, "save_dists")
    BY <1>11, <1>12, <1>14 DEF Dists, UpdateOf, Stores
  <2> QED BY <1>12, <1>14, <2>1 DEF Dists
<1>15. CASE SaveDone(w)
  <2>1. Calls(w, "save_done")
    BY <1>11, <1>12, <1>15 DEF SaveDone, UpdateOf, Stores
  <2> QED BY <1>12, <1>15, <2>1 DEF SaveDone
<1>16. CASE ComputeFails(w) \/ SaveFails(w)
  <2>1. Save(w, Store!Error, "error")
    BY <1>16 DEF ComputeFails, SaveFails, Raised
  <2>2. Stores(task[w], call[w], "error")
    BY <1>16 DEF ComputeFails, SaveFails, Stores
  <2>3. Calls(w, "error")
    BY <1>11, <1>12, <1>16, <2>1, <2>2 DEF ComputeFails, SaveFails, UpdateOf
  <2> QED BY <1>12, <1>16, <2>3 DEF ComputeFails, SaveFails
<1>17. CASE GpuFails(w)
  <2>1. CASE MayFallBack(task[w].msg)
    <3>1. Calls(w, "requeue")
      BY <1>11, <1>12, <1>17, <2>1 DEF GpuFails, Raised, UpdateOf, Stores
    <3> QED BY <1>12, <1>17, <3>1 DEF GpuFails
  <2>2. CASE ~MayFallBack(task[w].msg)
    <3>1. Calls(w, "error")
      BY <1>11, <1>12, <1>17, <2>2 DEF GpuFails, Raised, UpdateOf, Stores
    <3> QED BY <1>12, <1>17, <3>1 DEF GpuFails
  <2> QED BY <2>1, <2>2
<1>18. CASE SaveHeatmap(w)
  <2>1. Goes(w, "save_heatmap")
    BY <1>1, <1>18, TaskMoves DEF SaveHeatmap, Place, Guarded
  <2>2. /\ Done(call[w]) /\ UNCHANGED <<row, index, heatmap>> /\ OnlyCall(w)
        /\ At(w, "heatmap_set", JobAt(w))
    BY <1>1, <1>18, CallsMove DEF SaveHeatmap
  <2>3. Calls(w, "save_heatmap")
    BY <1>18, <2>1, <2>2 DEF SaveHeatmap, Calls, Stores
  <2> QED BY <1>18, <2>3 DEF SaveHeatmap, Place, Guarded
<1> QED BY <1>2, <1>3, <1>4, <1>5, <1>6, <1>7, <1>8, <1>9, <1>10, <1>13, <1>14, <1>15,
           <1>16, <1>17, <1>18 DEF Execute

-----------------------------------------------------------------------------
(* Where the programs are after a step. *)

\* A step of one worker leaves the others where they are.
LEMMA WorkerMoves ==
    ASSUME TypeInv, NEW w \in Worker, OnlyCall(w), OnlyTask(w), UNCHANGED post,
           TaskPlaced(task'[w], call'[w]),
           \A v \in Worker : task'[v].at \notin {"idle", "ack"} => inflight'[v] > 0
    PROVE  Placed'
<1>1. \A v \in Worker : TaskPlaced(task'[v], call'[v])
  BY Clients DEF TypeInv, Placed, OnlyCall, OnlyTask
<1>2. \A r \in Request : HandlerPlaced(r, post'[r], call'[r])
  BY Clients DEF TypeInv, Placed, OnlyCall
<1>3. \A d \in Reader : Done(call'[d]) \/ call'[d].at \in Store!InList
  BY Clients DEF TypeInv, Placed, OnlyCall
<1> QED BY <1>1, <1>2, <1>3 DEF Placed

\* So does a step of one handler.
LEMMA HandlerMoves ==
    ASSUME TypeInv, NEW r \in Request, OnlyCall(r), UNCHANGED <<task, inflight>>,
           \A q \in Request \ {r} : post'[q] = post[q],
           HandlerPlaced(r, post'[r], call'[r])
    PROVE  Placed'
<1>1. \A v \in Worker : TaskPlaced(task'[v], call'[v])
  BY Clients DEF TypeInv, Placed, OnlyCall
<1>2. \A v \in Worker : task'[v].at \notin {"idle", "ack"} => inflight'[v] > 0
  BY DEF TypeInv, Placed
<1>3. \A q \in Request : HandlerPlaced(q, post'[q], call'[q])
  BY Clients DEF TypeInv, Placed, OnlyCall
<1>4. \A d \in Reader : Done(call'[d]) \/ call'[d].at \in Store!InList
  BY Clients DEF TypeInv, Placed, OnlyCall
<1> QED BY <1>1, <1>2, <1>3, <1>4 DEF Placed

\* And a step of one reader.
LEMMA ReaderMoves ==
    ASSUME TypeInv, NEW d \in Reader, OnlyCall(d), UNCHANGED <<task, inflight, post>>,
           Done(call'[d]) \/ call'[d].at \in Store!InList
    PROVE  Placed'
<1>1. \A v \in Worker : TaskPlaced(task'[v], call'[v])
  BY Clients DEF TypeInv, Placed, OnlyCall
<1>2. \A v \in Worker : task'[v].at \notin {"idle", "ack"} => inflight'[v] > 0
  BY DEF TypeInv, Placed
<1>3. \A r \in Request : HandlerPlaced(r, post'[r], call'[r])
  BY Clients DEF TypeInv, Placed, OnlyCall
<1>4. \A e \in Reader : Done(call'[e]) \/ call'[e].at \in Store!InList
  BY Clients DEF TypeInv, Placed, OnlyCall
<1> QED BY <1>1, <1>2, <1>3, <1>4 DEF Placed

\* A command of update_job leads to its next one or ends it.
LEMMA UpdatesOn ==
    ASSUME TypeInv, NEW c \in Client, NEW j \in Job, NEW u, Updates(call[c], j, u),
           Store!Command(c)
    PROVE  Updates(call'[c], j, u) \/ Done(call'[c])
<1>1. Store!TypeOK
  BY StoreTyped
<1>2. Gets(c) \/ Sets(c) \/ Confirms(c)
  BY <1>1, CommandMoves DEF Updates, Store!InUpdate, Creates, Indexes, Draws, Lists, Store!InList
<1>3. CASE Gets(c)
  <2>1. CASE row[j] = None
    BY <1>3, <2>1 DEF Gets, Updates, Done, Store!Outcome
  <2>2. CASE row[j] # None
    <3>1. row[j] \in Store!Row
      BY <1>1, <2>2 DEF Store!TypeOK
    <3> QED BY <1>3, <2>2, <3>1 DEF Gets, Updates, At, Store!InUpdate
  <2> QED BY <2>1, <2>2
<1>4. CASE Sets(c)
  BY <1>4 DEF Sets, Updates, At, Store!InUpdate
<1>5. CASE Confirms(c)
  BY <1>5 DEF Confirms, Done, Store!Outcome
<1> QED BY <1>2, <1>3, <1>4, <1>5

\* Inside a call, a worker, a handler and a reader stay where their place says.
LEMMA CommandPlaced ==
    ASSUME TypeInv, NEW c \in Client, StoreCommand(c) \/ StoreRaises(c)
    PROVE  Placed'
<1>1. Store!TypeOK /\ UNCHANGED <<post, task, inflight>>
  BY StoreTyped DEF StoreCommand, StoreRaises
<1>2. OnlyCall(c)
  BY <1>1, CommandMoves, AbandonMoves DEF StoreCommand, StoreRaises
<1>3. StoreRaises(c) => Done(call'[c])
  BY <1>1, AbandonMoves DEF StoreRaises, Done, Store!Outcome
<1>4. StoreCommand(c) => Store!Command(c) /\ ~Done(call[c])
  BY <1>1, CommandMoves DEF StoreCommand, Done, Store!Outcome, Creates, Indexes, Gets, Sets,
     Confirms, Draws, Lists, Store!InList
<1>5. CASE c \in Worker
  <2>1. TaskPlaced(task[c], call[c])
    BY <1>5 DEF TypeInv, Placed
  <2>2. CASE StoreRaises(c)
    BY <1>1, <1>2, <1>3, <1>5, <2>1, <2>2, WorkerMoves DEF TaskPlaced, TypeInv, Placed, OnlyTask
  <2>3. CASE StoreCommand(c)
    <3>1. task[c].at # "idle" /\ JobAt(c) \in Job
      BY <1>4, <1>5, <2>1, <2>3, JobsTyped DEF TaskPlaced, Updating
    <3>2. CASE Updates(call[c], JobAt(c), UpdateOf(task[c].at))
      <4>1. Updates(call'[c], JobAt(c), UpdateOf(task[c].at)) \/ Done(call'[c])
        BY <1>4, <2>3, <3>1, <3>2, UpdatesOn
      <4>2. task[c].at \in Updating
        BY <1>4, <2>1, <2>3 DEF TaskPlaced, Updating
      <4>3. TaskPlaced(task'[c], call'[c])
        BY <1>1, <2>1, <4>1, <4>2 DEF TaskPlaced, JobAt
      <4> QED BY <1>1, <1>2, <1>5, <4>3, WorkerMoves DEF TypeInv, Placed, OnlyTask
    <3>3. CASE task[c].at = "save_heatmap" /\ call[c].at = "heatmap_set" /\ call[c].job = JobAt(c)
      <4>1. Draws(c)
        BY <1>1, <1>4, <2>3, <3>3, CommandMoves DEF Creates, Indexes, Gets, Sets, Confirms, Lists,
           Store!InList
      <4>2. Updates(call'[c], JobAt(c), UpdateOf("save_heatmap"))
        BY <3>3, <4>1 DEF Draws, At, Updates, Store!InUpdate, UpdateOf
      <4>3. TaskPlaced(task'[c], call'[c])
        BY <1>1, <2>1, <3>3, <4>2 DEF TaskPlaced, JobAt, Updating
      <4> QED BY <1>1, <1>2, <1>5, <4>3, WorkerMoves DEF TypeInv, Placed, OnlyTask
    <3> QED BY <1>4, <2>1, <2>3, <3>2, <3>3 DEF TaskPlaced, JobAt
  <2> QED BY <2>2, <2>3
<1>6. CASE c \in Request
  <2>1. HandlerPlaced(c, post[c], call[c]) /\ JobOf[c] \in Job
    BY <1>6, CompareAssumption DEF TypeInv, Placed
  <2>2. HandlerPlaced(c, post'[c], call'[c])
    <3>1. CASE StoreRaises(c)
      BY <1>3, <3>1 DEF HandlerPlaced
    <3>2. CASE StoreCommand(c) /\ post[c] = "failing" /\ Updates(call[c], JobOf[c], Store!Error)
      <4>1. Updates(call'[c], JobOf[c], Store!Error) \/ Done(call'[c])
        BY <1>4, <2>1, <3>2, UpdatesOn
      <4> QED BY <1>1, <3>2, <4>1 DEF HandlerPlaced
    <3>3. CASE StoreCommand(c) /\ post[c] = "creating" /\ call[c].at \in Store!InCreate
                 /\ call[c].job = JobOf[c]
      <4>1. Creates(c) \/ Indexes(c)
        BY <1>1, <1>4, <3>3, CommandMoves DEF Gets, Sets, Confirms, Draws, Lists, Store!InList,
           Store!InCreate
      <4> QED BY <1>1, <3>3, <4>1 DEF HandlerPlaced, Creates, Indexes, At, Done, Store!Outcome,
                 Store!InCreate
    <3> QED BY <1>4, <2>1, <3>1, <3>2, <3>3 DEF HandlerPlaced
  <2> QED BY <1>1, <1>2, <1>6, <2>2, HandlerMoves
<1>7. CASE c \in Reader
  <2>1. Done(call'[c]) \/ call'[c].at \in Store!InList
    <3>1. CASE StoreCommand(c)
      <4>1. call[c].at \in Store!InList
        BY <1>4, <1>7, <3>1 DEF TypeInv, Placed
      <4>2. Lists(c)
        BY <1>1, <1>4, <3>1, <4>1, CommandMoves DEF Creates, Indexes, Gets, Sets, Confirms, Draws,
           Store!InList
      <4> QED BY <4>2 DEF Lists, Done, Store!Outcome
    <3> QED BY <1>3, <3>1
  <2> QED BY <1>1, <1>2, <1>7, <2>1, ReaderMoves
<1> QED BY <1>5, <1>6, <1>7 DEF Client

\* A step of an execution leaves every program where its place says.
LEMMA ExecutePlaced ==
    ASSUME TypeInv, NEW w \in Worker, Execute(w)
    PROVE  Placed'
<1>1. /\ UNCHANGED post /\ TaskPlaced(task[w], call[w]) /\ Store!TypeOK
      /\ task \in [Worker -> Task]
  BY ExecuteMoves, StoreTyped DEF TypeInv, Placed, Types
<1>2. \A v \in Worker : task'[v].at \notin {"idle", "ack"} => inflight'[v] > 0
  <2>1. CASE Finally(w) \/ FinallyFails(w)
    <3>1. MovesTemps(w, 0, "ack")
      BY <2>1 DEF Finally, FinallyFails, MovesTemps
    <3>2. Goes(w, "ack")
      BY <1>1, <3>1, TempsMove DEF Place
    <3>3. \A v \in Worker \ {w} : inflight'[v] = inflight[v]
      BY <2>1 DEF Finally, FinallyFails, TypeInv, Types
    <3> QED BY <3>2, <3>3 DEF Goes, OnlyTask, TypeInv, Placed
  <2>2. CASE ~(Finally(w) \/ FinallyFails(w))
    <3>1. UNCHANGED inflight
      BY <2>2 DEF Execute, Escape, TempFails, StoreTemps, Lpips, SaveHeatmap, LpipsSaved, Dists,
         SaveDone, Finished, ComputeFails, GpuFails, SaveFails, Republish, RepublishFails,
         Excepted, Ack
    <3>2. task[w].at \notin {"idle", "ack"} \/ task'[w].at = "idle"
      <4>1. CASE Ends(w)
        BY <1>1, <4>1 DEF Ends, NoTask
      <4>2. ASSUME NEW p \in Place, Walks(w, p) \/ Calls(w, p)
            PROVE  task[w].at \notin {"idle", "ack"}
        BY <4>2 DEF Walks, Walk, Calls, Stores
      <4>3. Republishes(w) => task[w].at \notin {"idle", "ack"}
        BY DEF Republishes
      <4> QED BY <4>1, <4>2, <4>3, ExecuteMoves
    <3>3. OnlyTask(w)
      BY <1>1, ExecuteMoves DEF Walks, Calls, Republishes, Ends, Goes, OnlyTask
    <3> QED BY <3>1, <3>2, <3>3 DEF OnlyTask, TypeInv, Placed
  <2> QED BY <2>1, <2>2
<1>3. ASSUME NEW p \in Place, Walks(w, p) PROVE Placed'
  <2>1. task[w].at # "idle" /\ p # "idle" /\ UNCHANGED call
    BY <1>3 DEF Walks, Walk, storeVars
  <2>2. TaskPlaced(task'[w], call'[w]) /\ OnlyCall(w) /\ OnlyTask(w)
    BY <1>1, <1>3, <2>1 DEF Walks, TaskPlaced, Goes, OnlyCall
  <2> QED BY <1>1, <1>2, <2>2, WorkerMoves
<1>4. ASSUME NEW p \in Place, Calls(w, p) PROVE Placed'
  <2>1. task[w].at # "idle"
    BY <1>4 DEF Calls, Stores
  <2>2. p \in Updating
    BY <1>4 DEF Calls, Stores, Updating
  <2>3. task'[w].at = p /\ task'[w].msg = task[w].msg /\ task[w].msg \in Message
    BY <1>1, <1>4, <2>1 DEF Calls, Goes, TaskPlaced
  <2>4. CASE p = "save_heatmap"
    BY <1>1, <1>2, <1>4, <2>3, <2>4, WorkerMoves DEF Calls, Goes, TaskPlaced, At, JobAt
  <2>5. CASE p # "save_heatmap"
    <3>1. Updates(call'[w], JobAt(w), UpdateOf(p))
      BY <1>4, <2>5 DEF Calls, At, Updates, Store!InUpdate
    <3>2. TaskPlaced(task'[w], call'[w])
      BY <2>2, <2>3, <3>1 DEF TaskPlaced, JobAt, Updating
    <3> QED BY <1>1, <1>2, <1>4, <3>2, WorkerMoves DEF Calls, Goes
  <2> QED BY <2>4, <2>5
<1>5. CASE Republishes(w)
  <2>1. UNCHANGED call /\ Done(call[w])
    BY <1>5 DEF Republishes, storeVars, CallOk, Done, Store!Outcome
  <2>2. TaskPlaced(task'[w], call'[w]) /\ OnlyCall(w) /\ OnlyTask(w)
    BY <1>1, <1>5, <2>1 DEF Republishes, TaskPlaced, Goes, OnlyCall
  <2> QED BY <1>1, <1>2, <2>2, WorkerMoves
<1>6. CASE Ends(w)
  <2>1. UNCHANGED call /\ Done(call[w])
    BY <1>1, <1>6 DEF Ends, storeVars, TaskPlaced, Updating
  <2>2. TaskPlaced(task'[w], call'[w]) /\ OnlyCall(w) /\ OnlyTask(w)
    BY <1>1, <1>6, <2>1 DEF Ends, TaskPlaced, NoTask, OnlyCall, OnlyTask
  <2> QED BY <1>1, <1>2, <2>2, WorkerMoves
<1> QED BY <1>3, <1>4, <1>5, <1>6, ExecuteMoves

\* What else a worker does: it takes a message, it dies, it is delivered to again.
Takes(w, m) ==
    /\ task[w].at = "idle" /\ queue[m] > 0
    /\ queue' = [queue EXCEPT ![m] = @ - 1]
    /\ UNCHANGED <<row, index, heatmap>> /\ Done(call[w]) /\ OnlyCall(w)
    /\ At(w, "update_get", JobOf[m.request]) /\ call'[w].fields = Store!Running
    /\ task' \in [Worker -> Task] /\ OnlyTask(w)
    /\ task'[w].at = "start" /\ task'[w].msg = m /\ task'[w].owns
    /\ inflight' = [inflight EXCEPT ![w] = @ + 1]

Stops(w) ==
    /\ task[w].at # "idle" /\ task' = [task EXCEPT ![w] = NoTask]
    /\ UNCHANGED <<row, heatmap>> /\ OnlyCall(w)
    /\ \/ Done(call[w]) /\ UNCHANGED call
       \/ call'[w].at = "failed"

\* Every step of a worker that is not of the program is one of these.
LEMMA WorkerStepMoves ==
    ASSUME TypeInv, NEW w \in Worker
    PROVE  /\ Take(w) => \E m \in Message : Takes(w, m) /\ QueueOf(m) = Consumes[w]
           /\ Kill(w) \/ Crash(w) => Stops(w)
<1>1. Store!TypeOK /\ w \in Client /\ task \in [Worker -> Task]
  BY StoreTyped, Clients DEF TypeInv, Types
<1>2. ASSUME Take(w) PROVE \E m \in Message : Takes(w, m) /\ QueueOf(m) = Consumes[w]
  <2>1. PICK m \in Message :
           /\ task[w].at = "idle" /\ queue[m] > 0 /\ QueueOf(m) = Consumes[w]
           /\ queue' = [queue EXCEPT ![m] = @ - 1]
           /\ task' = [task EXCEPT ![w] =
                         [at |-> "start", msg |-> m, owns |-> TRUE, temps |-> 0]]
           /\ inflight' = [inflight EXCEPT ![w] = @ + 1]
           /\ Store!CallUpdate(w, JobOf[m.request], Store!Running)
    BY <1>2 DEF Take
  <2>2. [at |-> "start", msg |-> m, owns |-> TRUE, temps |-> 0] \in Task
    BY DEF Task, Place
  <2>3. /\ task' \in [Worker -> Task] /\ OnlyTask(w)
        /\ task'[w].at = "start" /\ task'[w].msg = m /\ task'[w].owns
    BY <1>1, <2>1, <2>2 DEF OnlyTask
  <2>4. /\ UNCHANGED <<row, index, heatmap>> /\ Done(call[w]) /\ OnlyCall(w)
        /\ At(w, "update_get", JobOf[m.request]) /\ call'[w].fields = Store!Running
    BY <1>1, <2>1, CallsMove DEF Returned, Store!Returned, Done
  <2> QED BY <2>1, <2>3, <2>4 DEF Takes
<1>3. ASSUME Kill(w) \/ Crash(w) PROVE Stops(w)
  <2>1. Stop(w)
    BY <1>3 DEF Kill, Crash
  <2>2. CASE Returned(w)
    BY <2>1, <2>2 DEF Stop, Stops, DropCall, storeVars, OnlyCall, Returned, Store!Returned, Done
  <2>3. CASE ~Returned(w)
    <3>1. Store!Abandon(w)
      BY <2>1, <2>3 DEF Stop, DropCall
    <3> QED BY <1>1, <2>1, <3>1, AbandonMoves DEF Stop, Stops
  <2> QED BY <2>2, <2>3
<1> QED BY <1>2, <1>3

\* A step of an execution keeps the types.
LEMMA ExecuteTypes ==
    ASSUME TypeInv, NEW w \in Worker, Execute(w)
    PROVE  Types'
<1> USE DEF TypeInv, Types
<1>1. UNCHANGED <<post, read>> /\ task \in [Worker -> Task]
  BY ExecuteMoves
<1>2. task' \in [Worker -> Task]
  <2>1. ASSUME NEW p \in Place, Walks(w, p) \/ Calls(w, p)
        PROVE  task' \in [Worker -> Task]
    BY <2>1 DEF Walks, Calls, Goes
  <2>2. Republishes(w) => task' \in [Worker -> Task]
    BY DEF Republishes, Goes
  <2>3. Ends(w) => task' \in [Worker -> Task]
    BY DEF Ends, NoTask, Task, Place
  <2> QED BY <2>1, <2>2, <2>3, ExecuteMoves
<1>3. queue' \in [Message -> Nat]
  <2>1. CASE Republishes(w)
    <3> DEFINE m == [task[w].msg EXCEPT !.fallback = TRUE]
    <3>1. m \in Message
      BY <2>1, JobsTyped DEF Republishes, Message
    <3>2. queue' = [queue EXCEPT ![m] = @ + 1]
      BY <2>1 DEF Republishes, Put
    <3> QED BY <3>1, <3>2
  <2>2. ASSUME NEW p \in Place, Walks(w, p) \/ Calls(w, p) \/ Ends(w)
        PROVE  queue' = queue
    BY <2>2 DEF Walks, Calls, Ends
  <2>3. Ends(w) => queue' = queue
    BY DEF Ends
  <2> QED BY <2>1, <2>2, <2>3, ExecuteMoves
<1>4. CASE Finally(w) \/ FinallyFails(w)
  <2>1. inflight[w] > 0 /\ inflight[w] \in Nat
    BY <1>4 DEF Finally, FinallyFails, Placed
  <2>2. inflight' \in [Worker -> Nat]
    BY <1>4, <2>1 DEF Finally, FinallyFails
  <2>3. litter' \in Nat /\ faults' \in 0..MaxFaults
    BY <1>4, CompareAssumption DEF Finally, FinallyFails, Fault
  <2> QED BY <1>1, <1>2, <1>3, <2>2, <2>3
<1>5. CASE ~(Finally(w) \/ FinallyFails(w))
  <2>1. UNCHANGED inflight
    BY <1>5 DEF Execute, Escape, TempFails, StoreTemps, Lpips, SaveHeatmap, LpipsSaved, Dists,
       SaveDone, Finished, ComputeFails, GpuFails, SaveFails, Republish, RepublishFails,
       Excepted, Ack
  <2>2. UNCHANGED litter \/ \E n \in 0..2 : litter' = litter + n
    BY <1>5 DEF Execute, Escape, TempFails, StoreTemps, Lpips, SaveHeatmap, LpipsSaved, Dists,
       SaveDone, Finished, ComputeFails, GpuFails, SaveFails, Republish, RepublishFails,
       Excepted, Ack
  <2>3. \/ UNCHANGED faults
        \/ faults < MaxFaults /\ faults' = faults + 1
    <3>1. CASE TempFails(w) \/ ComputeFails(w) \/ GpuFails(w) \/ RepublishFails(w)
      BY <3>1 DEF TempFails, ComputeFails, GpuFails, RepublishFails, Fault
    <3>2. CASE ~(TempFails(w) \/ ComputeFails(w) \/ GpuFails(w) \/ RepublishFails(w))
      BY <1>5, <3>2 DEF Execute, Escape, StoreTemps, Lpips, SaveHeatmap, LpipsSaved, Dists,
         SaveDone, Finished, SaveFails, Republish, Excepted, Ack
    <3> QED BY <3>1, <3>2
  <2>4. litter' \in Nat
    BY <2>2
  <2>5. faults' \in 0..MaxFaults
    BY <2>3, CompareAssumption
  <2> QED BY <1>1, <1>2, <1>3, <2>1, <2>4, <2>5
<1> QED BY <1>4, <1>5

\* Put adds one delivery of a message.
LEMMA PutMoves ==
    ASSUME queue \in [Message -> Nat], NEW m \in Message, Put(m)
    PROVE  /\ queue' \in [Message -> Nat] /\ queue'[m] = queue[m] + 1
           /\ \A n \in Message \ {m} : queue'[n] = queue[n]
BY DEF Put

\* Every step of the handlers, too.
LEMMA HandlerTypes ==
    ASSUME TypeInv, NEW r \in Request, Submit(r) \/ Handle(r) \/ ApiDies(r)
    PROVE  Types' /\ Placed'
<1> USE DEF TypeInv, Types
<1>1. Store!TypeOK /\ r \in Client /\ JobOf[r] \in Job /\ HandlerPlaced(r, post[r], call[r])
  BY StoreTyped, Clients, CompareAssumption DEF Placed
<1> DEFINE m == [request |-> r, fallback |-> FALSE]
<1>2. m \in Message
  BY DEF Message
<1>3. CASE Submit(r)
  <2>1. Types'
    BY <1>3 DEF Submit, Answers, Handling
  <2>2. /\ OnlyCall(r) /\ At(r, "create_set", JobOf[r])
        /\ call'[r].data = Store!NewRow(MetricOf[r])
    BY <1>1, <1>3, CallsMove DEF Submit
  <2>3. HandlerPlaced(r, post'[r], call'[r])
    BY <1>3, <2>2 DEF Submit, Answers, HandlerPlaced, At, Store!InCreate
  <2> QED BY <1>3, <2>1, <2>2, <2>3, HandlerMoves DEF Submit, Answers
<1>4. CASE Refuse(r) \/ Apologise(r)
  <2>1. Types'
    BY <1>4 DEF Refuse, Apologise, Answers, Answer
  <2>2. OnlyCall(r) /\ HandlerPlaced(r, post'[r], call'[r])
    BY <1>4 DEF Refuse, Apologise, CallRaised, Returned, Store!Returned, storeVars, OnlyCall,
       HandlerPlaced, Done
  <2> QED BY <1>4, <2>1, <2>2, HandlerMoves DEF Refuse, Apologise, Answers
<1>5. CASE Enqueue(r)
  <2>1. queue' \in [Message -> Nat]
    BY <1>2, <1>5, PutMoves DEF Enqueue
  <2>2. Types'
    BY <1>5, <2>1 DEF Enqueue, Answers, Answer
  <2>3. OnlyCall(r) /\ HandlerPlaced(r, post'[r], call'[r])
    BY <1>5 DEF Enqueue, CallOk, storeVars, OnlyCall, HandlerPlaced, Done, Store!Outcome
  <2> QED BY <1>5, <2>2, <2>3, HandlerMoves DEF Enqueue, Answers
<1>6. CASE EnqueueFails(r)
  <2>1. queue' \in [Message -> Nat]
    BY <1>2, <1>6, PutMoves DEF EnqueueFails
  <2>2. faults' \in 0..MaxFaults
    BY <1>6, CompareAssumption DEF EnqueueFails, Fault
  <2>3. Types'
    BY <1>6, <2>1, <2>2 DEF EnqueueFails, Answers, Handling
  <2>4. OnlyCall(r) /\ At(r, "update_get", JobOf[r]) /\ call'[r].fields = Store!Error
    BY <1>1, <1>6, CallsMove DEF EnqueueFails
  <2>5. HandlerPlaced(r, post'[r], call'[r])
    BY <1>6, <2>4 DEF EnqueueFails, Answers, HandlerPlaced, Updates, At, Store!InUpdate
  <2> QED BY <1>6, <2>3, <2>4, <2>5, HandlerMoves DEF EnqueueFails, Answers
<1>7. CASE ApiDies(r)
  <2>1. Types'
    BY <1>7, CompareAssumption DEF ApiDies, Answers, Answer, Fault
  <2>2. OnlyCall(r) /\ Done(call'[r])
    BY <1>1, <1>7, AbandonMoves DEF ApiDies, DropCall, Returned, Store!Returned, storeVars,
       OnlyCall, Done, Store!Outcome
  <2> QED BY <1>7, <2>1, <2>2, HandlerMoves DEF ApiDies, Answers, HandlerPlaced
<1> QED BY <1>3, <1>4, <1>5, <1>6, <1>7 DEF Handle

\* And what a worker does or suffers outside an execution.
LEMMA WorkerTypes ==
    ASSUME TypeInv, NEW w \in Worker, Take(w) \/ Kill(w) \/ Crash(w) \/ Reconnect(w)
    PROVE  Types' /\ Placed'
<1> USE DEF TypeInv, Types
<1>1. task[w].at # "idle" => task[w].msg \in Message
  BY JobsTyped
<1>2. CASE Take(w)
  <2>1. PICK m \in Message : Takes(w, m)
    BY <1>2, WorkerStepMoves
  <2>2. UNCHANGED <<post, litter, faults, read>>
    BY <1>2 DEF Take
  <2>3. queue' \in [Message -> Nat] /\ inflight' \in [Worker -> Nat]
    BY <2>1 DEF Takes
  <2>4. Types'
    BY <2>1, <2>2, <2>3 DEF Takes
  <2>5. \A v \in Worker : task'[v].at \notin {"idle", "ack"} => inflight'[v] > 0
    BY <2>1 DEF Takes, OnlyTask, Placed
  <2>6. Updates(call'[w], JobOf[task'[w].msg.request], UpdateOf(task'[w].at))
    BY <2>1 DEF Takes, At, Updates, UpdateOf, Store!InUpdate
  <2>7. TaskPlaced(task'[w], call'[w])
    BY <2>1, <2>6 DEF Takes, TaskPlaced, Updating
  <2> QED BY <2>1, <2>2, <2>4, <2>5, <2>7, WorkerMoves DEF Takes
<1>3. CASE Kill(w) \/ Crash(w)
  <2>1. Stops(w) /\ UNCHANGED <<post, read>>
    BY <1>3, WorkerStepMoves DEF Kill, Crash, Stop
  <2>2. task' \in [Worker -> Task] /\ task'[w] = NoTask /\ OnlyTask(w)
    BY <2>1 DEF Stops, NoTask, Task, Place, OnlyTask
  <2>3. queue' \in [Message -> Nat]
    BY <1>1, <1>3, <2>1, PutMoves DEF Kill, Crash, Stops
  <2>4. inflight' \in [Worker -> Nat] /\ \A v \in Worker \ {w} : inflight'[v] = inflight[v]
    BY <1>3 DEF Kill, Crash
  <2>5. litter' \in Nat
    BY <1>3 DEF Kill, Crash, Stop, Task
  <2>6. faults' \in 0..MaxFaults
    BY <1>3, CompareAssumption DEF Kill, Crash, Fault
  <2>7. Types'
    BY <2>1, <2>2, <2>3, <2>4, <2>5, <2>6
  <2>8. TaskPlaced(task'[w], call'[w])
    BY <2>1, <2>2 DEF Stops, TaskPlaced, NoTask, Done, Store!Outcome
  <2>9. \A v \in Worker : task'[v].at \notin {"idle", "ack"} => inflight'[v] > 0
    BY <2>2, <2>4 DEF OnlyTask, NoTask, Placed
  <2> QED BY <2>1, <2>2, <2>7, <2>8, <2>9, WorkerMoves DEF Stops
<1>4. CASE Reconnect(w)
  <2>1. task[w].at # "idle"
    BY <1>4 DEF Reconnect, Placed, TaskPlaced
  <2>2. queue' \in [Message -> Nat]
    BY <1>1, <1>4, <2>1, PutMoves DEF Reconnect
  <2>3. task' \in [Worker -> Task] /\ OnlyTask(w)
    BY <1>4 DEF Reconnect, Task, OnlyTask
  <2>4. task'[w].at = task[w].at /\ task'[w].msg = task[w].msg
    BY <1>4 DEF Reconnect, Task
  <2>5. Types'
    BY <1>4, <2>2, <2>3, CompareAssumption DEF Reconnect, Fault
  <2>6. TaskPlaced(task'[w], call'[w]) /\ OnlyCall(w)
    BY <1>4, <2>1, <2>4 DEF Reconnect, storeVars, Placed, TaskPlaced, OnlyCall
  <2>7. \A v \in Worker : task'[v].at \notin {"idle", "ack"} => inflight'[v] > 0
    BY <1>4, <2>3, <2>4 DEF Reconnect, OnlyTask, Placed
  <2> QED BY <1>4, <2>3, <2>5, <2>6, <2>7, WorkerMoves DEF Reconnect
<1> QED BY <1>2, <1>3, <1>4

\* At first nobody is inside a call.
LEMMA TypeInit == Init => TypeInv
<1> SUFFICES ASSUME Init PROVE TypeInv OBVIOUS
<1>1. Redis!TypeInv
  BY Redis!TypeInit, StoreAssumptions, SameTypes DEF Init
<1>2. NoTask \in Task
  BY DEF NoTask, Task, Place
<1>3. Types
  BY <1>2, CompareAssumption DEF Init, Types
<1>4. \A c \in Client : Done(call[c])
  BY DEF Init, Store!Init, Store!Blank, Store!Outcome, Done
<1>5. Placed
  BY <1>4, Clients DEF Init, NoTask, Placed, TaskPlaced, HandlerPlaced
<1> QED BY <1>1, <1>3, <1>5 DEF TypeInv

\* Every step keeps the types, and every program where its place says.
LEMMA TypeNext == TypeInv /\ [Next]_vars => TypeInv'
<1> SUFFICES ASSUME TypeInv, [Next]_vars PROVE TypeInv' OBVIOUS
<1>1. Redis!TypeInv'
  <2>1. Redis!TypeInv /\ [Redis!Next]_Redis!storeVars
    BY StoreStep DEF TypeInv
  <2> QED BY <2>1, Redis!TypeNext, StoreAssumptions
<1>2. ASSUME NEW r \in Request, Submit(r) \/ Handle(r) \/ ApiDies(r) PROVE Types' /\ Placed'
  BY <1>2, HandlerTypes
<1>3. ASSUME NEW w \in Worker, Execute(w) PROVE Types' /\ Placed'
  BY <1>3, ExecuteTypes, ExecutePlaced
<1>4. ASSUME NEW w \in Worker, Take(w) \/ Kill(w) \/ Crash(w) \/ Reconnect(w)
      PROVE  Types' /\ Placed'
  BY <1>4, WorkerTypes
<1>5. ASSUME NEW d \in Reader, ListJobs(d) PROVE Types' /\ Placed'
  <2>1. Types'
    BY <1>5 DEF ListJobs, TypeInv, Types
  <2>2. OnlyCall(d) /\ call'[d].at = "list_zrange"
    <3>1. Store!TypeOK /\ d \in Client
      BY StoreTyped, Clients
    <3>2. \A j : Store!CallList(d) => OnlyCall(d) /\ call'[d].at = "list_zrange"
      BY <3>1, CallsMove
    <3> QED BY <1>5, <3>2 DEF ListJobs
  <2> QED BY <1>5, <2>1, <2>2, ReaderMoves DEF ListJobs, Store!InList
<1>6. ASSUME NEW d \in Reader, GetHeatmapRow(d) \/ GetHeatmapPng(d) PROVE Types' /\ Placed'
  <2>1. read' \in [Reader -> HeatmapRead \cup {None}]
    <3>1. CASE GetHeatmapRow(d)
      <4>1. PICK j \in Job : /\ row[j] # None
                             /\ read' = [read EXCEPT ![d] = [job |-> j, metric |-> row[j].metric,
                                                       has_heatmap |-> row[j].has_heatmap]]
        BY <3>1 DEF GetHeatmapRow
      <4>2. row[j] \in Store!Row
        BY <4>1, StoreTyped DEF Store!TypeOK
      <4> QED BY <4>1, <4>2 DEF Store!Row, HeatmapRead, TypeInv, Types
    <3>2. CASE GetHeatmapPng(d)
      BY <3>2 DEF GetHeatmapPng, TypeInv, Types
    <3> QED BY <1>6, <3>1, <3>2
  <2>2. Types'
    BY <1>6, <2>1 DEF GetHeatmapRow, GetHeatmapPng, TypeInv, Types
  <2>3. Placed'
    BY <1>6 DEF GetHeatmapRow, GetHeatmapPng, storeVars, TypeInv, Placed
  <2> QED BY <2>2, <2>3
<1>7. ASSUME NEW c \in Client, StoreCommand(c) \/ StoreRaises(c) PROVE Types' /\ Placed'
  <2>1. Types'
    BY <1>7, CompareAssumption DEF StoreCommand, StoreRaises, Fault, TypeInv, Types
  <2> QED BY <1>7, <2>1, CommandPlaced
<1>8. ASSUME NEW j \in Job, Expire(j) PROVE Types' /\ Placed'
  <2>1. Types'
    BY <1>8 DEF Expire, TypeInv, Types
  <2>2. UNCHANGED call
    BY <1>8, ExpireMoves DEF Expire
  <2> QED BY <1>8, <2>1, <2>2 DEF Expire, TypeInv, Placed
<1>9. UNCHANGED vars => Types' /\ Placed'
  BY DEF vars, TypeInv, Types, Placed
<1>10. Types' /\ Placed'
  BY <1>2, <1>3, <1>4, <1>5, <1>6, <1>7, <1>8, <1>9 DEF Next
<1> QED BY <1>1, <1>10 DEF TypeInv

\* Every program is at a place it has, with the message, the temporary images
\* and the part of the gauge that belong to it, and in no store call that is not
\* its own: the gauge never goes below zero.
THEOREM TypeCorrect == Spec => []TypeOK
<1>1. TypeInv => TypeOK
  BY StoreTyped DEF TypeInv, Types, TypeOK
<1> QED BY TypeInit, TypeNext, <1>1, PTL DEF Spec

\* What the program does to the store is what the store's specification allows:
\* every theorem about the store alone holds in the running service.
THEOREM StoreRefined == Spec => Redis!Spec
<1>1. Init => Redis!Init
  BY SameTypes DEF Init
<1>2. TypeInv /\ [Next]_vars => [Redis!Next]_Redis!storeVars
  BY StoreStep
<1> QED BY TypeInit, TypeNext, <1>1, <1>2, PTL DEF Spec, Redis!Spec

-----------------------------------------------------------------------------
(* Heatmaps. *)

\* Nothing but its expiry takes a heatmap away.
LEMMA HeatmapsStay ==
    ASSUME HeatmapsExpire = FALSE, [Redis!Next]_Redis!storeVars
    PROVE  heatmap \subseteq heatmap'
BY DEF Redis!Next, Redis!Begin, Redis!Command, Redis!Expire, Redis!CallCreate, Redis!CallUpdate,
   Redis!CallSetHeatmap, Redis!CallList, Redis!CreateSet, Redis!CreateZadd, Redis!UpdateGet,
   Redis!UpdateSet, Redis!UpdateConfirm, Redis!HeatmapSet, Redis!ListZrange, Redis!ListMget,
   Redis!ListZrem, Redis!Abandon, Redis!ExpireRow, Redis!ExpireHeatmap, Redis!storeVars

\* A row that says "done" and announces a heatmap has it from then on, so the
\* second read of the heatmap endpoint finds what the first one promised,
\* whatever happens in between and whatever goes wrong.
THEOREM HeatmapsDelivered == ASSUME HeatmapsExpire = FALSE PROVE Spec => []HeatmapDelivered
<1>1. Redis!Spec => []Redis!HeatmapBacked
  BY Redis!HeatmapsBacked, StoreAssumptions
<1>2. Init => HeatmapDelivered
  BY DEF Init, HeatmapDelivered
<1>3. TypeInv /\ Redis!HeatmapBacked /\ HeatmapDelivered /\ [Next]_vars => HeatmapDelivered'
  <2> SUFFICES ASSUME TypeInv, Redis!HeatmapBacked, HeatmapDelivered, [Next]_vars
               PROVE  HeatmapDelivered'
    OBVIOUS
  <2>1. heatmap \subseteq heatmap'
    BY StoreStep, HeatmapsStay
  <2>2. ASSUME NEW d \in Reader, GetHeatmapRow(d) PROVE HeatmapDelivered'
    <3>1. PICK j \in Job : /\ row[j] # None
                           /\ read' = [read EXCEPT ![d] = [job |-> j, metric |-> row[j].metric,
                                                     has_heatmap |-> row[j].has_heatmap]]
      BY <2>2 DEF GetHeatmapRow
    <3>2. row[j].has_heatmap => j \in heatmap
      BY <3>1 DEF Redis!HeatmapBacked
    <3> QED BY <2>1, <3>1, <3>2 DEF HeatmapDelivered, TypeInv, Types
  <2>3. ASSUME NEW d \in Reader, GetHeatmapPng(d) PROVE HeatmapDelivered'
    BY <2>1, <2>3 DEF GetHeatmapPng, HeatmapDelivered, TypeInv, Types
  <2>4. CASE UNCHANGED read
    BY <2>1, <2>4 DEF HeatmapDelivered
  <2>5. \/ UNCHANGED read
        \/ \E d \in Reader : GetHeatmapRow(d) \/ GetHeatmapPng(d)
    <3>1. ASSUME NEW r \in Request, Submit(r) \/ Handle(r) \/ ApiDies(r) PROVE UNCHANGED read
      BY <3>1 DEF Submit, Handle, ApiDies, Refuse, Enqueue, EnqueueFails, Apologise
    <3>2. ASSUME NEW w \in Worker, Take(w) \/ Kill(w) \/ Crash(w) \/ Reconnect(w)
          PROVE  UNCHANGED read
      BY <3>2 DEF Take, Kill, Crash, Stop, Reconnect
    <3>3. ASSUME NEW w \in Worker, Execute(w) PROVE UNCHANGED read
      BY <3>3, ExecuteMoves
    <3>4. \A d \in Reader : ListJobs(d) => UNCHANGED read
      BY DEF ListJobs
    <3>5. \A c \in Client : StoreCommand(c) \/ StoreRaises(c) => UNCHANGED read
      BY DEF StoreCommand, StoreRaises
    <3>6. \A j \in Job : Expire(j) => UNCHANGED read
      BY DEF Expire
    <3>7. UNCHANGED vars => UNCHANGED read
      BY DEF vars
    <3> QED BY <3>1, <3>2, <3>3, <3>4, <3>5, <3>6, <3>7 DEF Next
  <2> QED BY <2>2, <2>3, <2>4, <2>5
<1> QED BY TypeInit, TypeNext, StoreRefined, <1>1, <1>2, <1>3, PTL DEF Spec
=============================================================================
