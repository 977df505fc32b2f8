------------------------- MODULE RedisJobStoreProofs -------------------------
(***************************************************************************)
(* What RedisJobStore guarantees for every set of jobs and clients, and    *)
(* under which of its assumptions (keys that do not expire, methods that   *)
(* are not cut short) each guarantee holds.                                *)
(*                                                                         *)
(* Every proof has the same shape: FramesOK says what a client inside a    *)
(* method knows, and the invariant of interest is extended from the stored *)
(* rows to the rows that clients hold and are about to write back.         *)
(***************************************************************************)
EXTENDS RedisJobStore, TLAPS

-----------------------------------------------------------------------------
(* Rows and the fields that are merged into them. *)

FieldNames == {"metric", "status", "lpips", "dists", "error_message", "has_heatmap"}

\* A row has these fields and no others.
LEMMA RowDomain == ASSUME NEW data \in Row PROVE DOMAIN data = FieldNames
BY DEF Row, FieldNames

\* No update touches the metric, each field keeps its type, and the status
\* "error" and the error message are only ever written together.
LEMMA FieldsType ==
    ASSUME NEW fields \in Fields
    PROVE  /\ "metric" \notin DOMAIN fields
           /\ "status" \in DOMAIN fields => fields["status"] \in Status
           /\ "lpips" \in DOMAIN fields => fields["lpips"] \in BOOLEAN
           /\ "dists" \in DOMAIN fields => fields["dists"] \in BOOLEAN
           /\ "error_message" \in DOMAIN fields => fields["error_message"] \in BOOLEAN
           /\ "has_heatmap" \in DOMAIN fields => fields = Heatmap
           /\ "has_heatmap" \in DOMAIN fields => fields["has_heatmap"] \in BOOLEAN
           /\ IF "status" \in DOMAIN fields
              THEN fields["status"] = "error" =>
                     "error_message" \in DOMAIN fields /\ fields["error_message"]
              ELSE "error_message" \notin DOMAIN fields
PROOF
<1>1. CASE fields = Running BY <1>1 DEF Running, Status
<1>2. CASE fields = Lpips   BY <1>2 DEF Lpips
<1>3. CASE fields = Heatmap BY <1>3 DEF Heatmap
<1>4. CASE fields = Dists   BY <1>4 DEF Dists
<1>5. CASE fields = Done    BY <1>5 DEF Done, Status
<1>6. CASE fields = Requeue BY <1>6 DEF Requeue, Status
<1>7. CASE fields = Error   BY <1>7 DEF Error, Status
<1> QED BY <1>1, <1>2, <1>3, <1>4, <1>5, <1>6, <1>7 DEF Fields

\* update_job keeps the fields of the row, each taken from the update if it is
\* there and from the row if it is not.
LEMMA MergeFields ==
    ASSUME NEW data \in Row, NEW fields \in Fields
    PROVE  LET r == Merge(data, fields) IN
           /\ r = [metric |-> r.metric, status |-> r.status, lpips |-> r.lpips,
                   dists |-> r.dists, error_message |-> r.error_message,
                   has_heatmap |-> r.has_heatmap]
           /\ \A f \in FieldNames :
                 r[f] = IF f \in DOMAIN fields THEN fields[f] ELSE data[f]
BY RowDomain DEF Merge, FieldNames

\* A merged row is a row of the same job, it gains has_heatmap from the update
\* of set_heatmap only, and it explains its error if the row before it did.
LEMMA MergeType ==
    ASSUME NEW data \in Row, NEW fields \in Fields
    PROVE  LET r == Merge(data, fields) IN
           /\ r \in Row
           /\ r.metric = data.metric
           /\ r.has_heatmap => data.has_heatmap \/ fields = Heatmap
           /\ (data.status = "error" => data.error_message)
                => (r.status = "error" => r.error_message)
PROOF
<1> DEFINE r == Merge(data, fields)
<1>1. r.metric = data.metric
  BY MergeFields, FieldsType DEF FieldNames
<1>2. r.status \in Status
  BY MergeFields, FieldsType DEF FieldNames, Row
<1>3. r.lpips \in BOOLEAN
  BY MergeFields, FieldsType DEF FieldNames, Row
<1>4. r.dists \in BOOLEAN
  BY MergeFields, FieldsType DEF FieldNames, Row
<1>5. r.error_message \in BOOLEAN
  BY MergeFields, FieldsType DEF FieldNames, Row
<1>6. r.has_heatmap \in BOOLEAN
  BY MergeFields, FieldsType DEF FieldNames, Row
<1>7. r \in Row
  BY <1>1, <1>2, <1>3, <1>4, <1>5, <1>6, MergeFields DEF Row
<1>8. r.has_heatmap => data.has_heatmap \/ fields = Heatmap
  BY MergeFields, FieldsType DEF FieldNames
<1>9. ASSUME data.status = "error" => data.error_message, r.status = "error"
      PROVE  r.error_message
  BY <1>9, MergeFields, FieldsType DEF FieldNames
<1> QED BY <1>1, <1>7, <1>8, <1>9

\* create_job writes a complete row that is queued and has no heatmap.
LEMMA NewRowType ==
    ASSUME NEW m \in Metric
    PROVE  NewRow(m) \in Row /\ NewRow(m).status = "queued" /\ NewRow(m).has_heatmap = FALSE
BY DEF NewRow, Row, Status

-----------------------------------------------------------------------------
(* Type correctness. *)

\* What a client inside a method knows: which of its locals are set.
FrameOK(f) ==
    /\ f.at \in InCreate \cup InUpdate \cup {"heatmap_set"} => f.job \in Job
    /\ f.at \in {"create_set", "update_set"} => f.data \in Row
    /\ f.at = "update_get" => f.fields \in Fields

FramesOK == \A c \in Client : FrameOK(call[c])

TypeInv == TypeOK /\ FramesOK

\* Entering or leaving a method moves one client and no other.
LEMMA EnterMoves ==
    ASSUME TypeInv, NEW c \in Client, NEW f, Enter(c, f)
    PROVE  call'[c] = f /\ \A d \in Client \ {c} : call'[d] = call[d]
BY DEF Enter, TypeInv, TypeOK

\* The same for the end of a method.
LEMMA ReturnMoves ==
    ASSUME TypeInv, NEW c \in Client, NEW o, Return(c, o)
    PROVE  call'[c].at = o /\ \A d \in Client \ {c} : call'[d] = call[d]
BY DEF Return, Blank, TypeInv, TypeOK

\* A client that goes to a well-formed place leaves every frame well formed.
LEMMA EnterKeepsType ==
    ASSUME TypeInv, NEW c \in Client, NEW f \in Call, FrameOK(f), Enter(c, f)
    PROVE  call' \in [Client -> Call] /\ FramesOK'
BY DEF Enter, TypeInv, TypeOK, FramesOK, FrameOK

\* So does a client whose method ends.
LEMMA ReturnKeepsType ==
    ASSUME TypeInv, NEW c \in Client, NEW o \in Outcome, Return(c, o)
    PROVE  call' \in [Client -> Call] /\ FramesOK'
PROOF
<1> DEFINE b == [Blank EXCEPT !.at = o]
<1>1. b \in Call /\ b.at = o
  BY DEF Blank, Call, Outcome
<1>2. FrameOK(b)
  BY <1>1 DEF FrameOK, Outcome, InCreate, InUpdate
<1>3. Enter(c, b)
  BY DEF Return, Enter
<1> QED BY <1>1, <1>2, <1>3, EnterKeepsType

\* A method begins in a well-formed frame and changes nothing in Redis.
LEMMA BeginFrames ==
    ASSUME NEW c \in Client, Begin(c)
    PROVE  /\ UNCHANGED <<row, index, heatmap>>
           /\ \E f \in Call :
                 /\ Enter(c, f) /\ FrameOK(f)
                 /\ f.at \in {"create_set", "update_get", "heatmap_set", "list_zrange"}
                 /\ f.at = "create_set" => \E m \in Metric : f.data = NewRow(m)
                 /\ f.at = "update_get" => f.fields # Heatmap
PROOF
<1> DEFINE Start(f) == /\ f \in Call /\ FrameOK(f)
                       /\ f.at \in {"create_set", "update_get", "heatmap_set", "list_zrange"}
                       /\ f.at = "create_set" => \E m \in Metric : f.data = NewRow(m)
                       /\ f.at = "update_get" => f.fields # Heatmap
<1>1. \A j \in Job, m \in Metric :
         LET f == [Blank EXCEPT !.at = "create_set", !.job = j, !.data = NewRow(m)]
         IN  CallCreate(c, j, m) => Enter(c, f) /\ Start(f)
  BY NewRowType DEF CallCreate, Blank, Call, FrameOK, Inside, InCreate, InUpdate
<1>2. \A j \in Job, u \in Fields \ {Heatmap} :
         LET f == [Blank EXCEPT !.at = "update_get", !.job = j, !.fields = u]
         IN  CallUpdate(c, j, u) => Enter(c, f) /\ Start(f)
  BY DEF CallUpdate, Blank, Call, FrameOK, Inside, InCreate, InUpdate
<1>3. \A j \in Job :
         LET f == [Blank EXCEPT !.at = "heatmap_set", !.job = j]
         IN  CallSetHeatmap(c, j) => Enter(c, f) /\ Start(f)
  BY DEF CallSetHeatmap, Blank, Call, FrameOK, Inside, InCreate, InUpdate
<1>4. LET f == [Blank EXCEPT !.at = "list_zrange"]
      IN  CallList(c) => Enter(c, f) /\ Start(f)
  BY DEF CallList, Blank, Call, FrameOK, Inside, InCreate, InUpdate, InList
<1>5. \E f : Enter(c, f) /\ Start(f)
  BY <1>1, <1>2, <1>3, <1>4, Zenon DEF Begin
<1>6. UNCHANGED <<row, index, heatmap>>
  BY DEF Begin, CallCreate, CallUpdate, CallSetHeatmap, CallList
<1> QED BY <1>5, <1>6

\* At first no client is inside a method and every frame is blank.
LEMMA TypeInit == Init => TypeInv
PROOF
<1> SUFFICES ASSUME Init PROVE TypeInv OBVIOUS
<1>1. Blank \in Call /\ FrameOK(Blank)
  BY DEF Blank, Call, Outcome, FrameOK, InCreate, InUpdate
<1> QED BY <1>1 DEF Init, TypeInv, TypeOK, FramesOK

\* Every command finds the locals it needs and leaves those the next one needs.
LEMMA TypeNext == TypeInv /\ [Next]_storeVars => TypeInv'
PROOF
<1> SUFFICES ASSUME TypeInv, [Next]_storeVars PROVE TypeInv' OBVIOUS
<1> USE DEF TypeInv, TypeOK
<1>1. ASSUME NEW c \in Client, Begin(c)
      PROVE  TypeInv'
  BY <1>1, BeginFrames, EnterKeepsType
<1>2. ASSUME NEW c \in Client, CreateSet(c)
      PROVE  TypeInv'
  <2> DEFINE f == [call[c] EXCEPT !.at = "create_zadd", !.data = None]
  <2>1. call[c].job \in Job /\ call[c].data \in Row
    BY <1>2 DEF CreateSet, FramesOK, FrameOK, InCreate
  <2>2. f \in Call /\ FrameOK(f)
    BY <2>1 DEF Call, FrameOK, Inside, InCreate, InUpdate
  <2>3. call' \in [Client -> Call] /\ FramesOK'
    BY <1>2, <2>2, EnterKeepsType, ReturnKeepsType DEF CreateSet, Outcome
  <2> QED BY <1>2, <2>1, <2>3 DEF CreateSet
<1>3. ASSUME NEW c \in Client, CreateZadd(c)
      PROVE  TypeInv'
  <2>1. call[c].job \in Job
    BY <1>3 DEF CreateZadd, FramesOK, FrameOK, InCreate
  <2>2. call' \in [Client -> Call] /\ FramesOK'
    BY <1>3, ReturnKeepsType DEF CreateZadd, Outcome
  <2> QED BY <1>3, <2>1, <2>2 DEF CreateZadd
<1>4. ASSUME NEW c \in Client, UpdateGet(c)
      PROVE  TypeInv'
  <2> DEFINE data == Merge(row[call[c].job], call[c].fields)
             f == [call[c] EXCEPT !.at = "update_set", !.fields = None, !.data = data]
  <2>1. call[c].job \in Job /\ call[c].fields \in Fields
    BY <1>4 DEF UpdateGet, FramesOK, FrameOK, InUpdate
  <2>2. CASE row[call[c].job] = None
    <3>1. call' \in [Client -> Call] /\ FramesOK'
      BY <1>4, <2>2, ReturnKeepsType DEF UpdateGet, Outcome
    <3> QED BY <1>4, <3>1 DEF UpdateGet
  <2>3. CASE row[call[c].job] # None
    <3>1. data \in Row
      BY <2>1, <2>3, MergeType
    <3>2. f \in Call /\ FrameOK(f)
      BY <2>1, <3>1 DEF Call, FrameOK, Inside, InCreate, InUpdate
    <3>3. call' \in [Client -> Call] /\ FramesOK'
      BY <1>4, <2>3, <3>2, EnterKeepsType DEF UpdateGet
    <3> QED BY <1>4, <3>3 DEF UpdateGet
  <2> QED BY <2>2, <2>3
<1>5. ASSUME NEW c \in Client, UpdateSet(c)
      PROVE  TypeInv'
  <2> DEFINE f == [call[c] EXCEPT !.at = "update_confirm", !.data = None]
  <2>1. call[c].job \in Job /\ call[c].data \in Row
    BY <1>5 DEF UpdateSet, FramesOK, FrameOK, InUpdate
  <2>2. f \in Call /\ FrameOK(f)
    BY <2>1 DEF Call, FrameOK, Inside, InCreate, InUpdate
  <2>3. call' \in [Client -> Call] /\ FramesOK'
    BY <1>5, <2>2, EnterKeepsType DEF UpdateSet
  <2> QED BY <1>5, <2>1, <2>3 DEF UpdateSet
<1>6. ASSUME NEW c \in Client, UpdateConfirm(c)
      PROVE  TypeInv'
  <2>1. call' \in [Client -> Call] /\ FramesOK'
    BY <1>6, ReturnKeepsType DEF UpdateConfirm, Outcome
  <2> QED BY <1>6, <2>1 DEF UpdateConfirm
<1>7. ASSUME NEW c \in Client, HeatmapSet(c)
       PROVE  TypeInv'
  <2> DEFINE f == [call[c] EXCEPT !.at = "update_get", !.fields = Heatmap]
  <2>1. call[c].job \in Job
    BY <1>7 DEF HeatmapSet, FramesOK, FrameOK
  <2>2. f \in Call /\ FrameOK(f)
    BY <2>1 DEF Call, FrameOK, Inside, InCreate, InUpdate, Fields
  <2>3. call' \in [Client -> Call] /\ FramesOK'
    BY <1>7, <2>2, EnterKeepsType DEF HeatmapSet
  <2> QED BY <1>7, <2>1, <2>3 DEF HeatmapSet
<1>8. ASSUME NEW c \in Client, ListZrange(c)
       PROVE  TypeInv'
  <2> DEFINE f == [call[c] EXCEPT !.at = "list_mget", !.ids = index]
  <2>1. f \in Call /\ FrameOK(f)
    BY DEF Call, FrameOK, Inside, InCreate, InUpdate, InList
  <2>2. call' \in [Client -> Call] /\ FramesOK'
    BY <1>8, <2>1, EnterKeepsType, ReturnKeepsType DEF ListZrange, Outcome
  <2> QED BY <1>8, <2>2 DEF ListZrange
<1>9. ASSUME NEW c \in Client, ListMget(c)
       PROVE  TypeInv'
  <2> DEFINE stale == {j \in call[c].ids : row[j] = None}
             f == [call[c] EXCEPT !.at = "list_zrem", !.ids = stale]
  <2>1. f \in Call /\ FrameOK(f)
    BY DEF Call, FrameOK, Inside, InCreate, InUpdate, InList
  <2>2. call' \in [Client -> Call] /\ FramesOK'
    BY <1>9, <2>1, EnterKeepsType, ReturnKeepsType DEF ListMget, Outcome
  <2> QED BY <1>9, <2>2 DEF ListMget
<1>10. ASSUME NEW c \in Client, ListZrem(c)
       PROVE  TypeInv'
  <2>1. call' \in [Client -> Call] /\ FramesOK'
    BY <1>10, ReturnKeepsType DEF ListZrem, Outcome
  <2> QED BY <1>10, <2>1 DEF ListZrem
<1>11. ASSUME NEW c \in Client, Abandon(c)
       PROVE  TypeInv'
  <2>1. call' \in [Client -> Call] /\ FramesOK'
    BY <1>11, ReturnKeepsType DEF Abandon, Outcome
  <2>2. call[c].at = "create_zadd" => call[c].job \in Job
    BY DEF FramesOK, FrameOK, InCreate
  <2>3. index' \subseteq Job
    BY <1>11, <2>2 DEF Abandon
  <2> QED BY <1>11, <2>1, <2>3 DEF Abandon
<1>12. ASSUME NEW j \in Job, Expire(j)
       PROVE  TypeInv'
  BY <1>12 DEF Expire, ExpireRow, ExpireHeatmap, FramesOK, FrameOK
<1>13. CASE UNCHANGED storeVars
  BY <1>13 DEF storeVars, FramesOK, FrameOK
<1> QED BY <1>1, <1>2, <1>3, <1>4, <1>5, <1>6, <1>7,
           <1>8, <1>9, <1>10, <1>11, <1>12, <1>13 DEF Next, Command

\* Every row is complete, the index and the heatmaps are of known jobs and no
\* client loses its place.
THEOREM TypeCorrect == Spec => []TypeOK
<1>1. TypeInv => TypeOK BY DEF TypeInv
<1> QED BY TypeInit, TypeNext, <1>1, PTL DEF Spec

-----------------------------------------------------------------------------
(* The identity of a row. *)

\* A client about to write a row back read it from the submission that is
\* stored now: true as long as a row never disappears under it.
SameSubmission ==
    \A c \in Client : call[c].at = "update_set" =>
        /\ row[call[c].job] # None
        /\ row[call[c].job].metric = call[c].data.metric

\* Without expiry a row stays and keeps its metric, so a client that read it
\* holds the same submission when it writes it back.
LEMMA SameSubmissionNext ==
    ASSUME JobsExpire = FALSE, TypeInv, SameSubmission, [Next]_storeVars
    PROVE  /\ SameSubmission'
           /\ \A j \in Job : row[j] # None => row'[j] # None /\ row'[j].metric = row[j].metric
PROOF
<1> DEFINE Kept == \A j \in Job : row[j] # None => row'[j] # None /\ row'[j].metric = row[j].metric
<1> USE DEF TypeInv, TypeOK, SameSubmission
<1>1. ASSUME NEW c \in Client, Begin(c) PROVE SameSubmission' /\ Kept
  BY <1>1, BeginFrames DEF Enter
<1>2. ASSUME NEW c \in Client, CreateSet(c) PROVE SameSubmission' /\ Kept
  <2>1. CASE row[call[c].job] = None
    <3>1. Kept
      BY <1>2, <2>1 DEF CreateSet
    <3> DEFINE f == [call[c] EXCEPT !.at = "create_zadd", !.data = None]
    <3>2. f.at = "create_zadd" /\ Enter(c, f)
      BY <1>2, <2>1 DEF CreateSet, Call
    <3>3. \A d \in Client : call'[d].at = "update_set" => call'[d] = call[d]
      BY <3>2, EnterMoves
    <3>4. ASSUME NEW d \in Client, call[d].at = "update_set" PROVE call[d].job \in Job
      BY <3>4 DEF FramesOK, FrameOK, InUpdate
    <3> QED BY <3>1, <3>3, <3>4
  <2>2. CASE row[call[c].job] # None
    BY <1>2, <2>2 DEF CreateSet, Return, Blank
  <2> QED BY <2>1, <2>2
<1>3. ASSUME NEW c \in Client, UpdateGet(c) PROVE SameSubmission' /\ Kept
  <2>1. call[c].fields \in Fields /\ call[c].job \in Job
    BY <1>3 DEF UpdateGet, FramesOK, FrameOK, InUpdate
  <2>2. CASE row[call[c].job] = None
    BY <1>3, <2>2 DEF UpdateGet, Return, Blank
  <2>3. CASE row[call[c].job] # None
    <3>1. Merge(row[call[c].job], call[c].fields).metric = row[call[c].job].metric
      BY <2>1, <2>3, MergeType
    <3> QED BY <1>3, <2>1, <2>3, <3>1 DEF UpdateGet, Enter, Call
  <2> QED BY <2>2, <2>3
<1>4. ASSUME NEW c \in Client, UpdateSet(c) PROVE SameSubmission' /\ Kept
  <2>1. call[c].job \in Job /\ call[c].data # None
    BY <1>4, NoneAssumption DEF UpdateSet, FramesOK, FrameOK, InUpdate
  <2>2. call[c].data.metric = row[call[c].job].metric
    BY <1>4 DEF UpdateSet
  <2>3. Kept
    BY <1>4, <2>1, <2>2 DEF UpdateSet
  <2>4. \A d \in Client : call'[d].at = "update_set" => call'[d] = call[d]
    BY <1>4 DEF UpdateSet, Enter, Call
  <2>5. ASSUME NEW d \in Client, call[d].at = "update_set" PROVE call[d].job \in Job
    BY <2>5 DEF FramesOK, FrameOK, InUpdate
  <2> QED BY <2>3, <2>4, <2>5
<1>5. ASSUME NEW c \in Client,
             CreateZadd(c) \/ UpdateConfirm(c) \/ ListZrem(c) \/ Abandon(c)
      PROVE  SameSubmission' /\ Kept
  BY <1>5 DEF CreateZadd, UpdateConfirm, ListZrem, Abandon, Return, Blank
<1>6. ASSUME NEW c \in Client, HeatmapSet(c) PROVE SameSubmission' /\ Kept
  BY <1>6 DEF HeatmapSet, Enter, Call
<1>7. ASSUME NEW c \in Client, ListZrange(c) \/ ListMget(c)
      PROVE  SameSubmission' /\ Kept
  BY <1>7 DEF ListZrange, ListMget, Enter, Return, Blank, Call
<1>8. ASSUME NEW j \in Job, Expire(j) PROVE SameSubmission' /\ Kept
  BY <1>8 DEF Expire, ExpireRow, ExpireHeatmap
<1>9. CASE UNCHANGED storeVars
  BY <1>9 DEF storeVars
<1> QED BY <1>1, <1>2, <1>3, <1>4, <1>5, <1>6, <1>7, <1>8, <1>9 DEF Next, Command

\* Without a job TTL, overlapping updates never put the parameters of another
\* submission into a row.
THEOREM IdentityKept == ASSUME JobsExpire = FALSE PROVE Spec => IdentityStable
PROOF
<1>1. Init => SameSubmission
  BY DEF Init, SameSubmission, Blank
<1>2. TypeInv /\ SameSubmission /\ [Next]_storeVars => SameSubmission'
  BY SameSubmissionNext
<1>3. TypeInv /\ SameSubmission /\ [Next]_storeVars =>
         [\A j \in Job : row[j] # None /\ row'[j] # None => row'[j].metric = row[j].metric]_row
  BY SameSubmissionNext
<1> QED BY TypeInit, TypeNext, <1>1, <1>2, <1>3, PTL DEF Spec, IdentityStable

-----------------------------------------------------------------------------
(* The index. *)

\* Without expiry no id in the index ever lacks its row, so no list_jobs call
\* finds an id to remove; that is what keeps every row listed.
NothingPruned ==
    /\ \A j \in index : row[j] # None
    /\ \A c \in Client :
          /\ call[c].at = "create_zadd" => row[call[c].job] # None
          /\ call[c].at = "list_mget" => \A j \in call[c].ids : row[j] # None
          /\ call[c].at # "list_zrem"

IndexInv == IndexCovers /\ NothingPruned

\* Without expiry no listing sees a missing row, so none removes an id from the
\* index, and a row enters with the ZADD of its create_job still to come.
LEMMA IndexNext ==
    ASSUME JobsExpire = FALSE, CallsMayFail = FALSE, TypeInv, SameSubmission,
           IndexInv, [Next]_storeVars
    PROVE  IndexInv'
PROOF
<1> USE DEF TypeInv, TypeOK
<1>1. \A j \in Job : row[j] # None => row'[j] # None
  BY SameSubmissionNext
<1>2. ASSUME NEW c \in Client, Begin(c) PROVE IndexInv'
  <2>1. PICK f \in Call : /\ Enter(c, f)
                          /\ f.at \notin {"create_zadd", "list_mget", "list_zrem"}
    BY <1>2, BeginFrames
  <2>2. call[c].at # "create_zadd"
    BY <1>2 DEF Begin, CallCreate, CallUpdate, CallSetHeatmap, CallList, Returned, Outcome
  <2> QED BY <1>2, <2>1, <2>2, BeginFrames DEF Enter, IndexInv, IndexCovers, NothingPruned
<1>3. ASSUME NEW c \in Client, CreateSet(c) PROVE IndexInv'
  <2>1. CASE row[call[c].job] = None
    <3>1. call[c].job \in Job /\ call[c].data # None
      BY <1>3, NoneAssumption DEF CreateSet, FramesOK, FrameOK, InCreate
    <3> DEFINE f == [call[c] EXCEPT !.at = "create_zadd", !.data = None]
    <3>2. f.at = "create_zadd" /\ f.job = call[c].job /\ Enter(c, f)
      BY <1>3, <2>1 DEF CreateSet, Call
    <3>3. row' = [row EXCEPT ![call[c].job] = call[c].data] /\ UNCHANGED index
      BY <1>3, <2>1 DEF CreateSet
    <3>4. /\ row' = [row EXCEPT ![call[c].job] = call[c].data]
          /\ UNCHANGED index
          /\ call'[c].at = "create_zadd" /\ call'[c].job = call[c].job
          /\ \A d \in Client \ {c} : call'[d] = call[d]
          /\ call[c].at # "create_zadd"
      BY <1>3, <3>2, <3>3, EnterMoves DEF CreateSet
    <3>5. IndexCovers'
      BY <3>1, <3>4 DEF IndexInv, IndexCovers
    <3>6. NothingPruned'
      BY <1>1, <3>1, <3>4 DEF IndexInv, NothingPruned, FramesOK, FrameOK, InCreate
    <3> QED BY <3>5, <3>6 DEF IndexInv
  <2>2. CASE row[call[c].job] # None
    <3>1. call[c].at = "create_set" /\ UNCHANGED <<row, index>>
      BY <1>3, <2>2 DEF CreateSet
    <3>2. call'[c].at = "duplicate" /\ \A d \in Client \ {c} : call'[d] = call[d]
      BY <1>3, <2>2, ReturnMoves DEF CreateSet
    <3>3. IndexCovers'
      BY <3>1, <3>2 DEF IndexInv, IndexCovers
    <3>4. NothingPruned'
      BY <3>1, <3>2 DEF IndexInv, NothingPruned
    <3> QED BY <3>3, <3>4 DEF IndexInv
  <2> QED BY <2>1, <2>2
<1>4. ASSUME NEW c \in Client, CreateZadd(c) PROVE IndexInv'
  BY <1>4, <1>1 DEF CreateZadd, Return, Blank, IndexInv, IndexCovers, NothingPruned
<1>5. ASSUME NEW c \in Client, UpdateGet(c) PROVE IndexInv'
  <2>1. call[c].at = "update_get" /\ UNCHANGED <<row, index>>
    BY <1>5 DEF UpdateGet
  <2> DEFINE f == [call[c] EXCEPT !.at = "update_set", !.fields = None,
                                  !.data = Merge(row[call[c].job], call[c].fields)]
  <2>2. f.at = "update_set"
    BY DEF Call
  <2>3. Return(c, "missing") \/ Enter(c, f)
    BY <1>5 DEF UpdateGet
  <2>4. call'[c].at \in {"missing", "update_set"} /\ \A d \in Client \ {c} : call'[d] = call[d]
    BY <2>2, <2>3, EnterMoves, ReturnMoves
  <2> QED BY <2>1, <2>4 DEF IndexInv, IndexCovers, NothingPruned
<1>6. ASSUME NEW c \in Client, UpdateSet(c) PROVE IndexInv'
  <2>1. call[c].job \in Job /\ row[call[c].job] # None
    BY <1>6 DEF UpdateSet, FramesOK, FrameOK, InUpdate, SameSubmission
  <2>2. \A j \in Job : row'[j] # None => row[j] # None
    BY <1>6, <2>1 DEF UpdateSet
  <2>3. /\ call'[c].at = "update_confirm" /\ call[c].at = "update_set"
        /\ \A d \in Client \ {c} : call'[d] = call[d]
        /\ UNCHANGED index
    BY <1>6 DEF UpdateSet, Enter, Call
  <2>4. IndexCovers'
    BY <2>2, <2>3 DEF IndexInv, IndexCovers
  <2>5. ASSUME NEW d \in Client, call[d].at = "create_zadd" PROVE call[d].job \in Job
    BY <2>5 DEF FramesOK, FrameOK, InCreate
  <2>6. NothingPruned'
    BY <1>1, <2>3, <2>5 DEF Call, IndexInv, NothingPruned
  <2> QED BY <2>4, <2>6 DEF IndexInv
<1>7. ASSUME NEW c \in Client, UpdateConfirm(c) PROVE IndexInv'
  BY <1>7 DEF UpdateConfirm, Return, Blank, IndexInv, IndexCovers, NothingPruned
<1>8. ASSUME NEW c \in Client, HeatmapSet(c) PROVE IndexInv'
  BY <1>8 DEF HeatmapSet, Enter, Call, IndexInv, IndexCovers, NothingPruned
<1>9. ASSUME NEW c \in Client, ListZrange(c) PROVE IndexInv'
  <2> DEFINE f == [call[c] EXCEPT !.at = "list_mget", !.ids = index]
  <2>1. f.at = "list_mget" /\ f.ids = index
    BY DEF Call
  <2>2. call[c].at = "list_zrange" /\ UNCHANGED <<row, index>>
    BY <1>9 DEF ListZrange
  <2>3. /\ call'[c].at = "ok" \/ call'[c] = f
        /\ \A d \in Client \ {c} : call'[d] = call[d]
    BY <1>9, EnterMoves, ReturnMoves DEF ListZrange
  <2>4. IndexCovers'
    BY <2>2, <2>3 DEF IndexInv, IndexCovers
  <2>5. NothingPruned'
    BY <2>1, <2>2, <2>3 DEF IndexInv, NothingPruned
  <2> QED BY <2>4, <2>5 DEF IndexInv
<1>10. ASSUME NEW c \in Client, ListMget(c) PROVE IndexInv'
  <2>1. {j \in call[c].ids : row[j] = None} = {}
    BY <1>10 DEF ListMget, IndexInv, NothingPruned
  <2> QED BY <1>10, <2>1 DEF ListMget, Return, Blank, IndexInv, IndexCovers, NothingPruned
<1>11. ASSUME NEW c \in Client, ListZrem(c) \/ Abandon(c) PROVE IndexInv'
  BY <1>11 DEF ListZrem, Abandon, IndexInv, NothingPruned
<1>12. ASSUME NEW j \in Job, Expire(j) PROVE IndexInv'
  BY <1>12 DEF Expire, ExpireRow, ExpireHeatmap, IndexInv, IndexCovers, NothingPruned
<1>13. CASE UNCHANGED storeVars
  BY <1>13 DEF storeVars, IndexInv, IndexCovers, NothingPruned
<1> QED BY <1>2, <1>3, <1>4, <1>5, <1>6, <1>7, <1>8, <1>9, <1>10, <1>11, <1>12,
           <1>13 DEF Next, Command

\* Without a job TTL and with every method carried to its end, each stored job
\* is listed or about to be: no list_jobs call can drop one.
THEOREM IndexComplete ==
    ASSUME JobsExpire = FALSE, CallsMayFail = FALSE PROVE Spec => []IndexCovers
PROOF
<1>1. Init => SameSubmission /\ IndexInv
  BY DEF Init, SameSubmission, IndexInv, IndexCovers, NothingPruned, Blank
<1>2. TypeInv /\ SameSubmission /\ IndexInv /\ [Next]_storeVars => SameSubmission' /\ IndexInv'
  BY SameSubmissionNext, IndexNext
<1>3. IndexInv => IndexCovers
  BY DEF IndexInv
<1> QED BY TypeInit, TypeNext, <1>1, <1>2, <1>3, PTL DEF Spec

-----------------------------------------------------------------------------
(* Heatmaps. *)

\* A client that is about to set has_heatmap has stored the PNG before.
HeatmapInv ==
    /\ HeatmapBacked
    /\ \A c \in Client :
          call[c].at = "update_get" /\ call[c].fields = Heatmap => call[c].job \in heatmap

\* A row comes to announce a heatmap only from an update that follows the SET of
\* the PNG, and without a heatmap TTL the PNG stays.
LEMMA HeatmapNext ==
    ASSUME HeatmapsExpire = FALSE, TypeInv, HeatmapInv, [Next]_storeVars
    PROVE  HeatmapInv'
PROOF
<1> DEFINE InFrame(f) ==
             /\ f.at \in {"create_set", "update_set"} /\ f.data.has_heatmap => f.job \in heatmap'
             /\ f.at = "update_get" /\ f.fields = Heatmap => f.job \in heatmap'
           Rows == \A j \in Job : row[j] # None /\ row[j].has_heatmap => j \in heatmap
<1> USE DEF TypeInv, TypeOK
<1>1. heatmap \subseteq heatmap'
  BY DEF Next, Begin, Command, Expire, CallCreate, CallUpdate, CallSetHeatmap, CallList,
         CreateSet, CreateZadd, UpdateGet, UpdateSet, UpdateConfirm, HeatmapSet,
         ListZrange, ListMget, ListZrem, Abandon, ExpireRow, ExpireHeatmap, storeVars
\* A step moves at most one client, so it is enough to look at that one.
<1>2. ASSUME NEW c \in Client, Rows', InFrame(call'[c]),
             \A d \in Client \ {c} : call'[d] = call[d]
      PROVE  HeatmapInv'
  BY <1>1, <1>2 DEF HeatmapInv, HeatmapBacked, Writing, Held
<1>3. ASSUME UNCHANGED row PROVE Rows'
  BY <1>1, <1>3 DEF HeatmapInv, HeatmapBacked
<1>4. ASSUME NEW c \in Client, NEW o \in Outcome, Return(c, o), UNCHANGED row
      PROVE  HeatmapInv'
  <2>1. InFrame(call'[c])
    BY <1>4, ReturnMoves DEF Outcome
  <2> QED BY <1>2, <1>3, <1>4, <2>1, ReturnMoves
<1>5. ASSUME NEW c \in Client, Begin(c) PROVE HeatmapInv'
  <2>1. PICK f : /\ Enter(c, f)
                 /\ f.at \in {"create_set", "update_get", "heatmap_set", "list_zrange"}
                 /\ f.at = "create_set" => \E m \in Metric : f.data = NewRow(m)
                 /\ f.at = "update_get" => f.fields # Heatmap
    BY <1>5, BeginFrames
  <2>2. InFrame(f)
    BY <2>1, NewRowType
  <2> QED BY <1>5, <1>2, <1>3, <2>1, <2>2, BeginFrames, EnterMoves
<1>6. ASSUME NEW c \in Client, CreateSet(c) PROVE HeatmapInv'
  <2>1. CASE row[call[c].job] = None
    <3> DEFINE f == [call[c] EXCEPT !.at = "create_zadd", !.data = None]
    <3>1. f.at = "create_zadd" /\ Enter(c, f)
      BY <1>6, <2>1 DEF CreateSet, Call
    <3>2. Rows'
      BY <1>1, <1>6, <2>1 DEF CreateSet, HeatmapInv, HeatmapBacked, Writing, Held
    <3> QED BY <1>2, <3>1, <3>2, EnterMoves
  <2>2. CASE row[call[c].job] # None
    BY <1>6, <1>4, <2>2 DEF CreateSet, Outcome
  <2> QED BY <2>1, <2>2
<1>7. ASSUME NEW c \in Client, UpdateGet(c) PROVE HeatmapInv'
  <2> DEFINE data == Merge(row[call[c].job], call[c].fields)
             f == [call[c] EXCEPT !.at = "update_set", !.fields = None, !.data = data]
  <2>1. call[c].fields \in Fields /\ call[c].job \in Job
    BY <1>7 DEF UpdateGet, FramesOK, FrameOK, InUpdate
  <2>2. CASE row[call[c].job] = None
    BY <1>7, <1>4, <2>2 DEF UpdateGet, Outcome
  <2>3. CASE row[call[c].job] # None
    <3>1. data.has_heatmap => row[call[c].job].has_heatmap \/ call[c].fields = Heatmap
      BY <2>1, <2>3, MergeType
    <3>2. data.has_heatmap => call[c].job \in heatmap'
      BY <1>1, <1>7, <2>1, <2>3, <3>1 DEF HeatmapInv, HeatmapBacked, UpdateGet
    <3>3. f.at = "update_set" /\ f.data = data /\ f.job = call[c].job
      BY DEF Call
    <3>4. Enter(c, f)
      BY <1>7, <2>3 DEF UpdateGet
    <3>5. UNCHANGED row
      BY <1>7 DEF UpdateGet
    <3>6. InFrame(f)
      BY <3>2, <3>3
    <3>7. call'[c] = f /\ \A d \in Client \ {c} : call'[d] = call[d]
      BY <3>4, EnterMoves
    <3>8. InFrame(call'[c])
      BY <3>6, <3>7
    <3> QED BY <1>2, <1>3, <3>5, <3>7, <3>8
  <2> QED BY <2>2, <2>3
<1>8. ASSUME NEW c \in Client, UpdateSet(c) PROVE HeatmapInv'
  <2> DEFINE f == [call[c] EXCEPT !.at = "update_confirm", !.data = None]
  <2>1. f.at = "update_confirm"
    BY DEF Call
  <2>2. Rows'
    BY <1>1, <1>8 DEF UpdateSet, HeatmapInv, HeatmapBacked, Writing, Held
  <2> QED BY <1>8, <1>2, <2>1, <2>2, EnterMoves DEF UpdateSet
<1>9. ASSUME NEW c \in Client, HeatmapSet(c) PROVE HeatmapInv'
  <2> DEFINE f == [call[c] EXCEPT !.at = "update_get", !.fields = Heatmap]
  <2>1. f.at = "update_get" /\ f.job = call[c].job /\ Enter(c, f)
    BY <1>9 DEF HeatmapSet, Call
  <2>2. call[c].job \in heatmap' /\ UNCHANGED row
    BY <1>9 DEF HeatmapSet
  <2> QED BY <1>2, <1>3, <2>1, <2>2, EnterMoves
<1>10. ASSUME NEW c \in Client, ListZrange(c) PROVE HeatmapInv'
  <2> DEFINE f == [call[c] EXCEPT !.at = "list_mget", !.ids = index]
  <2>1. f.at = "list_mget"
    BY DEF Call
  <2>2. UNCHANGED row /\ (Return(c, "ok") \/ Enter(c, f))
    BY <1>10 DEF ListZrange
  <2> QED BY <1>2, <1>3, <1>4, <2>1, <2>2, EnterMoves DEF Outcome
<1>11. ASSUME NEW c \in Client, ListMget(c) PROVE HeatmapInv'
  <2> DEFINE stale == {j \in call[c].ids : row[j] = None}
             f == [call[c] EXCEPT !.at = "list_zrem", !.ids = stale]
  <2>1. f.at = "list_zrem"
    BY DEF Call
  <2>2. UNCHANGED row /\ (Return(c, "ok") \/ Enter(c, f))
    BY <1>11 DEF ListMget
  <2> QED BY <1>2, <1>3, <1>4, <2>1, <2>2, EnterMoves DEF Outcome
<1>12. ASSUME NEW c \in Client, CreateZadd(c) \/ UpdateConfirm(c) \/ ListZrem(c) \/ Abandon(c)
      PROVE  HeatmapInv'
  BY <1>12, <1>4 DEF CreateZadd, UpdateConfirm, ListZrem, Abandon, Outcome
<1>13. ASSUME NEW j \in Job, Expire(j) PROVE HeatmapInv'
  BY <1>13 DEF Expire, ExpireRow, ExpireHeatmap, HeatmapInv, HeatmapBacked, Writing, Held
<1>14. CASE UNCHANGED storeVars
  BY <1>14 DEF storeVars, HeatmapInv, HeatmapBacked, Writing, Held
<1> QED BY <1>5, <1>6, <1>7, <1>8, <1>9, <1>10, <1>11, <1>12, <1>13, <1>14 DEF Next, Command

\* Without a heatmap TTL, a row that says it has a heatmap has one, whatever
\* updates overlap and however often the row itself expires.
THEOREM HeatmapsBacked == ASSUME HeatmapsExpire = FALSE PROVE Spec => []HeatmapBacked
PROOF
<1>1. Init => HeatmapInv
  BY DEF Init, HeatmapInv, HeatmapBacked, Writing, Blank
<1>2. TypeInv /\ HeatmapInv /\ [Next]_storeVars => HeatmapInv'
  BY HeatmapNext
<1>3. HeatmapInv => HeatmapBacked
  BY DEF HeatmapInv
<1> QED BY TypeInit, TypeNext, <1>1, <1>2, <1>3, PTL DEF Spec
=============================================================================
