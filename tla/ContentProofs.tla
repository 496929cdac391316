---------------------------- MODULE ContentProofs ----------------------------
(***************************************************************************)
(* Proofs about a content from its upload to its live playlists:           *)
(* UploadJobs for any number of uploads and re-encodings, LiveWorkers for  *)
(* any number of players, LiveLoop for any clips and any window.           *)
(***************************************************************************)
EXTENDS UploadJobs, LiveWorkers, LiveLoop, WellFoundedInduction, TLAPS

-----------------------------------------------------------------------------
(* The uploads and their encoding jobs.                                    *)

Stages == {"load", "resolve", "run", "failed", "done"}
Phases == {"new", "init", "ready", "append", "report", "valid", "invalid",
           "queue", "enqueue", "close", "gone"}

RowTypes ==
  /\ job \in [Jobs -> Statuses]
  /\ encodes \in [Jobs -> Sources]
  /\ row \in [Sources -> Files \cup {None}]
  /\ disk \in [Files -> Seq(Uploads \X Nat)]
  /\ meta \in [Uploads -> Files \cup {None}]
MemoryTypes ==
  /\ queue \in Seq(Jobs) /\ Len(queue) <= Capacity
  /\ waiting \in [Jobs -> Nat]
  /\ worker \in {Resting} \cup [pc : Stages, job : Jobs]
  /\ killed \in BOOLEAN
  /\ boot \subseteq Jobs
  /\ reset \in Jobs \cup {None}
  /\ encoded \in [Jobs -> 0 .. 2]
RequestTypes ==
  /\ pc \in [Uploads -> Phases]
  /\ sent \in [Uploads -> Nat]
  /\ \A u \in Uploads :
       sent[u] <= Size[u]
       /\ (pc[u] \in {"append", "report"} => sent[u] < Size[u])
  /\ op \in Requests
JobTypes == RowTypes /\ MemoryTypes /\ RequestTypes

USE DEF tables, files, queueVars, workerVars, bootVars, clientVars, opVars,
        ghosts, vars

(* The assumptions on the constants, taken apart.                          *)
LEMMA UploadConstants ==
  /\ \A u \in Uploads : Size[u] \in Nat \ {0}
  /\ Capacity \in Nat \ {0}
  /\ Clean \notin Jobs /\ Found \notin Jobs /\ None \notin Jobs
  /\ Uploads \cap Reencodes = {}
BY UploadAssumption DEF UploadAssumption, Jobs

LEMMA StatusTypes ==
  ASSUME job \in [Jobs -> Statuses], NEW j, NEW status \in Statuses,
         SetStatus(j, status)
  PROVE  job' \in [Jobs -> Statuses]
BY DEF SetStatus

LEMMA AppendTypes ==
  ASSUME queue \in Seq(Jobs), NEW j \in Jobs, Len(queue) < Capacity
  PROVE  Append(queue, j) \in Seq(Jobs) /\ Len(Append(queue, j)) <= Capacity
<1>1. Append(queue, j) \in Seq(Jobs) /\ Len(Append(queue, j)) = Len(queue) + 1
  OBVIOUS
<1>2. Len(queue) \in Nat /\ Capacity \in Nat
  BY UploadConstants
<1> QED  BY <1>1, <1>2

LEMMA DiskTypes ==
  ASSUME disk \in [Files -> Seq(Uploads \X Nat)], NEW f,
         NEW g, f \in Files => g \in Seq(Uploads \X Nat)
  PROVE  [disk EXCEPT ![f] = g] \in [Files -> Seq(Uploads \X Nat)]
OBVIOUS

LEMMA EnqueueTypes ==
  ASSUME queue \in Seq(Jobs), Len(queue) <= Capacity,
         waiting \in [Jobs -> Nat],
         NEW j \in Jobs, Enqueue(j)
  PROVE  queue' \in Seq(Jobs) /\ Len(queue') <= Capacity
         /\ waiting' \in [Jobs -> Nat]
<1>1. CASE Len(queue) < Capacity
  BY <1>1, AppendTypes DEF Enqueue
<1>2. CASE ~(Len(queue) < Capacity)
  BY <1>2 DEF Enqueue
<1> QED  BY <1>1, <1>2

(* The types of the variables, by the part of the program that keeps them: *)
(* the tables and files, the memory of the worker, the requests.           *)
LEMMA JobTypesInitially == Init => JobTypes
<1> SUFFICES ASSUME Init PROVE JobTypes
  OBVIOUS
<1>1. RowTypes
  BY DEF Init, RowTypes, Statuses, Active, Jobs, Sources, Files
<1>2. MemoryTypes
  <2>1. /\ << >> \in Seq(Jobs) /\ Len(<< >>) <= Capacity
        /\ [j \in Jobs |-> 0] \in [Jobs -> Nat]
        /\ [j \in Jobs |-> 0] \in [Jobs -> 0 .. 2]
    BY UploadConstants
  <2> QED  BY <2>1 DEF Init, MemoryTypes
<1>3. RequestTypes
  BY UploadConstants DEF Init, RequestTypes, Phases, Requests, NoRequest
<1> QED  BY <1>1, <1>2, <1>3 DEF JobTypes

LEMMA ClientTypes ==
  ASSUME JobTypes, NEW u \in Uploads, Client(u)
  PROVE  JobTypes'
<1> USE UploadConstants
    DEF JobTypes, RowTypes, MemoryTypes, RequestTypes, Goes, Phases
<1>1. CASE InitUpload(u)
  BY <1>1 DEF InitUpload, Statuses, Active, Jobs, Name, Files
<1>2. CASE SendChunk(u)
  BY <1>2 DEF SendChunk
<1>3. CASE Validate(u)
  BY <1>3 DEF Validate
<1>4. CASE GiveUp(u)
  BY <1>4 DEF GiveUp
<1> QED  BY <1>1, <1>2, <1>3, <1>4 DEF Client

LEMMA HandlerTypes ==
  ASSUME JobTypes, NEW u \in Uploads, Handler(u)
  PROVE  JobTypes'
<1> USE UploadConstants
    DEF JobTypes, RowTypes, MemoryTypes, RequestTypes, Goes, Phases
<1>0. u \in Jobs
  BY DEF Jobs
<1>1. CASE AnswerInit(u)
  BY <1>1 DEF AnswerInit
<1>2. CASE AppendChunk(u)
  <2>1. disk' \in [Files -> Seq(Uploads \X Nat)]
    <3>1. disk' = [disk EXCEPT ![meta[u]] =
                     Append(disk[meta[u]], <<u, sent[u] + 1>>)]
      BY <1>2 DEF AppendChunk
    <3>2. meta[u] \in Files
            => Append(disk[meta[u]], <<u, sent[u] + 1>>)
                 \in Seq(Uploads \X Nat)
      OBVIOUS
    <3> QED  BY <3>1, <3>2, DiskTypes
  <2> QED  BY <2>1, <1>2 DEF AppendChunk
<1>3. CASE ReportChunk(u)
  <2>1. job' \in [Jobs -> Statuses]
    BY <1>3, StatusTypes DEF ReportChunk, Statuses, Active
  <2> QED  BY <2>1, <1>3 DEF ReportChunk
<1>4. CASE RemoveInvalid(u)
  <2>1. disk' \in [Files -> Seq(Uploads \X Nat)]
    <3>1. disk' = [disk EXCEPT ![meta[u]] = << >>]
          /\ << >> \in Seq(Uploads \X Nat)
      BY <1>4 DEF RemoveInvalid
    <3> QED  BY <3>1, DiskTypes
  <2> QED  BY <2>1, <1>4 DEF RemoveInvalid
<1>5. CASE CreateSource(u)
  BY <1>5 DEF CreateSource
<1>6. CASE MarkQueued(u)
  <2>1. job' \in [Jobs -> Statuses]
    BY <1>6, StatusTypes DEF MarkQueued, Statuses, Active
  <2> QED  BY <2>1, <1>6 DEF MarkQueued
<1>7. CASE EnqueueUpload(u)
  <2>1. queue' \in Seq(Jobs) /\ Len(queue') <= Capacity
        /\ waiting' \in [Jobs -> Nat]
    BY <1>0, <1>7, EnqueueTypes DEF EnqueueUpload
  <2> QED  BY <2>1, <1>7 DEF EnqueueUpload
<1>8. CASE RemoveMetadata(u)
  BY <1>8 DEF RemoveMetadata
<1> QED  BY <1>1, <1>2, <1>3, <1>4, <1>5, <1>6, <1>7, <1>8 DEF Handler

LEMMA UnblockTypes ==
  ASSUME JobTypes, NEW j \in Jobs, Unblock(j)
  PROVE  JobTypes'
<1>1. queue' \in Seq(Jobs) /\ Len(queue') <= Capacity
  BY AppendTypes DEF JobTypes, MemoryTypes, Unblock
<1>2. waiting' \in [Jobs -> Nat]
  <2>1. waiting[j] - 1 \in Nat
    BY DEF JobTypes, MemoryTypes, Unblock
  <2> QED  BY <2>1 DEF JobTypes, MemoryTypes, Unblock
<1> QED
  BY <1>1, <1>2 DEF JobTypes, RowTypes, MemoryTypes, RequestTypes, Unblock

LEMMA WorkerTypes ==
  ASSUME JobTypes, WorkerStep \/ Progress
  PROVE  JobTypes'
<1> USE UploadConstants
    DEF JobTypes, RowTypes, MemoryTypes, RequestTypes, Stages
<1>1. CASE Take
  BY <1>1 DEF Take
<1>0. worker # Resting => worker.job \in Jobs
      /\ worker \in [pc : Stages, job : Jobs]
  OBVIOUS
<1>2. CASE Begin
  <2>1. job' \in [Jobs -> Statuses]
    BY <1>2, StatusTypes DEF Begin, Statuses, Active
  <2> QED  BY <2>1, <1>0, <1>2 DEF Begin, At
<1>3. CASE Resolve
  BY <1>0, <1>3 DEF Resolve, At
<1>4. CASE EncoderEnds
  BY <1>0, <1>4 DEF EncoderEnds, At
<1>5. CASE Finish
  <2>1. job' \in [Jobs -> Statuses]
    BY <1>5, StatusTypes DEF Finish, Statuses, Active
  <2>2. encoded' \in [Jobs -> 0 .. 2]
    <3>1. worker.job \in Jobs
      BY <1>0, <1>5 DEF Finish
    <3>2. encoded[worker.job] < 2 => encoded[worker.job] + 1 \in 0 .. 2
      <4>1. encoded[worker.job] \in 0 .. 2
        BY <3>1
      <4> QED  BY <4>1
    <3>3. encoded' \in {encoded, [encoded EXCEPT
                                  ![worker.job] = encoded[worker.job] + 1]}
          /\ (encoded' # encoded => encoded[worker.job] < 2)
      BY <1>5 DEF Finish
    <3> QED  BY <3>1, <3>2, <3>3
  <2> QED  BY <2>1, <2>2, <1>5 DEF Finish
<1>6. CASE Progress
  <2>1. job' \in [Jobs -> Statuses]
    BY <1>6, StatusTypes DEF Progress, Statuses, Active
  <2> QED  BY <2>1, <1>6 DEF Progress
<1> QED  BY <1>1, <1>2, <1>3, <1>4, <1>5, <1>6 DEF WorkerStep

LEMMA BootTypes ==
  ASSUME JobTypes, Boot \/ Crash
  PROVE  JobTypes'
<1> USE UploadConstants DEF JobTypes, RowTypes, MemoryTypes, RequestTypes
<1>1. ASSUME NEW j \in Jobs, Reset(j) PROVE JobTypes'
  <2>1. job' \in [Jobs -> Statuses]
    BY <1>1, StatusTypes DEF Reset, Statuses, Active
  <2> QED  BY <2>1, <1>1 DEF Reset
<1>2. CASE Requeue
  <2>1. queue' \in Seq(Jobs) /\ Len(queue') <= Capacity
        /\ waiting' \in [Jobs -> Nat]
    BY <1>2, EnqueueTypes DEF Requeue
  <2> QED  BY <2>1, <1>2 DEF Requeue
<1>3. CASE Crash
  <2>1. pc' \in [Uploads -> Phases] /\ sent' = sent
        /\ \A u \in Uploads : pc'[u] \notin {"append", "report"}
    BY <1>3 DEF Crash, Phases
  <2>2. op' \in Requests
    BY <1>3 DEF Crash, NoRequest, Requests
  <2>3. queue' = << >> /\ waiting' = [j \in Jobs |-> 0] /\ worker' = Resting
        /\ killed' = FALSE /\ reset' = None /\ encoded' = encoded
    BY <1>3 DEF Crash
  <2>4. boot' \subseteq Jobs
    BY <1>3 DEF Crash
  <2>5. MemoryTypes'
    <3>1. /\ << >> \in Seq(Jobs) /\ Len(<< >>) <= Capacity
          /\ [j \in Jobs |-> 0] \in [Jobs -> Nat]
      BY UploadConstants
    <3> QED  BY <2>3, <2>4, <3>1
  <2>6. RowTypes'
    BY <1>3 DEF Crash
  <2> QED  BY <2>1, <2>2, <2>5, <2>6
<1> QED  BY <1>1, <1>2, <1>3 DEF Boot

(* What the operator's requests carry.                                     *)
LEMMA RequestForms ==
  ASSUME op \in Requests
  PROVE  /\ op.what \in {"kill", "mark"}
              => op \in [what : {"kill", "mark"}, job : Jobs]
         /\ op.what \in {"unlink", "drop"}
              => op \in [what : {"unlink", "drop"}, source : Sources]
         /\ op.what \in {"create", "enqueue"}
              => op \in [what : {"create", "enqueue"}, job : Jobs,
                         source : Sources]
         /\ op.what = "index" => op.known \subseteq Files
BY DEF Requests

LEMMA OpTypes ==
  ASSUME JobTypes, OpStep
  PROVE  JobTypes'
<1> USE UploadConstants
    DEF JobTypes, RowTypes, MemoryTypes, RequestTypes, Elsewhere
<1>0. op \in Requests /\ NoRequest \in Requests
  BY DEF NoRequest, Requests
<1>1. CASE Kill
  <2>1. op' \in Requests
    BY <1>0, <1>1, RequestForms DEF Kill, Requests
  <2> QED  BY <2>1, <1>1 DEF Kill
<1>2. CASE MarkCancelled
  <2>1. job' \in [Jobs -> Statuses]
    BY <1>2, StatusTypes DEF MarkCancelled, Statuses, Active
  <2> QED  BY <2>1, <1>0, <1>2 DEF MarkCancelled
<1>3. CASE Unlink
  <2>1. op' \in Requests
    BY <1>0, <1>3, RequestForms DEF Unlink, Requests
  <2>2. disk' \in [Files -> Seq(Uploads \X Nat)]
    <3>1. disk' = [disk EXCEPT ![row[op.source]] = << >>]
          /\ << >> \in Seq(Uploads \X Nat)
      BY <1>3 DEF Unlink
    <3> QED  BY <3>1, DiskTypes
  <2> QED  BY <2>1, <2>2, <1>3 DEF Unlink
<1>4. CASE DropRow
  BY <1>0, <1>4 DEF DropRow
<1>5. CASE CreateJob
  <2>1. op' \in Requests
    BY <1>0, <1>5, RequestForms DEF CreateJob, Requests
  <2>2. op.source \in Sources
    BY <1>0, <1>5, RequestForms DEF CreateJob
  <2> QED  BY <2>1, <2>2, <1>5 DEF CreateJob, Statuses, Active
<1>6. CASE EnqueueReencode
  <2>1. op.job \in Jobs
    BY <1>0, <1>6, RequestForms DEF EnqueueReencode
  <2>2. queue' \in Seq(Jobs) /\ Len(queue') <= Capacity
        /\ waiting' \in [Jobs -> Nat]
    BY <2>1, <1>6, EnqueueTypes DEF EnqueueReencode
  <2> QED  BY <2>2, <1>0, <1>6 DEF EnqueueReencode
<1>7. CASE IndexFile
  <2>1. row' \in [Sources -> Files \cup {None}]
    <3>1. ASSUME NEW f \in Files, row' = [row EXCEPT ![Found] = f]
          PROVE  row' \in [Sources -> Files \cup {None}]
      BY <3>1
    <3> QED  BY <3>1, <1>7 DEF IndexFile
  <2> QED  BY <2>1, <1>0, <1>7 DEF IndexFile
<1> QED  BY <1>1, <1>2, <1>3, <1>4, <1>5, <1>6, <1>7 DEF OpStep

LEMMA AskTypes ==
  ASSUME JobTypes, Ask
  PROVE  JobTypes'
<1> USE UploadConstants DEF JobTypes, RowTypes, MemoryTypes, RequestTypes, Asks
<1>1. ASSUME NEW j \in Jobs, CancelJob(j) PROVE JobTypes'
  <2>1. [what |-> "kill", job |-> j] \in Requests
    BY DEF Requests
  <2> QED  BY <2>1, <1>1 DEF CancelJob
<1>2. ASSUME NEW j \in Jobs, DeleteJob(j) PROVE JobTypes'
  BY <1>2 DEF DeleteJob, Statuses
<1>3. ASSUME NEW s \in Sources, DeleteSource(s) PROVE JobTypes'
  <2>1. [what |-> "unlink", source |-> s] \in Requests
    BY DEF Requests
  <2> QED  BY <2>1, <1>3 DEF DeleteSource
<1>4. ASSUME NEW s \in Sources, NEW r \in Reencodes, Reencode(r, s)
      PROVE  JobTypes'
  <2>1. [what |-> "create", job |-> r, source |-> s] \in Requests
    BY DEF Requests, Jobs
  <2> QED  BY <2>1, <1>4 DEF Reencode
<1>5. CASE Scan
  <2>1. {row[s] : s \in Sources} \ {None} \subseteq Files
    OBVIOUS
  <2>2. [what |-> "index", known |-> {row[s] : s \in Sources} \ {None}]
          \in Requests
    BY <2>1 DEF Requests
  <2> QED  BY <2>2, <1>5 DEF Scan
<1> QED  BY <1>1, <1>2, <1>3, <1>4, <1>5 DEF Ask

LEMMA JobTypesKept == JobTypes /\ [Next]_vars => JobTypes'
<1> SUFFICES ASSUME JobTypes, [Next]_vars PROVE JobTypes'
  OBVIOUS
<1>1. CASE UNCHANGED vars
  BY <1>1 DEF JobTypes, RowTypes, MemoryTypes, RequestTypes
<1> QED
  BY <1>1, ClientTypes, HandlerTypes, UnblockTypes, WorkerTypes, BootTypes,
     AskTypes, OpTypes DEF Next

(***************************************************************************)
(* Rows, files, queue, requests and counts have their types for any        *)
(* uploads, sources, sizes and capacity of the queue.                      *)
(***************************************************************************)
THEOREM JobsTyped == Spec => []TypeOK
<1>1. JobTypes => TypeOK
  BY DEF JobTypes, RowTypes, MemoryTypes, RequestTypes, TypeOK, Stages, Phases
<1> QED  BY <1>1, JobTypesInitially, JobTypesKept, PTL DEF Spec

(* SetStatus touches one row, and no row that is missing or deleted.       *)
LEMMA StatusMoves ==
  ASSUME RowTypes, NEW j \in Jobs, NEW status, SetStatus(j, status),
         NEW k \in Jobs
  PROVE  /\ k # j \/ job[k] \in {"none", "deleted"} => job'[k] = job[k]
         /\ job[j] \notin {"none", "deleted"} => job'[j] = status
BY DEF SetStatus, RowTypes

RowsKept == \A j \in Jobs : job[j] \in {"none", "deleted"} => job'[j] = job[j]

(* No step of an upload, of the worker, of the boot or of the operator     *)
(* changes a deleted row, or starts a request without its row.             *)
LEMMA ClientRows ==
  ASSUME JobTypes, Unqueued, NEW u \in Uploads, Client(u) \/ Handler(u)
  PROVE  Unqueued' /\ \A j \in Jobs : job[j] = "deleted" => job'[j] = "deleted"
<1> USE DEF JobTypes, RowTypes, RequestTypes, Goes
<1>0. u \in Jobs /\ \A v \in Uploads : v \in Jobs
  BY DEF Jobs
<1>1. \A r \in Reencodes : r \in Jobs /\ r \notin Uploads
  BY UploadConstants DEF Jobs
<1>2. CASE InitUpload(u)
  BY <1>0, <1>1, <1>2 DEF InitUpload, Unqueued
<1>3. CASE SendChunk(u) \/ Validate(u) \/ GiveUp(u)
  BY <1>3 DEF SendChunk, Validate, GiveUp, Unqueued
<1>4. CASE AnswerInit(u) \/ AppendChunk(u) \/ RemoveInvalid(u)
           \/ CreateSource(u)
           \/ EnqueueUpload(u) \/ RemoveMetadata(u)
  BY <1>4
  DEF AnswerInit, AppendChunk, RemoveInvalid, CreateSource, EnqueueUpload,
      RemoveMetadata, Unqueued
<1>5. CASE ReportChunk(u) \/ MarkQueued(u)
  <2>1. RowsKept /\ UNCHANGED op
    BY <1>0, <1>5, StatusMoves DEF ReportChunk, MarkQueued, RowsKept
  <2>2. \A v \in Uploads : pc'[v] = "new" => pc[v] = "new"
    BY <1>5 DEF ReportChunk, MarkQueued
  <2> QED  BY <2>1, <2>2, <1>0, <1>1 DEF Unqueued, RowsKept
<1> QED  BY <1>2, <1>3, <1>4, <1>5 DEF Client, Handler

LEMMA ServerRows ==
  ASSUME JobTypes, Unqueued,
         (\E j \in Jobs : Unblock(j)) \/ WorkerStep \/ Progress \/ Boot
         \/ Crash
  PROVE  Unqueued' /\ \A j \in Jobs : job[j] = "deleted" => job'[j] = "deleted"
<1> USE DEF JobTypes, RowTypes, RequestTypes
<1>1. (\A u \in Uploads : u \in Jobs) /\ (\A r \in Reencodes : r \in Jobs)
  BY DEF Jobs
<1>2. worker # Resting => worker.job \in Jobs
  BY DEF MemoryTypes
<1>3. CASE (\E j \in Jobs : Unblock(j)) \/ Take \/ Resolve \/ EncoderEnds
           \/ Requeue
  BY <1>3 DEF Unblock, Take, Resolve, EncoderEnds, Requeue, Unqueued
<1>4. CASE Begin \/ Progress \/ Finish \/ \E j \in Jobs : Reset(j)
  <2>1. RowsKept
    BY <1>2, <1>4, StatusMoves DEF Begin, Progress, Finish, Reset, RowsKept
  <2>2. UNCHANGED <<pc, op>>
    BY <1>4 DEF Begin, Progress, Finish, Reset
  <2> QED  BY <2>1, <2>2, <1>1 DEF Unqueued, RowsKept
<1>5. CASE Crash
  BY <1>5 DEF Crash, Unqueued, NoRequest
<1> QED  BY <1>3, <1>4, <1>5 DEF WorkerStep, Boot, MemoryTypes

LEMMA OperatorRows ==
  ASSUME JobTypes, Unqueued, Ask \/ OpStep
  PROVE  Unqueued' /\ \A j \in Jobs : job[j] = "deleted" => job'[j] = "deleted"
<1> USE DEF JobTypes, RowTypes, RequestTypes
<1>1. (\A u \in Uploads : u \in Jobs)
      /\ (\A r \in Reencodes : r \in Jobs /\ r \notin Uploads)
  BY UploadConstants DEF Jobs
<1>2. CASE Ask
  <2>1. ASSUME NEW j \in Jobs, CancelJob(j)
        PROVE  UNCHANGED <<job, pc>> /\ op'.what = "kill"
    BY <2>1 DEF CancelJob, Asks
  <2>2. ASSUME NEW j \in Jobs, DeleteJob(j)
        PROVE  /\ UNCHANGED <<pc, op>> /\ op.what = "none"
               /\ \A k \in Jobs : job'[k] = job[k]
                  \/ (job[k] # "none" /\ job'[k] = "deleted")
    BY <2>2 DEF DeleteJob, NoRequest
  <2>3. ASSUME NEW s \in Sources, DeleteSource(s)
        PROVE  UNCHANGED <<job, pc>> /\ op'.what = "unlink"
    BY <2>3 DEF DeleteSource, Asks
  <2>4. ASSUME NEW s \in Sources, NEW r \in Reencodes, Reencode(r, s)
        PROVE  UNCHANGED <<job, pc>> /\ op'.what = "create" /\ op'.job = r
               /\ job[r] = "none"
    BY <2>4 DEF Reencode, Asks
  <2>5. CASE Scan
    BY <2>5 DEF Scan, Asks, Unqueued
  <2> QED  BY <1>1, <1>2, <2>1, <2>2, <2>3, <2>4, <2>5 DEF Ask, Unqueued
<1>3. CASE Kill \/ MarkCancelled \/ Unlink \/ DropRow \/ EnqueueReencode
           \/ IndexFile
  <2>1. RowsKept
    <3>1. op.what = "mark" => op.job \in Jobs
      BY RequestForms
    <3> QED
      BY <1>3, <3>1, StatusMoves
      DEF Kill, MarkCancelled, Unlink, DropRow, EnqueueReencode, IndexFile,
          RowsKept
  <2>2. UNCHANGED pc /\ op'.what \notin {"create", "enqueue"}
    <3>1. CASE Kill
      <4>1. op'.what = "mark"
        BY <3>1, RequestForms DEF Kill
      <4> QED  BY <3>1, <4>1 DEF Kill, Elsewhere
    <3>2. CASE Unlink
      <4>1. op'.what = "drop"
        BY <3>2, RequestForms DEF Unlink
      <4> QED  BY <3>2, <4>1 DEF Unlink, Elsewhere
    <3> QED
      BY <1>3, <3>1, <3>2
      DEF MarkCancelled, DropRow, EnqueueReencode, IndexFile, Elsewhere,
          NoRequest
  <2> QED  BY <2>1, <2>2, <1>1 DEF Unqueued, RowsKept
<1>4. CASE CreateJob
  BY <1>1, <1>4 DEF CreateJob, Elsewhere, Unqueued
<1> QED  BY <1>2, <1>3, <1>4 DEF OpStep

(* Together: the row of a request under way, and of a deleted job.         *)
LEMMA RowsStep ==
  JobTypes /\ Unqueued /\ [Next]_vars
    => Unqueued' /\ \A j \in Jobs : job[j] = "deleted" => job'[j] = "deleted"
<1> SUFFICES ASSUME JobTypes, Unqueued, [Next]_vars
             PROVE  Unqueued' /\ \A j \in Jobs : job[j] = "deleted"
                      => job'[j] = "deleted"
  OBVIOUS
<1>1. CASE UNCHANGED vars
  BY <1>1 DEF Unqueued
<1> QED  BY <1>1, ClientRows, ServerRows, OperatorRows DEF Next

LEMMA UnqueuedInitially == Init => Unqueued
BY DEF Init, Unqueued, NoRequest, Jobs

(***************************************************************************)
(* A deleted job stays deleted: SetStatus is an UPDATE and brings no row   *)
(* back, whatever a late chunk, the worker or a boot writes (db.go).       *)
(***************************************************************************)
THEOREM DeletedForGood == Spec => DeletedStays
<1>1. Init => JobTypes /\ Unqueued
  BY JobTypesInitially DEF Init, Unqueued, NoRequest, Jobs
<1>2. JobTypes /\ Unqueued /\ [Next]_vars => (JobTypes /\ Unqueued)'
  BY JobTypesKept, RowsStep
<1>3. JobTypes /\ Unqueued /\ [Next]_vars
        => [\A j \in Jobs : job[j] = "deleted" => job'[j] = "deleted"]_vars
  BY RowsStep
<1> QED  BY <1>1, <1>2, <1>3, PTL DEF Spec, DeletedStays

(***************************************************************************)
(* Queues.                                                                 *)
(***************************************************************************)
LEMMA AppendHolds ==
  ASSUME NEW q \in Seq(Jobs), NEW j \in Jobs, NEW k
  PROVE  Contains(Append(q, j), k) <=> Contains(q, k) \/ k = j
<1>1. /\ Len(Append(q, j)) = Len(q) + 1
      /\ \A i \in 1 .. Len(q) : Append(q, j)[i] = q[i]
      /\ Append(q, j)[Len(q) + 1] = j
  OBVIOUS
<1>2. ASSUME Contains(q, k) PROVE Contains(Append(q, j), k)
  BY <1>1, <1>2 DEF Contains
<1>3. ASSUME k = j PROVE Contains(Append(q, j), k)
  BY <1>1, <1>3 DEF Contains
<1>4. ASSUME Contains(Append(q, j), k), k # j PROVE Contains(q, k)
  <2>1. PICK i \in 1 .. Len(Append(q, j)) : Append(q, j)[i] = k
    BY <1>4 DEF Contains
  <2>2. i \in 1 .. Len(q)
    BY <1>1, <1>4, <2>1
  <2> QED  BY <1>1, <2>1, <2>2 DEF Contains
<1> QED  BY <1>2, <1>3, <1>4

LEMMA TailHolds ==
  ASSUME NEW q \in Seq(Jobs), q # << >>, NEW k
  PROVE  /\ Contains(Tail(q), k) => Contains(q, k)
         /\ Contains(q, k) => Contains(Tail(q), k) \/ k = Head(q)
         /\ Contains(q, Head(q)) /\ Head(q) \in Jobs /\ Tail(q) \in Seq(Jobs)
<1>1. /\ Len(q) \in Nat /\ Len(q) >= 1 /\ Len(Tail(q)) = Len(q) - 1
      /\ Head(q) = q[1]
      /\ \A i \in 1 .. Len(Tail(q)) : Tail(q)[i] = q[i + 1]
      /\ Head(q) \in Jobs /\ Tail(q) \in Seq(Jobs)
  OBVIOUS
<1>2. ASSUME Contains(Tail(q), k) PROVE Contains(q, k)
  <2>1. PICK i \in 1 .. Len(Tail(q)) : Tail(q)[i] = k
    BY <1>2 DEF Contains
  <2>2. i + 1 \in 1 .. Len(q) /\ q[i + 1] = k
    BY <1>1, <2>1
  <2> QED  BY <2>2 DEF Contains
<1>3. ASSUME Contains(q, k), k # Head(q) PROVE Contains(Tail(q), k)
  <2>1. PICK i \in 1 .. Len(q) : q[i] = k
    BY <1>3 DEF Contains
  <2>2. i - 1 \in 1 .. Len(Tail(q)) /\ Tail(q)[i - 1] = k
    BY <1>1, <1>3, <2>1
  <2> QED  BY <2>2 DEF Contains
<1>4. Contains(q, Head(q))
  BY <1>1 DEF Contains
<1> QED  BY <1>1, <1>2, <1>3, <1>4

LEMMA EnqueueHolds ==
  ASSUME MemoryTypes, NEW j \in Jobs, Enqueue(j), NEW k \in Jobs
  PROVE  (Contains(queue', k) \/ waiting'[k] > 0)
           <=> (Contains(queue, k) \/ waiting[k] > 0 \/ k = j)
<1>1. CASE Len(queue) < Capacity
  <2>1. queue' = Append(queue, j) /\ waiting' = waiting
    BY <1>1 DEF Enqueue
  <2>2. Contains(queue', k) <=> Contains(queue, k) \/ k = j
    BY <2>1, AppendHolds DEF MemoryTypes
  <2> QED  BY <2>1, <2>2
<1>2. CASE ~(Len(queue) < Capacity)
  <2>1. waiting[j] + 1 > 0 /\ waiting' = [waiting EXCEPT ![j] = waiting[j] + 1]
        /\ queue' = queue
    BY <1>2 DEF Enqueue, MemoryTypes
  <2> QED  BY <2>1 DEF MemoryTypes
<1> QED  BY <1>1, <1>2

LEMMA UnblockHolds ==
  ASSUME MemoryTypes, NEW j \in Jobs, Unblock(j), NEW k \in Jobs
  PROVE  (Contains(queue', k) \/ waiting'[k] > 0)
           <=> (Contains(queue, k) \/ waiting[k] > 0)
<1>1. queue' = Append(queue, j) /\ waiting[j] > 0
      /\ waiting' = [waiting EXCEPT ![j] = waiting[j] - 1]
  BY DEF Unblock
<1>2. Contains(queue', k) <=> Contains(queue, k) \/ k = j
  BY <1>1, AppendHolds DEF MemoryTypes
<1> QED  BY <1>1, <1>2 DEF MemoryTypes

-----------------------------------------------------------------------------
Tracked(j) ==
  /\ job[j] = "queued" => OnItsWay(j)
  /\ job[j] = "encoding" => Encoded(j) \/ j \in boot

(* Step by step, a job that a row calls queued or encoding has something   *)
(* that will come to it.                                                   *)
LEMMA ClientTracks ==
  ASSUME JobTypes, Unqueued, NEW u \in Uploads, Client(u) \/ Handler(u),
         NEW j \in Jobs, Tracked(j)
  PROVE  Tracked(j)'
<1> USE DEF JobTypes, RowTypes, RequestTypes, Goes
<1>0. u \in Jobs /\ \A v \in Uploads : v \in Jobs
  BY DEF Jobs
<1>1. CASE InitUpload(u)
  BY <1>0, <1>1 DEF InitUpload, Tracked, OnItsWay, Encoded
<1>2. CASE SendChunk(u) \/ Validate(u) \/ GiveUp(u)
  BY <1>2 DEF SendChunk, Validate, GiveUp, Tracked, OnItsWay, Encoded
<1>3. CASE AnswerInit(u) \/ AppendChunk(u) \/ RemoveInvalid(u)
           \/ CreateSource(u)
           \/ RemoveMetadata(u)
  BY <1>3
  DEF AnswerInit, AppendChunk, RemoveInvalid, CreateSource, RemoveMetadata,
      Tracked, OnItsWay, Encoded
<1>4. CASE ReportChunk(u)
  <2>1. job'[j] = job[j] \/ job'[j] = "uploading"
    BY <1>4 DEF ReportChunk, SetStatus
  <2> QED  BY <1>4, <2>1 DEF ReportChunk, Tracked, OnItsWay, Encoded
<1>5. CASE MarkQueued(u)
  <2>1. job'[j] = job[j] \/ (j = u /\ job'[j] = "queued")
    BY <1>0, <1>5, StatusMoves DEF MarkQueued
  <2>2. pc'[u] = "enqueue" /\ \A v \in Uploads : pc[v] = "enqueue"
          => pc'[v] = "enqueue"
    BY <1>5 DEF MarkQueued
  <2> QED  BY <1>5, <2>1, <2>2 DEF MarkQueued, Tracked, OnItsWay, Encoded
<1>6. CASE EnqueueUpload(u)
  <2>1. Contains(queue', j) \/ waiting'[j] > 0
          <=> Contains(queue, j) \/ waiting[j] > 0 \/ j = u
    BY <1>0, <1>6, EnqueueHolds DEF EnqueueUpload
  <2>2. j # u /\ j \in Uploads => pc'[j] = pc[j]
    BY <1>6 DEF EnqueueUpload
  <2> QED  BY <1>6, <2>1, <2>2 DEF EnqueueUpload, Tracked, OnItsWay, Encoded
<1> QED  BY <1>1, <1>2, <1>3, <1>4, <1>5, <1>6 DEF Client, Handler

LEMMA WorkerTracks ==
  ASSUME JobTypes, WorkerStep \/ Progress, NEW j \in Jobs, Tracked(j)
  PROVE  Tracked(j)'
<1> USE DEF JobTypes, RowTypes, RequestTypes
<1>0. worker # Resting => worker \in [pc : Stages, job : Jobs]
  BY DEF MemoryTypes
<1>1. CASE Take
  <2>1. Contains(queue, j) => Contains(queue', j) \/ j = Head(queue)
    BY <1>1, TailHolds DEF Take, MemoryTypes
  <2>2. job[j] = "queued" /\ j = Head(queue)
          => worker' = [pc |-> "load", job |-> j]
    BY <1>1 DEF Take
  <2>3. ~Encoded(j) /\ worker # [pc |-> "load", job |-> j]
    BY <1>1 DEF Take, Encoded, Resting
  <2> QED  BY <1>1, <2>1, <2>2, <2>3 DEF Take, Tracked, OnItsWay, Encoded
<1>2. CASE Begin
  <2>1. (job'[j] = job[j] /\ worker.job # j)
        \/ (worker.job = j /\ job'[j] # "queued")
    BY <1>0, <1>2, StatusMoves DEF Begin
  <2>2. worker' # Resting /\ worker'.job = worker.job /\ worker'.pc = "resolve"
    BY <1>0, <1>2 DEF Begin, At, Resting
  <2> QED  BY <1>2, <2>1, <2>2 DEF Begin, Tracked, OnItsWay, Encoded
<1>3. CASE Resolve \/ EncoderEnds
  <2>1. worker' # Resting /\ worker'.job = worker.job /\ worker # Resting
        /\ worker.pc # "load"
    BY <1>0, <1>3 DEF Resolve, EncoderEnds, At, Resting
  <2> QED  BY <1>3, <2>1 DEF Resolve, EncoderEnds, Tracked, OnItsWay, Encoded
<1>4. CASE Finish
  <2>1. (job'[j] = job[j] /\ worker.job # j)
        \/ (worker.job = j /\ job'[j] \notin {"queued", "encoding"})
    BY <1>0, <1>4, StatusMoves DEF Finish
  <2>2. worker # Resting /\ worker.pc # "load"
    BY <1>4 DEF Finish
  <2> QED  BY <1>4, <2>1, <2>2 DEF Finish, Tracked, OnItsWay, Encoded
<1>5. CASE Progress
  <2>1. job'[j] = job[j] \/ (worker.job = j /\ job'[j] = "encoding")
    BY <1>0, <1>5, StatusMoves DEF Progress
  <2> QED  BY <1>5, <2>1 DEF Progress, Tracked, OnItsWay, Encoded
<1> QED  BY <1>1, <1>2, <1>3, <1>4, <1>5 DEF WorkerStep

LEMMA ServerTracks ==
  ASSUME JobTypes, (\E i \in Jobs : Unblock(i)) \/ Boot \/ Crash,
         NEW j \in Jobs, Tracked(j)
  PROVE  Tracked(j)'
<1> USE DEF JobTypes, RowTypes, RequestTypes
<1>1. ASSUME NEW i \in Jobs, Unblock(i) PROVE Tracked(j)'
  <2>1. Contains(queue', j) \/ waiting'[j] > 0 <=> Contains(queue, j)
        \/ waiting[j] > 0
    BY <1>1, UnblockHolds
  <2> QED  BY <1>1, <2>1 DEF Unblock, Tracked, OnItsWay, Encoded
<1>2. ASSUME NEW i \in Jobs, Reset(i) PROVE Tracked(j)'
  <2>1. (job'[j] = job[j] /\ j # i) \/ (j = i /\ job'[j] # "encoding")
    BY <1>2, StatusMoves DEF Reset
  <2>2. i # None /\ j # None
    BY UploadConstants
  <2> QED  BY <1>2, <2>1, <2>2 DEF Reset, Tracked, OnItsWay, Encoded
<1>3. CASE Requeue
  <2>1. Contains(queue', j) \/ waiting'[j] > 0
          <=> Contains(queue, j) \/ waiting[j] > 0 \/ j = reset
    BY <1>3, EnqueueHolds DEF Requeue, MemoryTypes
  <2> QED  BY <1>3, <2>1 DEF Requeue, Tracked, OnItsWay, Encoded
<1>4. CASE Crash
  BY <1>4 DEF Crash, Interrupted, Active, Tracked, OnItsWay
<1> QED  BY <1>1, <1>2, <1>3, <1>4 DEF Boot

LEMMA OperatorTracks ==
  ASSUME JobTypes, Unqueued, Ask \/ OpStep, NEW j \in Jobs, Tracked(j)
  PROVE  Tracked(j)'
<1> USE DEF JobTypes, RowTypes, RequestTypes
<1>1. (\A r \in Reencodes : r \in Jobs /\ r \notin Uploads)
  BY UploadConstants DEF Jobs
<1>2. CASE Ask
  <2>1. /\ job'[j] = job[j] \/ job'[j] = "deleted"
        /\ op.what = "none"
        /\ UNCHANGED <<queue, waiting, worker, boot, reset, pc>>
    BY <1>2
    DEF Ask, CancelJob, DeleteJob, DeleteSource, Reencode, Scan, Asks,
        NoRequest
  <2> QED  BY <2>1 DEF Tracked, OnItsWay, Encoded
<1>3. CASE Kill \/ Unlink \/ DropRow \/ IndexFile \/ MarkCancelled
  <2>1. /\ job'[j] = job[j] \/ job'[j] = "cancelled"
        /\ op.what \notin {"create", "enqueue"}
        /\ UNCHANGED <<queue, waiting, worker, boot, reset, pc>>
    BY <1>3
    DEF Kill, Unlink, DropRow, IndexFile, MarkCancelled, SetStatus, Elsewhere
  <2> QED  BY <2>1 DEF Tracked, OnItsWay, Encoded
<1>4. CASE CreateJob
  <2>1. op.job \in Reencodes /\ op'.what = "enqueue" /\ op'.job = op.job
    BY <1>4, RequestForms DEF CreateJob, Unqueued
  <2> QED  BY <1>4, <2>1 DEF CreateJob, Elsewhere, Tracked, OnItsWay, Encoded
<1>5. CASE EnqueueReencode
  <2>1. op.job \in Jobs
    BY <1>1, <1>5 DEF EnqueueReencode, Unqueued
  <2>2. Contains(queue', j) \/ waiting'[j] > 0
          <=> Contains(queue, j) \/ waiting[j] > 0 \/ j = op.job
    BY <2>1, <1>5, EnqueueHolds DEF EnqueueReencode
  <2> QED  BY <1>5, <2>2 DEF EnqueueReencode, Tracked, OnItsWay, Encoded
<1> QED  BY <1>2, <1>3, <1>4, <1>5 DEF OpStep

LEMMA TrackedStep ==
  JobTypes /\ Unqueued /\ NoLostJob /\ [Next]_vars => NoLostJob'
<1> SUFFICES ASSUME JobTypes, Unqueued, NoLostJob, [Next]_vars, NEW j \in Jobs
             PROVE  Tracked(j)'
  BY DEF NoLostJob, Tracked
<1>1. Tracked(j)
  BY DEF NoLostJob, Tracked
<1>2. CASE UNCHANGED vars
  BY <1>1, <1>2 DEF Tracked, OnItsWay, Encoded
<1> QED
  BY <1>1, <1>2, ClientTracks, WorkerTracks, ServerTracks, OperatorTracks
  DEF Next

(***************************************************************************)
(* A job whose row says queued is in the queue, on its way to it, or found *)
(* by the next boot; one whose row says encoding is the worker's or the    *)
(* next boot's: across crashes, full queues and blocked requests.          *)
(***************************************************************************)
THEOREM NothingIsLost == Spec => []NoLostJob
<1>1. Init => NoLostJob
  BY DEF Init, NoLostJob
<1> QED
  BY <1>1, JobTypesInitially, JobTypesKept, UnqueuedInitially, RowsStep,
     TrackedStep, PTL DEF Spec

(* A job in one place is in no other; one that only leaves places is still *)
(* in one; one that arrives and leaves all others is in one.               *)
LEMMA Exclusive ==
  ASSUME NEW j, OnePlace(j), NEW s \in Places, Place(s, j)
  PROVE  \A t \in Places : Place(t, j) => t = s
BY DEF OnePlace

LEMMA Stays ==
  ASSUME NEW j, OnePlace(j), \A s \in Places : Place(s, j)' => Place(s, j)
  PROVE  OnePlace(j)'
BY DEF OnePlace

LEMMA Arrives ==
  ASSUME NEW j, NEW d, \A s \in Places : Place(s, j)' => s = d
  PROVE  OnePlace(j)'
BY DEF OnePlace

(* Places, status and counts of a job that a step leaves alone.            *)
LEMMA OnceKept ==
  ASSUME NEW j \in Jobs, Once(j),
         UNCHANGED <<queue, waiting, worker, boot, reset, encoded>>,
         job'[j] = job[j], j \in Uploads => pc'[j] = pc[j],
         UNCHANGED op \/ (op'.what \notin {"create", "enqueue"})
  PROVE  Once(j)'
<1>1. \A s \in Places : Place(s, j)' => Place(s, j)
  BY DEF Place, Encoded, Coming
<1>2. OnePlace(j)'
  BY <1>1, Stays DEF Once
<1>3. job[j] = "none" =>
       \A s \in Places : Place(s, j)' =>
         \/ s = "upload" /\ pc'[j] = "new"
         \/ s = "request" /\ op'.what = "create"
  BY <1>1 DEF Once, Fits, Place
<1> QED  BY <1>2, <1>3 DEF Once, Fits, QueuedOnce

(* A job that is queued once more, and was not there, is there once.       *)
LEMMA AppendOnce ==
  ASSUME NEW q \in Seq(Jobs), NEW i \in Jobs, NEW j \in Jobs,
         \A a, b \in 1 .. Len(q) : q[a] = j /\ q[b] = j => a = b,
         i = j => ~Contains(q, j)
  PROVE  \A a, b \in 1 .. Len(Append(q, i)) :
           Append(q, i)[a] = j /\ Append(q, i)[b] = j => a = b
<1>1. /\ Len(Append(q, i)) = Len(q) + 1
      /\ \A k \in 1 .. Len(q) : Append(q, i)[k] = q[k]
      /\ Append(q, i)[Len(q) + 1] = i
      /\ Len(q) \in Nat
  OBVIOUS
<1>2. i = j => \A k \in 1 .. Len(q) : q[k] # j
  BY DEF Contains
<1>3. \A k \in 1 .. Len(Append(q, i)) : k \in 1 .. Len(q) \/ k = Len(q) + 1
  BY <1>1
<1> QED  BY <1>1, <1>2, <1>3

(* The job taken from the queue is not left in it.                         *)
LEMMA TailOnce ==
  ASSUME NEW q \in Seq(Jobs), q # << >>, NEW j,
         \A a, b \in 1 .. Len(q) : q[a] = j /\ q[b] = j => a = b
  PROVE  /\ \A a, b \in 1 .. Len(Tail(q)) :
              Tail(q)[a] = j /\ Tail(q)[b] = j => a = b
         /\ Contains(Tail(q), j) => j # Head(q)
<1>1. /\ Len(q) \in Nat /\ Len(q) >= 1 /\ Len(Tail(q)) = Len(q) - 1
      /\ Head(q) = q[1]
      /\ \A i \in 1 .. Len(Tail(q)) : Tail(q)[i] = q[i + 1]
  OBVIOUS
<1>2. \A i \in 1 .. Len(Tail(q)) : i + 1 \in 1 .. Len(q) /\ i + 1 # 1
  BY <1>1
<1>3. ASSUME NEW a \in 1 .. Len(Tail(q)), NEW b \in 1 .. Len(Tail(q)),
             Tail(q)[a] = j, Tail(q)[b] = j
      PROVE  a = b
  <2>1. q[a + 1] = j /\ q[b + 1] = j
    BY <1>1, <1>3
  <2>2. a + 1 = b + 1
    BY <2>1, <1>2
  <2> QED  BY <2>2
<1>4. Contains(Tail(q), j) => j # Head(q)
  <2>1. SUFFICES ASSUME NEW i \in 1 .. Len(Tail(q)), Tail(q)[i] = j, q[1] = j
                 PROVE  FALSE
    BY <1>1 DEF Contains
  <2>2. q[i + 1] = j /\ i + 1 \in 1 .. Len(q) /\ 1 \in 1 .. Len(q)
    BY <1>1, <1>2, <2>1
  <2> QED  BY <2>1, <2>2, <1>2
<1> QED  BY <1>3, <1>4

(* A job that leaves place s for the queue or for those that wait.         *)
LEMMA EnqueueOnce ==
  ASSUME JobTypes, NEW i \in Jobs, Enqueue(i), NEW j \in Jobs, Once(j),
         UNCHANGED <<job, worker, boot, encoded>>,
         NEW s \in {"upload", "request", "reset"},
         i = j => Place(s, j) /\ ~Place(s, j)' /\ job[j] # "none",
         \A t \in {"upload", "request", "reset"} : Place(t, j)' => Place(t, j),
         j \in Uploads => pc'[j] = pc[j] \/ pc'[j] = "close",
         UNCHANGED op \/ op'.what = "none"
  PROVE  Once(j)'
<1> USE DEF JobTypes, MemoryTypes, Once
<1>1. \/ Len(queue) < Capacity /\ queue' = Append(queue, i)
         /\ waiting' = waiting
      \/ queue' = queue /\ waiting' = [waiting EXCEPT ![i] = waiting[i] + 1]
  BY DEF Enqueue
<1>2. Contains(queue', j) => Contains(queue, j) \/ j = i
  <2>1. queue \in Seq(Jobs)
    OBVIOUS
  <2>2. Contains(Append(queue, i), j) <=> Contains(queue, j) \/ j = i
    BY <2>1, AppendHolds
  <2>3. queue' = Append(queue, i) \/ queue' = queue
    BY <1>1
  <2>4. CASE queue' = Append(queue, i)
    BY <2>2, <2>4
  <2>5. CASE queue' = queue
    BY <2>5
  <2> QED  BY <2>3, <2>4, <2>5
<1>5. ASSUME i = j => ~Contains(queue, j)
      PROVE  \A a, b \in 1 .. Len(Append(queue, i)) :
               Append(queue, i)[a] = j /\ Append(queue, i)[b] = j => a = b
  BY <1>5, AppendOnce DEF QueuedOnce
<1>3. CASE i # j
  <2>1. waiting'[j] = waiting[j]
    BY <1>1, <1>3
  <2>2. \A t \in Places : Place(t, j)' => Place(t, j)
    BY <1>2, <1>3, <2>1 DEF Place, Encoded, Places
  <2>3. OnePlace(j)'
    BY <2>2, Stays
  <2>4. QueuedOnce(j)'
    BY <1>1, <1>3, <1>5 DEF QueuedOnce
  <2>5. job[j] = "none" =>
       \A t \in Places : Place(t, j)' =>
         \/ t = "upload" /\ pc'[j] = "new"
         \/ t = "request" /\ op'.what = "create"
    BY <2>2 DEF Fits, Place, Coming
  <2> QED  BY <2>1, <2>3, <2>4, <2>5 DEF Fits, Begun
<1>4. CASE i = j
  <2>1. \A t \in Places : Place(t, j) => t = s
    BY <1>4, Exclusive DEF Places
  <2>2. ~Contains(queue, j) /\ ~(waiting[j] > 0) /\ ~Encoded(j)
        /\ j \notin boot /\ ~(encoded[j] > 0)
    BY <2>1 DEF Place, Places
  <2>3. \A t \in {"upload", "request", "reset"} : ~Place(t, j)'
    BY <1>4, <2>1 DEF Places
  <2>4. OnePlace(j)' /\ waiting'[j] <= 1
    <3>1. CASE queue' = Append(queue, i) /\ waiting' = waiting
      <4>1. \A t \in Places : Place(t, j)' => t = "queue"
        BY <3>1, <2>2, <2>3 DEF Place, Places, Encoded
      <4> QED  BY <4>1, <3>1, Arrives
    <3>2. CASE queue' = queue
               /\ waiting' = [waiting EXCEPT ![i] = waiting[i] + 1]
      <4>1. \A t \in Places : Place(t, j)' => t = "waiting"
        BY <3>2, <2>2, <2>3 DEF Place, Places, Encoded
      <4>2. waiting[j] \in Nat /\ waiting'[j] = waiting[j] + 1
        BY <3>2, <1>4
      <4>3. waiting'[j] <= 1
        BY <4>2, <2>2
      <4> QED  BY <4>1, <4>3, Arrives
    <3> QED  BY <1>1, <3>1, <3>2
  <2>5. QueuedOnce(j)'
    BY <1>1, <1>5, <2>2 DEF QueuedOnce
  <2> QED  BY <1>4, <2>2, <2>4, <2>5 DEF Fits, Begun
<1> QED  BY <1>3, <1>4

(* Step by step, each job is in one place, and there once, unless a        *)
(* restart has queued it in the middle of its upload.                      *)
LEMMA ClientOnce ==
  ASSUME JobTypes, Unqueued, NEW u \in Uploads, Client(u) \/ Handler(u),
         NEW j \in Jobs, Once(j)
  PROVE  Once(j)'
<1> USE DEF JobTypes, RowTypes, RequestTypes, Goes
<1>0. u \in Jobs
  BY DEF Jobs
<1>1. CASE j # u /\ ~EnqueueUpload(u)
  <2>1. /\ UNCHANGED <<queue, waiting, worker, boot, reset, encoded, op>>
        /\ j \in Uploads => pc'[j] = pc[j]
    BY <1>1
    DEF Client, Handler, InitUpload, SendChunk, Validate, GiveUp, AnswerInit,
        AppendChunk, ReportChunk, RemoveInvalid, CreateSource, MarkQueued,
        RemoveMetadata
  <2>2. job'[j] = job[j]
    BY <1>1, <1>0
    DEF Client, Handler, InitUpload, SendChunk, Validate, GiveUp, AnswerInit,
        AppendChunk, ReportChunk, RemoveInvalid, CreateSource, MarkQueued,
        RemoveMetadata, SetStatus
  <2> QED  BY <2>1, <2>2, OnceKept
<1>2. CASE j = u /\ Coming(u) /\ ~EnqueueUpload(u)
  <2>1. Place("upload", u)
    BY <1>2 DEF Place
  <2>2. \A t \in Places : Place(t, u) => t = "upload"
    BY <1>2, <2>1, Exclusive DEF Places, Once
  <2>3. /\ UNCHANGED <<queue, waiting, worker, boot, reset, encoded, op>>
    BY <1>2
    DEF Client, Handler, InitUpload, SendChunk, Validate, GiveUp, AnswerInit,
        AppendChunk, ReportChunk, RemoveInvalid, CreateSource, MarkQueued,
        RemoveMetadata
  <2>4. \A t \in Places : Place(t, u)' => t = "upload"
    BY <2>2, <2>3 DEF Place, Encoded, Places
  <2>5. OnePlace(u)' /\ ~(encoded'[u] > 0)
    BY <2>2, <2>3, <2>4, Arrives DEF Place, Places
  <2>6. pc[u] \notin {"new"} => job[u] # "none"
    BY <1>2, <2>1 DEF Once, Fits, Places
  <2>7. Fits(u)'
    <3>1. CASE InitUpload(u)
      BY <3>1, <1>0, <2>5 DEF InitUpload, Fits, Active
    <3>2. CASE ReportChunk(u)
      BY <3>2, <1>0, <1>2, <2>5, <2>6
      DEF ReportChunk, SetStatus, Fits, Once, Begun
    <3>3. CASE MarkQueued(u)
      BY <3>3, <1>0, <1>2, <2>5, <2>6
      DEF MarkQueued, SetStatus, Fits, Once, Begun
    <3>4. CASE ~InitUpload(u) /\ ~ReportChunk(u) /\ ~MarkQueued(u)
      <4>1. job' = job /\ (pc[u] # "new" \/ pc'[u] = "new")
        BY <3>4, <1>2, <2>6
        DEF Client, Handler, SendChunk, Validate, GiveUp, AnswerInit,
            AppendChunk, RemoveInvalid, CreateSource, RemoveMetadata
      <4> QED
        BY <3>4, <4>1, <1>2, <2>5, <2>6
        DEF Client, Handler, SendChunk, Validate, GiveUp, AnswerInit,
            AppendChunk, RemoveInvalid, CreateSource, RemoveMetadata, Fits,
            Once, Begun
    <3> QED  BY <3>1, <3>2, <3>3, <3>4
  <2> QED  BY <1>2, <2>3, <2>5, <2>7 DEF Once, QueuedOnce
<1>3. CASE j = u /\ ~Coming(u)
  <2>1. RemoveMetadata(u) /\ pc[u] = "close"
    BY <1>3
    DEF Coming, Client, Handler, InitUpload, SendChunk, Validate, GiveUp,
        AnswerInit, AppendChunk, ReportChunk, RemoveInvalid, CreateSource,
        MarkQueued, EnqueueUpload, RemoveMetadata
  <2>2. \A t \in Places : Place(t, u)' => Place(t, u) /\ t # "upload"
    BY <2>1 DEF RemoveMetadata, Place, Encoded, Coming, Places
  <2>3. OnePlace(u)'
    BY <1>3, <2>2, Stays DEF Once
  <2> QED
    BY <1>3, <2>1, <2>2, <2>3 DEF RemoveMetadata, Once, Fits, QueuedOnce, Begun
<1>4. CASE EnqueueUpload(u)
  <2>1. pc[u] = "enqueue" /\ pc'[u] = "close"
        /\ \A v \in Uploads \ {u} : pc'[v] = pc[v]
    BY <1>4 DEF EnqueueUpload
  <2>2. Place("upload", u) /\ ~Place("upload", u)'
    BY <2>1 DEF Place, Coming
  <2>3. j = u => job[u] # "none"
    BY <2>1, <2>2 DEF Once, Fits, Places
  <2>4. \A t \in {"upload", "request", "reset"} : Place(t, j)' => Place(t, j)
    BY <1>4, <2>1 DEF EnqueueUpload, Place, Coming
  <2> QED  BY <1>0, <1>4, <2>1, <2>2, <2>3, <2>4, EnqueueOnce DEF EnqueueUpload
<1> QED  BY <1>1, <1>2, <1>3, <1>4

LEMMA WorkerOnce ==
  ASSUME JobTypes, WorkerStep \/ Progress, NEW j \in Jobs, Once(j)
  PROVE  Once(j)'
<1> USE DEF JobTypes, RowTypes, RequestTypes, MemoryTypes
<1>0. worker # Resting => worker \in [pc : Stages, job : Jobs]
      /\ worker.job \in Jobs
  OBVIOUS
<1>1. CASE Take
  <2>1. queue # << >> /\ queue' = Tail(queue) /\ worker = Resting
        /\ UNCHANGED <<job, waiting, boot, reset, encoded, pc, op>>
    BY <1>1 DEF Take
  <2>2. Encoded(j)' => j = Head(queue)
    BY <1>1 DEF Take, Encoded, Resting
  <2>3. QueuedOnce(j)'
        /\ (Contains(queue', j) => j # Head(queue) /\ Contains(queue, j))
    BY <2>1, TailOnce, TailHolds DEF Once, QueuedOnce
  <2>4. Place("queue", Head(queue)) /\ Head(queue) \in Jobs
    BY <2>1, TailHolds DEF Place
  <2>5. OnePlace(j)'
        /\ (job[j] = "none" => \A t \in Places : Place(t, j)' => Place(t, j))
    <3>1. CASE j # Head(queue)
      <4>1. \A t \in Places : Place(t, j)' => Place(t, j)
        BY <2>1, <2>2, <2>3, <3>1 DEF Place, Places, Coming
      <4> QED  BY <4>1, Stays DEF Once
    <3>2. CASE j = Head(queue)
      <4>1. \A t \in Places : Place(t, j) => t = "queue"
        BY <2>4, <3>2, Exclusive DEF Places, Once
      <4>2. \A t \in Places : Place(t, j)' => t = "worker"
        BY <2>1, <2>3, <3>2, <4>1 DEF Place, Places, Coming
      <4>3. job[j] # "none"
        BY <2>4, <3>2 DEF Once, Fits, Places
      <4> QED  BY <4>2, <4>3, Arrives
    <3> QED  BY <3>1, <3>2
  <2> QED  BY <2>1, <2>3, <2>5 DEF Once, Fits
<1>2. CASE Begin \/ Progress \/ Resolve \/ EncoderEnds
  <2>1. /\ UNCHANGED <<queue, waiting, boot, reset, encoded, pc, op>>
        /\ Encoded(j)' <=> Encoded(j)
        /\ worker # Resting
    BY <1>0, <1>2
    DEF Begin, Progress, Resolve, EncoderEnds, At, Encoded, Resting
  <2>2. \A t \in Places : Place(t, j)' <=> Place(t, j)
    BY <2>1 DEF Place, Places, Coming
  <2>3. OnePlace(j)'
    BY <2>2, Stays DEF Once
  <2>4. Fits(j)'
    <3>1. CASE Encoded(j)
      <4>1. Place("worker", j)
        BY <3>1 DEF Place
      <4>2. \A t \in Places : Place(t, j) => t = "worker"
        BY <4>1, Exclusive DEF Once, Places
      <4>3. job[j] # "none" /\ ~Place("upload", j) /\ ~Place("encoded", j)
        BY <4>1, <4>2 DEF Once, Fits, Places
      <4>4. ~(encoded[j] > 0) /\ (j \in Uploads => pc[j] \notin Begun)
        BY <4>3 DEF Place, Coming, Begun
      <4>5. job'[j] # "none"
        BY <1>0, <1>2, <4>3
        DEF Begin, Progress, Resolve, EncoderEnds, SetStatus
      <4> QED  BY <2>1, <4>4, <4>5 DEF Fits
    <3>2. CASE ~Encoded(j)
      <4>1. job'[j] = job[j]
        BY <1>0, <1>2, <3>2
        DEF Begin, Progress, Resolve, EncoderEnds, SetStatus, Encoded
      <4> QED  BY <2>1, <2>2, <4>1 DEF Once, Fits
    <3> QED  BY <3>1, <3>2
  <2> QED  BY <2>1, <2>3, <2>4 DEF Once, QueuedOnce
<1>3. CASE Finish
  <2>1. /\ UNCHANGED <<queue, waiting, boot, reset, pc, op>>
        /\ worker # Resting /\ worker' = Resting /\ ~Encoded(j)'
    BY <1>3 DEF Finish, Encoded
  <2>2. CASE ~Encoded(j)
    <3>1. job'[j] = job[j] /\ encoded'[j] = encoded[j]
      BY <1>0, <1>3, <2>1, <2>2 DEF Finish, SetStatus, Encoded
    <3>2. \A t \in Places : Place(t, j)' => Place(t, j)
      BY <2>1, <3>1 DEF Place, Places, Coming
    <3>3. OnePlace(j)'
      BY <3>2, Stays DEF Once
    <3> QED  BY <2>1, <3>1, <3>2, <3>3 DEF Once, Fits, QueuedOnce
  <2>3. CASE Encoded(j)
    <3>1. Place("worker", j)
      BY <2>3 DEF Place
    <3>2. \A t \in Places : Place(t, j) => t = "worker"
      BY <3>1, Exclusive DEF Once, Places
    <3>3. job[j] # "none" /\ ~Place("upload", j) /\ ~Place("encoded", j)
      BY <3>1, <3>2 DEF Once, Fits, Places
    <3>4. encoded[j] = 0 /\ (j \in Uploads => pc[j] \notin Begun)
      <4>1. encoded[j] \in 0 .. 2 /\ ~(encoded[j] > 0)
        BY <3>3 DEF Place
      <4>2. encoded[j] = 0
        BY <4>1
      <4> QED  BY <4>2, <3>3 DEF Place, Coming, Begun
    <3>5. job'[j] \notin Active \cup {"none"}
      BY <1>0, <1>3, <2>3, <3>3
      DEF Finish, SetStatus, Encoded, Active, Statuses
    <3>6. encoded'[j] \in {0, 1}
      BY <1>0, <1>3, <3>4 DEF Finish
    <3>7. \A t \in Places : Place(t, j)' => t = "encoded"
      BY <2>1, <3>2 DEF Place, Places, Coming
    <3>8. OnePlace(j)'
      BY <3>7, Arrives
    <3> QED  BY <2>1, <3>4, <3>5, <3>6, <3>8 DEF Once, Fits, QueuedOnce
  <2> QED  BY <2>2, <2>3
<1> QED  BY <1>1, <1>2, <1>3 DEF WorkerStep

LEMMA ServerOnce ==
  ASSUME JobTypes, Unqueued, (\E i \in Jobs : Unblock(i)) \/ Boot \/ Crash,
         NEW j \in Jobs, Once(j), j \notin revived'
  PROVE  Once(j)'
<1> USE DEF JobTypes, RowTypes, RequestTypes, MemoryTypes
<1>1. ASSUME NEW i \in Jobs, Unblock(i) PROVE Once(j)'
  <2>1. /\ queue' = Append(queue, i) /\ waiting[i] > 0
        /\ waiting' = [waiting EXCEPT ![i] = waiting[i] - 1]
        /\ UNCHANGED <<job, worker, boot, reset, encoded, pc, op>>
    BY <1>1 DEF Unblock
  <2>2. Contains(queue', j) => Contains(queue, j) \/ j = i
    BY <2>1, AppendHolds
  <2>3. CASE i # j
    <3>1. waiting'[j] = waiting[j]
      BY <2>1, <2>3
    <3>2. \A t \in Places : Place(t, j)' => Place(t, j)
      BY <2>1, <2>2, <2>3, <3>1 DEF Place, Encoded, Places, Coming
    <3>3. OnePlace(j)'
      BY <3>2, Stays DEF Once
    <3>4. \A a, b \in 1 .. Len(Append(queue, i)) :
             Append(queue, i)[a] = j /\ Append(queue, i)[b] = j => a = b
      BY <2>3, AppendOnce DEF Once, QueuedOnce
    <3> QED  BY <2>1, <3>1, <3>2, <3>3, <3>4 DEF Once, Fits, QueuedOnce
  <2>4. CASE i = j
    <3>1. Place("waiting", j)
      BY <2>1, <2>4 DEF Place
    <3>2. \A t \in Places : Place(t, j) => t = "waiting"
      BY <3>1, Exclusive DEF Once, Places
    <3>3. ~Contains(queue, j) /\ job[j] # "none"
      BY <3>1, <3>2 DEF Once, Fits, Place, Places
    <3>4. waiting'[j] = 0
      <4>1. waiting[j] \in Nat /\ waiting[j] > 0 /\ waiting[j] <= 1
        BY <2>1, <2>4 DEF Once
      <4> QED  BY <2>1, <2>4, <4>1
    <3>5. \A t \in Places : Place(t, j)' => t = "queue"
      BY <2>1, <3>2, <3>4 DEF Place, Places, Encoded, Coming
    <3>6. OnePlace(j)'
      BY <3>5, Arrives
    <3>7. \A a, b \in 1 .. Len(Append(queue, i)) :
             Append(queue, i)[a] = j /\ Append(queue, i)[b] = j => a = b
      BY <3>3, AppendOnce DEF Once, QueuedOnce
    <3> QED  BY <2>1, <3>3, <3>4, <3>6, <3>7 DEF Once, Fits, QueuedOnce
  <2> QED  BY <2>3, <2>4
<1>2. ASSUME NEW i \in Jobs, Reset(i) PROVE Once(j)'
  <2>1. /\ UNCHANGED <<queue, waiting, worker, encoded, pc, op>>
        /\ reset = None /\ i \in boot /\ boot' = boot \ {i} /\ reset' = i
    BY <1>2 DEF Reset
  <2>2. CASE i # j
    <3>1. job'[j] = job[j]
      BY <1>2, <2>2, StatusMoves DEF Reset
    <3>2. \A t \in Places : Place(t, j)' => Place(t, j)
      BY <2>1, <2>2 DEF Place, Encoded, Places, Coming
    <3>3. OnePlace(j)'
      BY <3>2, Stays DEF Once
    <3> QED  BY <2>1, <3>1, <3>2, <3>3 DEF Once, Fits, QueuedOnce
  <2>3. CASE i = j
    <3>1. Place("boot", j)
      BY <2>1, <2>3 DEF Place
    <3>2. \A t \in Places : Place(t, j) => t = "boot"
      BY <3>1, Exclusive DEF Once, Places
    <3>3. job[j] # "none" /\ ~(encoded[j] > 0)
          /\ (j \in Uploads => pc[j] \notin Begun)
      BY <3>1, <3>2 DEF Once, Fits, Place, Places, Coming, Begun
    <3>4. \A t \in Places : Place(t, j)' => t = "reset"
      BY <2>1, <2>3, <3>2 DEF Place, Places, Encoded, Coming
    <3>5. OnePlace(j)'
      BY <3>4, Arrives
    <3>6. job'[j] # "none"
      BY <1>2, <3>3, StatusMoves DEF Reset
    <3> QED  BY <2>1, <3>3, <3>5, <3>6 DEF Once, Fits, QueuedOnce
  <2> QED  BY <2>2, <2>3
<1>3. CASE Requeue
  <2>1. /\ reset \in Jobs /\ Enqueue(reset) /\ reset' = None
        /\ UNCHANGED <<job, worker, boot, encoded, pc, op>>
    BY <1>3 DEF Requeue
  <2>2. reset = j => Place("reset", j)
    BY DEF Place
  <2>3. ~Place("reset", j)'
    BY <2>1, UploadConstants DEF Place
  <2>4. reset = j => job[j] # "none"
    BY <2>2 DEF Once, Fits, Places
  <2>5. \A t \in {"upload", "request", "reset"} : Place(t, j)' => Place(t, j)
    BY <2>1, <2>3 DEF Place, Coming
  <2> QED  BY <2>1, <2>2, <2>3, <2>4, <2>5, EnqueueOnce
<1>4. CASE Crash
  <2>1. /\ UNCHANGED <<job, encoded>>
        /\ queue' = << >> /\ waiting' = [i \in Jobs |-> 0] /\ worker' = Resting
        /\ boot' = {i \in Jobs : job[i] \in Active} /\ reset' = None
        /\ pc' = [u \in Uploads |->
                    IF pc[u] \in {"new", "ready"} THEN pc[u] ELSE "gone"]
        /\ op'.what = "none"
    BY <1>4 DEF Crash, Interrupted, NoRequest
  <2>2. job[j] # "uploading"
    BY <1>4 DEF Crash
  <2>3. \A t \in Places : Place(t, j)' => t \in {"boot", "upload", "encoded"}
    BY <2>1, UploadConstants DEF Place, Places, Encoded, Contains
  <2>4. Place("boot", j)' => job[j] \in Active
    BY <2>1 DEF Place
  <2>5. Place("upload", j)' => /\ Place("upload", j) /\ j \in Uploads
                               /\ pc[j] \in {"new", "ready"} /\ pc'[j] = pc[j]
    BY <2>1 DEF Place, Coming
  <2>6. Place("encoded", j)' <=> Place("encoded", j)
    BY <2>1 DEF Place
  <2>7. Place("upload", j)' => job[j] \notin Active
    BY <2>2, <2>5 DEF Once, Fits, Begun, Active, Unqueued
  <2>8. Place("encoded", j)' => job[j] \notin Active
    BY <2>6 DEF Once, Fits, Place
  <2>9. OnePlace(j)'
    BY <2>3, <2>4, <2>5, <2>6, <2>7, <2>8 DEF Once, OnePlace, Places
  <2>10. Fits(j)'
    <3>1. job'[j] = "none" => \A t \in Places : Place(t, j)' => t = "upload"
          /\ pc'[j] = "new"
      BY <2>1, <2>3, <2>4, <2>5, <2>6 DEF Once, Fits, Active, Places
    <3>2. j \in Uploads /\ pc'[j] \in Begun => pc'[j] = pc[j]
      BY <2>1 DEF Begun
    <3> QED  BY <2>1, <3>1, <3>2 DEF Once, Fits
  <2> QED  BY <2>1, <2>9, <2>10 DEF Once, QueuedOnce
<1> QED  BY <1>1, <1>2, <1>3, <1>4 DEF Boot

LEMMA OperatorOnce ==
  ASSUME JobTypes, Unqueued, Ask \/ OpStep, NEW j \in Jobs, Once(j)
  PROVE  Once(j)'
<1> USE DEF JobTypes, RowTypes, RequestTypes, MemoryTypes
<1>0. \A r \in Reencodes : r \in Jobs /\ r \notin Uploads
  BY UploadConstants DEF Jobs
<1>1. ASSUME NEW i \in Jobs, CancelJob(i) PROVE Once(j)'
  BY <1>1, OnceKept DEF CancelJob, Asks
<1>2. ASSUME NEW i \in Jobs, DeleteJob(i) PROVE Once(j)'
  <2>1. /\ UNCHANGED <<queue, waiting, worker, boot, reset, encoded, pc, op>>
        /\ job'[j] = job[j] \/ job'[j] = "deleted"
    BY <1>2 DEF DeleteJob
  <2>2. CASE job'[j] = job[j]
    BY <2>1, <2>2, OnceKept
  <2>3. CASE job'[j] = "deleted"
    <3>1. \A t \in Places : Place(t, j)' => Place(t, j)
      BY <2>1 DEF Place, Encoded, Places, Coming
    <3>2. OnePlace(j)'
      BY <3>1, Stays DEF Once
    <3> QED  BY <2>1, <2>3, <3>2 DEF Once, Fits, QueuedOnce, Active
  <2> QED  BY <2>1, <2>2, <2>3
<1>3. ASSUME NEW s \in Sources, DeleteSource(s) PROVE Once(j)'
  BY <1>3, OnceKept DEF DeleteSource, Asks
<1>4. ASSUME NEW s \in Sources, NEW r \in Reencodes, Reencode(r, s)
      PROVE  Once(j)'
  <2>1. /\ UNCHANGED <<job, queue, waiting, worker, boot, reset, encoded, pc>>
        /\ op.what = "none" /\ job[r] = "none" /\ op'.what = "create"
        /\ op'.job = r
    BY <1>4 DEF Reencode, Asks, NoRequest
  <2>2. CASE r = j
    <3>1. \A t \in Places : ~Place(t, j)
      BY <2>1, <2>2, <1>0 DEF Once, Fits, Place
    <3>2. \A t \in Places : Place(t, j)' => t = "request"
      BY <2>1, <3>1 DEF Place, Encoded, Places, Coming
    <3>3. OnePlace(j)'
      BY <3>2, Arrives
    <3> QED  BY <2>1, <3>2, <3>3 DEF Once, Fits, QueuedOnce
  <2>3. CASE r # j
    <3>1. \A t \in Places : Place(t, j)' => Place(t, j) /\ t # "request"
      BY <2>1, <2>3 DEF Place, Encoded, Places, Coming
    <3>2. OnePlace(j)'
      BY <3>1, Stays DEF Once
    <3> QED  BY <2>1, <3>1, <3>2 DEF Once, Fits, QueuedOnce
  <2> QED  BY <2>2, <2>3
<1>5. CASE Scan
  BY <1>5, OnceKept DEF Scan, Asks
<1>6. CASE Kill \/ Unlink \/ DropRow \/ IndexFile
  <2>1. op'.what \notin {"create", "enqueue"}
    <3>1. Kill => op'.what = "mark"
      BY RequestForms DEF Kill
    <3>2. Unlink => op'.what = "drop"
      BY RequestForms DEF Unlink
    <3> QED  BY <1>6, <3>1, <3>2 DEF DropRow, IndexFile, NoRequest
  <2> QED
    BY <1>6, <2>1, OnceKept DEF Kill, Unlink, DropRow, IndexFile, Elsewhere
<1>7. CASE MarkCancelled
  <2>1. /\ UNCHANGED <<queue, waiting, worker, boot, reset, encoded, pc>>
        /\ op'.what = "none"
        /\ job'[j] = job[j] \/ (job'[j] = "cancelled" /\ job[j] # "none")
    BY <1>7 DEF MarkCancelled, SetStatus, Elsewhere, NoRequest
  <2>2. CASE job'[j] = job[j]
    BY <2>1, <2>2, OnceKept
  <2>3. CASE job'[j] = "cancelled"
    <3>1. \A t \in Places : Place(t, j)' => Place(t, j)
      BY <2>1 DEF Place, Encoded, Places, Coming
    <3>2. OnePlace(j)'
      BY <3>1, Stays DEF Once
    <3> QED  BY <2>1, <2>3, <3>2 DEF Once, Fits, QueuedOnce, Active
  <2> QED  BY <2>1, <2>2, <2>3
<1>8. CASE CreateJob
  <2>1. /\ UNCHANGED <<queue, waiting, worker, boot, reset, encoded, pc>>
        /\ op.what = "create" /\ op.job \in Reencodes
        /\ job' = [job EXCEPT ![op.job] = "queued"]
    BY <1>8 DEF CreateJob, Elsewhere, Unqueued
  <2>2. op'.what = "enqueue" /\ op'.job = op.job
    BY <1>8, RequestForms DEF CreateJob
  <2>3. \A t \in Places : Place(t, j)' => Place(t, j)
    BY <2>1, <2>2 DEF Place, Encoded, Places, Coming
  <2>4. OnePlace(j)'
    BY <2>3, Stays DEF Once
  <2>5. CASE j = op.job
    <3>1. Place("request", j)
      BY <2>1, <2>5 DEF Place
    <3>2. ~(encoded[j] > 0)
      BY <3>1, Exclusive DEF Once, Place, Places
    <3>3. job'[j] = "queued" /\ j \notin Uploads
      BY <2>1, <2>5, <1>0
    <3> QED  BY <2>1, <2>4, <3>2, <3>3 DEF Once, Fits, QueuedOnce
  <2>6. CASE j # op.job
    <3>1. job'[j] = job[j] /\ ~Place("request", j)'
      BY <2>1, <2>2, <2>6, <1>0 DEF Place
    <3> QED  BY <2>1, <2>3, <2>4, <3>1 DEF Once, Fits, QueuedOnce
  <2> QED  BY <2>5, <2>6
<1>9. CASE EnqueueReencode
  <2>1. /\ op.what = "enqueue" /\ op.job \in Reencodes /\ op.job \in Jobs
        /\ Enqueue(op.job) /\ op'.what = "none"
        /\ UNCHANGED <<job, worker, boot, reset, encoded, pc>>
    BY <1>0, <1>9 DEF EnqueueReencode, Unqueued, NoRequest
  <2>2. op.job = j => Place("request", j)
    BY <2>1 DEF Place
  <2>3. ~Place("request", j)'
    BY <2>1 DEF Place
  <2>4. op.job = j => job[j] # "none"
    BY <2>1, <2>2 DEF Once, Fits, Places
  <2>5. \A t \in {"upload", "request", "reset"} : Place(t, j)' => Place(t, j)
    BY <2>1, <2>3 DEF Place, Coming
  <2> QED  BY <2>1, <2>2, <2>3, <2>4, <2>5, EnqueueOnce
<1> QED
  BY <1>1, <1>2, <1>3, <1>4, <1>5, <1>6, <1>7, <1>8, <1>9 DEF Ask, OpStep

LEMMA OnceStep ==
  JobTypes /\ Unqueued /\ OnceEach /\ [Next]_vars => OnceEach'
<1> SUFFICES ASSUME JobTypes, Unqueued, OnceEach, [Next]_vars,
                    NEW j \in Jobs, j \notin revived'
             PROVE  Once(j)'
  BY DEF OnceEach
<1>1. revived \subseteq revived'
  BY DEF Next, Client, Handler, WorkerStep, Boot, Ask, OpStep, InitUpload,
         SendChunk, Validate, GiveUp, AnswerInit, AppendChunk, ReportChunk,
         RemoveInvalid, CreateSource, MarkQueued, EnqueueUpload,
         RemoveMetadata, Unblock, Take, Begin, Resolve, EncoderEnds, Finish,
         Progress, Reset, Requeue, Crash, CancelJob, DeleteJob, DeleteSource,
         Reencode, Scan, Kill, MarkCancelled, Unlink, DropRow, CreateJob,
         EnqueueReencode, IndexFile, Elsewhere
<1>2. Once(j)
  BY <1>1 DEF OnceEach
<1>3. CASE UNCHANGED vars
  BY <1>2, <1>3, OnceKept
<1> QED
  BY <1>2, <1>3, ClientOnce, WorkerOnce, ServerOnce, OperatorOnce DEF Next

LEMMA OnceInitially == Init => OnceEach
<1> SUFFICES ASSUME Init, NEW j \in Jobs PROVE Once(j)
  BY DEF OnceEach
<1>1. \A t \in Places : Place(t, j) => t = "upload" /\ j \in Uploads
      /\ pc[j] = "new"
  BY UploadConstants DEF Init, Place, Places, Encoded, Contains, NoRequest
<1> QED  BY <1>1 DEF Init, Once, OnePlace, Fits, QueuedOnce, Begun

(***************************************************************************)
(* No job is encoded twice but one that a restart queued in the middle of  *)
(* its upload: the worker, the requests that wait for room in the queue    *)
(* and the boot never hold the same job at once.                           *)
(***************************************************************************)
THEOREM EncodedAtMostOnce == Spec => []EncodedOnce
<1>1. OnceEach => EncodedOnce
  BY DEF OnceEach, EncodedOnce, Once
<1> QED
  BY <1>1, JobTypesInitially, JobTypesKept, UnqueuedInitially, RowsStep,
     OnceInitially, OnceStep, PTL DEF Spec

-----------------------------------------------------------------------------
(* A row is written before its job goes anywhere, and none is taken back.  *)
LEMMA RowsStay ==
  ASSUME JobTypes, Next, NEW j \in Jobs, job'[j] = "none"
  PROVE  job[j] = "none"
<1> USE DEF JobTypes, RowTypes
<1>1. ASSUME NEW k, NEW status, SetStatus(k, status), status # "none"
      PROVE  job[j] = "none"
  BY <1>1 DEF SetStatus
<1>2. ASSUME NEW u \in Uploads, Client(u) \/ Handler(u)
      PROVE  job[j] = "none"
  BY <1>1, <1>2
  DEF Client, Handler, InitUpload, SendChunk, Validate, GiveUp, AnswerInit,
      AppendChunk, ReportChunk, RemoveInvalid, CreateSource, MarkQueued,
      EnqueueUpload, RemoveMetadata
<1>3. CASE (\E k \in Jobs : Unblock(k)) \/ WorkerStep \/ Progress \/ Boot
           \/ Crash
  BY <1>1, <1>3
  DEF Unblock, WorkerStep, Take, Begin, Resolve, Progress, EncoderEnds, Finish,
      Boot, Reset, Requeue, Crash
<1>4. CASE Ask \/ OpStep
  BY <1>1, <1>4
  DEF Ask, CancelJob, DeleteJob, DeleteSource, Reencode, Scan, OpStep, Kill,
      MarkCancelled, Unlink, DropRow, CreateJob, EnqueueReencode, IndexFile
<1> QED  BY <1>2, <1>3, <1>4 DEF Next

LEMMA RowFirstKept ==
  JobTypes /\ Unqueued /\ RowFirst /\ [Next]_vars => RowFirst'
<1> SUFFICES ASSUME JobTypes, Unqueued, RowFirst, Next,
                    NEW j \in Jobs, job'[j] = "none"
             PROVE  /\ ~Contains(queue', j) /\ waiting'[j] = 0 /\ ~Encoded(j)'
                    /\ j \notin boot' \cup {reset'}
                    /\ j \in Uploads => pc'[j] = "new"
                    /\ op'.what = "enqueue" => op'.job # j
  BY DEF RowFirst, Encoded
<1> USE DEF JobTypes, RowTypes, MemoryTypes, RequestTypes
<1>1. job[j] = "none"
  BY RowsStay
<1>2. /\ ~Contains(queue, j) /\ waiting[j] = 0 /\ ~Encoded(j)
      /\ j \notin boot \cup {reset}
      /\ j \in Uploads => pc[j] = "new"
      /\ op.what = "enqueue" => op.job # j
  BY <1>1 DEF RowFirst
<1>3. ASSUME NEW k \in Jobs, Enqueue(k), k # j
      PROVE  ~Contains(queue', j) /\ waiting'[j] = 0
  <2>1. ~(Contains(queue', j) \/ waiting'[j] > 0)
    BY <1>2, <1>3, EnqueueHolds
  <2>2. waiting'[j] \in Nat
    BY <1>3, EnqueueTypes
  <2> QED  BY <2>1, <2>2
<1>4. ASSUME NEW u \in Uploads, Client(u) \/ Handler(u)
      PROVE  /\ ~Contains(queue', j) /\ waiting'[j] = 0 /\ ~Encoded(j)'
             /\ j \notin boot' \cup {reset'}
             /\ j \in Uploads => pc'[j] = "new"
             /\ op'.what = "enqueue" => op'.job # j
  <2>0. u \in Jobs
    BY DEF Jobs
  <2>1. j # u
    <3>1. CASE InitUpload(u)
      BY <3>1, <2>0 DEF InitUpload
    <3>2. CASE ~InitUpload(u)
      <4>1. pc[u] # "new"
        BY <3>2, <1>4
        DEF Client, Handler, SendChunk, Validate, GiveUp, AnswerInit,
            AppendChunk, ReportChunk, RemoveInvalid, CreateSource, MarkQueued,
            EnqueueUpload, RemoveMetadata
      <4> QED  BY <4>1, <1>2
    <3> QED  BY <3>1, <3>2
  <2>2. /\ UNCHANGED <<worker, boot, reset, op>>
        /\ j \in Uploads => pc'[j] = pc[j]
    BY <1>4, <2>1
    DEF Client, Handler, InitUpload, SendChunk, Validate, GiveUp, AnswerInit,
        AppendChunk, ReportChunk, RemoveInvalid, CreateSource, MarkQueued,
        EnqueueUpload, RemoveMetadata, Goes
  <2>3. ~Contains(queue', j) /\ waiting'[j] = 0
    <3>1. CASE EnqueueUpload(u)
      BY <3>1, <2>0, <2>1, <1>3 DEF EnqueueUpload
    <3>2. CASE ~EnqueueUpload(u)
      <4>1. UNCHANGED <<queue, waiting>>
        BY <3>2, <1>4
        DEF Client, Handler, InitUpload, SendChunk, Validate, GiveUp,
            AnswerInit, AppendChunk, ReportChunk, RemoveInvalid, CreateSource,
            MarkQueued, RemoveMetadata
      <4> QED  BY <4>1, <1>2
    <3> QED  BY <3>1, <3>2
  <2> QED  BY <2>2, <2>3, <1>2 DEF Encoded
<1>5. ASSUME NEW k \in Jobs, Unblock(k)
      PROVE  /\ ~Contains(queue', j) /\ waiting'[j] = 0 /\ ~Encoded(j)'
             /\ j \notin boot' \cup {reset'}
             /\ j \in Uploads => pc'[j] = "new"
             /\ op'.what = "enqueue" => op'.job # j
  <2>1. ~(Contains(queue', j) \/ waiting'[j] > 0)
    BY <1>2, <1>5, UnblockHolds
  <2>2. waiting'[j] = 0
    BY <2>1, <1>2, <1>5 DEF Unblock
  <2> QED  BY <2>1, <2>2, <1>2, <1>5 DEF Unblock, Encoded
<1>6. CASE WorkerStep \/ Progress
  <2>1. CASE Take
    <3>1. /\ queue # << >> /\ queue' = Tail(queue)
          /\ worker' \in {Resting, [pc |-> "load", job |-> Head(queue)]}
          /\ UNCHANGED <<waiting, boot, reset, pc, op>>
      BY <2>1 DEF Take
    <3>2. Contains(queue, Head(queue))
          /\ (Contains(queue', j) => Contains(queue, j))
      BY <3>1, TailHolds
    <3>3. Head(queue) # j
      BY <3>2, <1>2
    <3> QED  BY <3>1, <3>2, <3>3, <1>2 DEF Encoded, Resting
  <2>2. CASE ~Take
    <3>1. /\ UNCHANGED <<queue, waiting, boot, reset, pc, op>>
          /\ worker # Resting
          /\ worker' = Resting \/ (worker'.job = worker.job)
      BY <2>2, <1>6
      DEF WorkerStep, Progress, Begin, Resolve, EncoderEnds, Finish, At,
          Resting
    <3> QED  BY <3>1, <1>2 DEF Encoded
  <2> QED  BY <2>1, <2>2
<1>7. CASE Boot
  <2>1. ASSUME NEW k \in Jobs, Reset(k)
        PROVE  /\ UNCHANGED <<queue, waiting, worker, pc, op>>
               /\ boot' \subseteq boot /\ reset' \in boot
    BY <2>1 DEF Reset
  <2>2. CASE Requeue
    <3>1. /\ reset \in Jobs /\ reset # j /\ Enqueue(reset)
          /\ reset' = None /\ UNCHANGED <<worker, boot, pc, op>>
      BY <2>2, <1>2 DEF Requeue
    <3>2. ~Contains(queue', j) /\ waiting'[j] = 0
      BY <3>1, <1>3
    <3>3. None # j
      BY UploadConstants
    <3> QED  BY <3>1, <3>2, <3>3, <1>2 DEF Encoded
  <2> QED  BY <2>1, <2>2, <1>2, <1>7 DEF Boot, Encoded
<1>8. CASE Crash
  <2>1. /\ queue' = << >> /\ waiting'[j] = 0 /\ worker' = Resting
        /\ j \notin boot' /\ reset' = None /\ op'.what = "none"
        /\ j \in Uploads => pc'[j] = "new"
    BY <1>1, <1>2, <1>8 DEF Crash, Interrupted, Active, NoRequest
  <2> QED  BY <2>1, UploadConstants DEF Contains, Encoded
<1>9. CASE Ask \/ OpStep
  <2>1. CASE EnqueueReencode
    <3>1. /\ op.job \in Jobs /\ op.job # j /\ Enqueue(op.job)
          /\ op' = NoRequest /\ UNCHANGED <<worker, boot, reset, pc>>
      BY <2>1, <1>2, RequestForms DEF EnqueueReencode
    <3>2. ~Contains(queue', j) /\ waiting'[j] = 0
      BY <3>1, <1>3
    <3> QED  BY <3>1, <3>2, <1>2 DEF Encoded, NoRequest
  <2>2. CASE CreateJob
    <3>1. op.job \in Jobs /\ job' = [job EXCEPT ![op.job] = "queued"]
          /\ op'.job = op.job
          /\ UNCHANGED <<queue, waiting, worker, boot, reset, pc>>
      BY <2>2, RequestForms DEF CreateJob, Elsewhere
    <3>2. op.job # j
      BY <3>1
    <3> QED  BY <3>1, <3>2, <1>2 DEF Encoded
  <2>3. CASE ~EnqueueReencode /\ ~CreateJob
    <3>1. UNCHANGED <<queue, waiting, worker, boot, reset, pc>>
      BY <2>3, <1>9
      DEF Ask, CancelJob, DeleteJob, DeleteSource, Reencode, Scan, OpStep,
          Kill, MarkCancelled, Unlink, DropRow, IndexFile, Elsewhere, Asks
    <3>2. op'.what = "enqueue" => op' = op
      <4>1. CASE Kill \/ Unlink
        <5>1. op'.what \in {"mark", "drop"}
          BY <4>1, RequestForms DEF Kill, Unlink
        <5> QED  BY <5>1
      <4>2. CASE ~(Kill \/ Unlink)
        BY <2>3, <4>2, <1>9
        DEF Ask, CancelJob, DeleteJob, DeleteSource, Reencode, Scan, OpStep,
            MarkCancelled, DropRow, IndexFile, Asks, NoRequest
      <4> QED  BY <4>1, <4>2
    <3> QED  BY <3>1, <3>2, <1>2 DEF Encoded
  <2> QED  BY <2>1, <2>2, <2>3
<1> QED
  BY <1>4, <1>5, <1>6, <1>7, <1>8, <1>9 DEF Next

-----------------------------------------------------------------------------
(* The chunks a file holds.                                                *)
LEMMA HoldsNone == \A u : Holds(u, 0, << >>)
BY DEF Holds

LEMMA AppendsChunk ==
  ASSUME NEW s \in Seq(Uploads \X Nat), NEW c \in Uploads \X Nat
  PROVE  /\ Len(s) \in Nat /\ Len(Append(s, c)) = Len(s) + 1
         /\ \A i \in 1 .. Len(s) : Append(s, c)[i] = s[i]
         /\ Append(s, c)[Len(s) + 1] = c
         /\ \A i \in 1 .. Len(s) : s[i][2] \in Nat
OBVIOUS

LEMMA HoldsMore ==
  ASSUME NEW s \in Seq(Uploads \X Nat), NEW u \in Uploads, NEW n \in Nat,
         Holds(u, n, s)
  PROVE  Holds(u, n + 1, Append(s, <<u, n + 1>>))
<1> DEFINE t == Append(s, <<u, n + 1>>)
<1>1. /\ Len(s) \in Nat /\ Len(t) = Len(s) + 1
      /\ \A i \in 1 .. Len(s) : t[i] = s[i]
      /\ t[Len(s) + 1] = <<u, n + 1>>
      /\ \A i \in 1 .. Len(s) : s[i][2] \in Nat
  BY AppendsChunk
<1> HIDE DEF t
<1>2. \A i \in 1 .. Len(t) : i \in 1 .. Len(s) \/ i = Len(s) + 1
  BY <1>1
<1>3. ASSUME NEW k \in 1 .. (n + 1)
      PROVE  \E i \in 1 .. Len(t) : t[i][1] = u /\ t[i][2] = k
  <2>1. CASE k = n + 1
    <3>1. Len(s) + 1 \in 1 .. Len(t)
      BY <1>1
    <3> QED  BY <3>1, <2>1, <1>1
  <2>2. CASE k # n + 1
    <3>1. k \in 1 .. n
      BY <2>2
    <3>2. PICK i \in 1 .. Len(s) : s[i][1] = u /\ s[i][2] = k
      BY <3>1 DEF Holds
    <3>3. i \in 1 .. Len(t)
      BY <1>1
    <3> QED  BY <3>2, <3>3, <1>1
  <2> QED  BY <2>1, <2>2
<1>4. ASSUME NEW i \in 1 .. Len(t), t[i][1] = u
      PROVE  /\ t[i][2] \in 1 .. (n + 1)
             /\ i \in 1 .. Len(s) => t[i][2] \in 1 .. n
  <2>1. CASE i \in 1 .. Len(s)
    <3>1. s[i] = t[i] /\ s[i][2] \in 1 .. n
      BY <2>1, <1>1, <1>4 DEF Holds
    <3> QED  BY <3>1
  <2>2. CASE i = Len(s) + 1
    <3>1. t[i][2] = n + 1 /\ i \notin 1 .. Len(s)
      BY <2>2, <1>1
    <3> QED  BY <3>1
  <2> QED  BY <1>2, <2>1, <2>2
<1>5. ASSUME NEW i \in 1 .. Len(t), NEW k \in 1 .. Len(t), t[i][1] = u,
             t[k][1] = u, i < k
      PROVE  t[i][2] < t[k][2]
  <2>1. i \in 1 .. Len(s)
    BY <1>1, <1>5
  <2>2. CASE k \in 1 .. Len(s)
    BY <2>1, <2>2, <1>1, <1>5 DEF Holds
  <2>3. CASE k = Len(s) + 1
    <3>1. t[i][2] \in 1 .. n /\ t[k][2] = n + 1
      BY <2>1, <2>3, <1>1, <1>4, <1>5
    <3> QED  BY <3>1
  <2> QED  BY <1>2, <2>2, <2>3
<1> QED  BY <1>3, <1>4, <1>5 DEF Holds, t

LEMMA HoldsOthers ==
  ASSUME NEW s \in Seq(Uploads \X Nat), NEW c \in Uploads \X Nat, NEW u,
         c[1] # u, NEW n \in Nat, Holds(u, n, s)
  PROVE  Holds(u, n, Append(s, c))
<1> DEFINE t == Append(s, c)
<1>1. /\ Len(s) \in Nat /\ Len(t) = Len(s) + 1
      /\ \A i \in 1 .. Len(s) : t[i] = s[i]
      /\ t[Len(s) + 1] = c
  BY AppendsChunk
<1> HIDE DEF t
<1>2. \A i \in 1 .. Len(t) : t[i][1] = u => i \in 1 .. Len(s)
  BY <1>1
<1>3. \A i \in 1 .. Len(s) : i \in 1 .. Len(t)
  BY <1>1
<1> QED  BY <1>1, <1>2, <1>3 DEF Holds, t

(* What is whole stays whole while its upload takes no step: files are     *)
(* appended to by others, or removed.                                      *)
FromWhole(u) == FileHoldsSent(u) /\ SourceIsWhole(u) /\ EncoderReadsWhole(u)
Reads(u) ==
  worker # Resting /\ worker.pc \in {"run", "done"} /\ encodes[worker.job] = u
Kept(u) ==
  /\ removed \subseteq removed'
  /\ \A f \in Files, n \in Nat :
       Holds(u, n, disk[f])
         => \/ Holds(u, n, disk'[f])
            \/ f \in removed' /\ disk'[f] = << >>

LEMMA SameFiles ==
  ASSUME NEW u, UNCHANGED <<disk, removed>>
  PROVE  Kept(u)
BY DEF Kept

LEMMA OtherAppends ==
  ASSUME JobTypes, NEW u \in Uploads, NEW v \in Uploads, u # v, AppendChunk(v)
  PROVE  Kept(u)
<1> USE DEF JobTypes, RowTypes, RequestTypes
<1>1. /\ disk' = [disk EXCEPT ![meta[v]] =
                    Append(disk[meta[v]], <<v, sent[v] + 1>>)]
      /\ UNCHANGED removed
  BY DEF AppendChunk
<1>2. <<v, sent[v] + 1>> \in Uploads \X Nat /\ <<v, sent[v] + 1>>[1] # u
  OBVIOUS
<1>3. ASSUME NEW f \in Files, NEW n \in Nat, Holds(u, n, disk[f])
      PROVE  Holds(u, n, disk'[f])
  <2>1. CASE f = meta[v]
    <3>1. disk[f] \in Seq(Uploads \X Nat)
      OBVIOUS
    <3>2. Holds(u, n, Append(disk[f], <<v, sent[v] + 1>>))
      BY <3>1, <1>2, <1>3, HoldsOthers
    <3> QED  BY <2>1, <3>2, <1>1
  <2>2. CASE f # meta[v]
    BY <2>2, <1>1, <1>3
  <2> QED  BY <2>1, <2>2
<1> QED  BY <1>1, <1>3 DEF Kept

LEMMA FileRemoved ==
  ASSUME JobTypes, NEW u, NEW f, disk' = [disk EXCEPT ![f] = << >>],
         removed' = removed \cup {f}
  PROVE  Kept(u)
BY DEF Kept, JobTypes, RowTypes

LEMMA OthersKeepWhole ==
  ASSUME JobTypes, NEW u \in Uploads, FromWhole(u), Kept(u),
         pc'[u] = pc[u], sent'[u] = sent[u], meta'[u] = meta[u],
         row'[u] \in {row[u], None},
         Reads(u)' => Reads(u) /\ input' = input
  PROVE  FromWhole(u)'
<1> USE DEF JobTypes, RowTypes, RequestTypes
<1>1. OnDisk(u) \in Nat /\ OnDisk(u)' = OnDisk(u) /\ Size[u] \in Nat
  BY UploadConstants DEF OnDisk
<1>2. FileHoldsSent(u)'
  <2>1. \A f \in Files : Holds(u, 0, disk[f]) => Holds(u, 0, disk'[f])
    BY HoldsNone DEF Kept
  <2>2. pc[u] \in Sending
          => meta[u] \in Files
             /\ (Holds(u, OnDisk(u), disk'[meta[u]]) \/ meta[u] \in removed')
    BY <1>1 DEF FromWhole, FileHoldsSent, Kept
  <2> QED  BY <2>1, <2>2, <1>1 DEF FromWhole, FileHoldsSent
<1>3. SourceIsWhole(u)'
  <2>1. u \in Sources
    BY DEF Sources
  <2>2. row[u] # None => row[u] \in Files
    BY <2>1
  <2> QED  BY <2>2, <1>1 DEF FromWhole, SourceIsWhole, Kept
<1>4. EncoderReadsWhole(u)'
  BY DEF FromWhole, EncoderReadsWhole, Reads, Kept
<1> QED  BY <1>2, <1>3, <1>4 DEF FromWhole

(* An upload's own step.                                                   *)
LEMMA UploadKeepsWhole ==
  ASSUME JobTypes, NEW u \in Uploads, FromWhole(u), Client(u) \/ Handler(u)
  PROVE  FromWhole(u)'
<1> USE UploadConstants
    DEF JobTypes, RowTypes, RequestTypes, Goes, Sending, OnDisk
<1>0. /\ u \in Sources /\ Size[u] \in Nat /\ sent[u] \in Nat
      /\ FileHoldsSent(u) /\ SourceIsWhole(u) /\ EncoderReadsWhole(u)
  BY DEF FromWhole, Sources
<1>1. UNCHANGED <<worker, input, encodes>>
  BY DEF Client, Handler, InitUpload, SendChunk, Validate, GiveUp, AnswerInit,
         AppendChunk, ReportChunk, RemoveInvalid, CreateSource, MarkQueued,
         EnqueueUpload, RemoveMetadata
<1>2. CASE InitUpload(u)
  <2>1. meta'[u] \in Files
    BY <1>2 DEF InitUpload, Name, Files
  <2> QED
    BY <2>1, <1>0, <1>1, <1>2
    DEF InitUpload, FromWhole, FileHoldsSent, SourceIsWhole, EncoderReadsWhole
<1>3. CASE SendChunk(u) \/ AnswerInit(u) \/ ReportChunk(u)
  BY <1>0, <1>1, <1>3
  DEF SendChunk, AnswerInit, ReportChunk, FromWhole, FileHoldsSent,
      SourceIsWhole, EncoderReadsWhole
<1>4. CASE Validate(u) \/ GiveUp(u)
  BY <1>0, <1>1, <1>4
  DEF Validate, GiveUp, FromWhole, FileHoldsSent, SourceIsWhole,
      EncoderReadsWhole
<1>5. CASE AppendChunk(u)
  <2> DEFINE f == meta[u]  d == Append(disk[f], <<u, sent[u] + 1>>)
  <2>1. /\ pc[u] = "append" /\ pc' = [pc EXCEPT ![u] = "report"]
        /\ disk' = [disk EXCEPT ![f] = d]
        /\ UNCHANGED <<row, meta, sent, removed>>
    BY <1>5 DEF AppendChunk
  <2>2. f \in Files /\ (Holds(u, sent[u], disk[f]) \/ f \in removed)
    BY <2>1, <1>0 DEF FileHoldsSent
  <2>3. Holds(u, sent[u], disk[f]) => Holds(u, sent[u] + 1, d)
    BY <2>2, <1>0, HoldsMore
  <2>4. row[u] = None /\ ~Reads(u)
    BY <2>1, <1>0 DEF SourceIsWhole, EncoderReadsWhole, Reads
  <2>5. disk'[f] = d
    BY <2>1, <2>2
  <2> HIDE DEF f, d
  <2> QED
    BY <2>1, <2>2, <2>3, <2>4, <2>5, <1>1
    DEF f, FromWhole, FileHoldsSent, SourceIsWhole, EncoderReadsWhole, Reads
<1>6. CASE RemoveInvalid(u)
  BY <1>0, <1>1, <1>6
  DEF RemoveInvalid, FromWhole, FileHoldsSent, SourceIsWhole,
      EncoderReadsWhole
<1>7. CASE CreateSource(u)
  BY <1>0, <1>1, <1>7
  DEF CreateSource, FromWhole, FileHoldsSent, SourceIsWhole,
      EncoderReadsWhole
<1>8. CASE MarkQueued(u) \/ EnqueueUpload(u) \/ RemoveMetadata(u)
  BY <1>0, <1>1, <1>8
  DEF MarkQueued, EnqueueUpload, RemoveMetadata, FromWhole, FileHoldsSent,
      SourceIsWhole, EncoderReadsWhole
<1> QED  BY <1>2, <1>3, <1>4, <1>5, <1>6, <1>7, <1>8 DEF Client, Handler

LEMMA StepKeepsWhole ==
  ASSUME JobTypes, Unqueued, RowFirst, Next, NEW u \in Uploads, FromWhole(u)
  PROVE  FromWhole(u)'
<1> USE DEF JobTypes, RowTypes, MemoryTypes, RequestTypes
<1>0. u \in Sources /\ u # Found
  BY UploadConstants DEF Sources, Jobs
<1>1. ASSUME NEW v \in Uploads, Client(v) \/ Handler(v) PROVE FromWhole(u)'
  <2>1. CASE v = u
    BY <2>1, <1>1, UploadKeepsWhole
  <2>2. CASE v # u
    <3>1. /\ pc'[u] = pc[u] /\ sent'[u] = sent[u] /\ meta'[u] = meta[u]
          /\ row'[u] = row[u] /\ UNCHANGED <<worker, input, encodes>>
      <4>1. pc'[u] = pc[u]
        <5>1. PICK to : pc' = [pc EXCEPT ![v] = to]
          BY <1>1
          DEF Client, Handler, InitUpload, SendChunk, Validate, GiveUp,
              AnswerInit, AppendChunk, ReportChunk, RemoveInvalid,
              CreateSource, MarkQueued, EnqueueUpload, RemoveMetadata, Goes
        <5> QED  BY <5>1, <2>2
      <4>2. /\ sent' = sent \/ \E n : sent' = [sent EXCEPT ![v] = n]
            /\ meta' = meta \/ \E f : meta' = [meta EXCEPT ![v] = f]
            /\ row' = row \/ \E f : row' = [row EXCEPT ![v] = f]
            /\ UNCHANGED <<worker, input, encodes>>
        <5>1. CASE Client(v)
          BY <5>1
          DEF Client, InitUpload, SendChunk, Validate, GiveUp
        <5>2. CASE Handler(v)
          BY <5>2
          DEF Handler, AnswerInit, AppendChunk, ReportChunk, RemoveInvalid,
              CreateSource, MarkQueued, EnqueueUpload, RemoveMetadata
        <5> QED  BY <1>1, <5>1, <5>2
      <4>3. /\ sent'[u] = sent[u] /\ meta'[u] = meta[u] /\ row'[u] = row[u]
        <5>1. sent'[u] = sent[u]
          BY <4>2, <2>2
        <5>2. meta'[u] = meta[u]
          BY <4>2, <2>2
        <5>3. row'[u] = row[u]
          BY <4>2, <2>2, <1>0
        <5> QED  BY <5>1, <5>2, <5>3
      <4> QED  BY <4>1, <4>2, <4>3
    <3>2. Kept(u)
      <4>1. CASE AppendChunk(v)
        BY <4>1, <2>2, OtherAppends
      <4>2. CASE RemoveInvalid(v)
        BY <4>2, FileRemoved DEF RemoveInvalid
      <4>3. CASE ~AppendChunk(v) /\ ~RemoveInvalid(v)
        <5>1. UNCHANGED <<disk, removed>>
          BY <4>3, <1>1
          DEF Client, Handler, InitUpload, SendChunk, Validate, GiveUp,
              AnswerInit, ReportChunk, CreateSource, MarkQueued,
              EnqueueUpload, RemoveMetadata
        <5> QED  BY <5>1, SameFiles
      <4> QED  BY <4>1, <4>2, <4>3
    <3>3. Reads(u)' => Reads(u) /\ input' = input
      BY <3>1 DEF Reads
    <3> QED  BY <3>1, <3>2, <3>3, OthersKeepWhole
  <2> QED  BY <2>1, <2>2
<1>2. CASE Resolve
  <2>1. /\ worker # Resting /\ UNCHANGED <<row, disk, meta, pc, sent, encodes,
                                          removed>>
        /\ worker'.job = worker.job /\ worker' # Resting
        /\ worker'.pc \in {"run", "done"}
             => row[encodes[worker.job]] # None
                /\ input' = disk[row[encodes[worker.job]]]
    BY <1>2 DEF Resolve, At, Resting
  <2> QED
    BY <2>1
    DEF FromWhole, FileHoldsSent, SourceIsWhole, EncoderReadsWhole, OnDisk
<1>3. CASE (\E j \in Jobs : Unblock(j)) \/ Take \/ Begin \/ EncoderEnds
           \/ Finish \/ Progress \/ Boot
  <2>1. UNCHANGED <<row, disk, meta, pc, sent, encodes, removed>>
    BY <1>3
    DEF Unblock, Take, Begin, EncoderEnds, Finish, Progress, Boot, Reset,
        Requeue
  <2>2. Reads(u)' => Reads(u) /\ input' = input
    <3>1. CASE Take \/ Begin \/ Finish
      <4>1. worker' # Resting => worker'.pc \in {"load", "resolve"}
        BY <3>1 DEF Take, Begin, Finish, At
      <4> QED  BY <4>1 DEF Reads
    <3>2. CASE EncoderEnds
      <4>1. /\ worker # Resting /\ worker.pc = "run"
            /\ worker'.job = worker.job /\ UNCHANGED <<input, encodes>>
        BY <3>2 DEF EncoderEnds, At
      <4> QED  BY <4>1 DEF Reads
    <3>3. CASE (\E j \in Jobs : Unblock(j)) \/ Progress \/ Boot
      <4>1. UNCHANGED <<worker, input, encodes>>
        BY <3>3 DEF Unblock, Progress, Boot, Reset, Requeue
      <4> QED  BY <4>1 DEF Reads
    <3> QED  BY <1>3, <3>1, <3>2, <3>3
  <2> QED  BY <2>1, <2>2, SameFiles, OthersKeepWhole
<1>4. CASE Crash
  <2>1. /\ UNCHANGED <<row, disk, meta, sent, removed>> /\ worker' = Resting
        /\ pc'[u] = IF pc[u] \in {"new", "ready"} THEN pc[u] ELSE "gone"
    BY <1>4 DEF Crash
  <2> QED
    BY <2>1
    DEF FromWhole, FileHoldsSent, SourceIsWhole, EncoderReadsWhole, OnDisk,
        Sending
<1>5. CASE Ask
  <2>1. UNCHANGED <<row, disk, meta, pc, sent, removed, worker, input,
                    encodes>>
    BY <1>5
    DEF Ask, CancelJob, DeleteJob, DeleteSource, Reencode, Scan, Asks
  <2>2. Reads(u)' => Reads(u) /\ input' = input
    BY <2>1 DEF Reads
  <2> QED  BY <2>1, <2>2, SameFiles, OthersKeepWhole
<1>6. CASE OpStep
  <2>1. /\ UNCHANGED <<meta, pc, sent, worker, input>>
    BY <1>6
    DEF OpStep, Kill, MarkCancelled, Unlink, DropRow, CreateJob,
        EnqueueReencode, IndexFile, Elsewhere
  <2>2. Kept(u)
    <3>1. CASE Unlink
      BY <3>1, FileRemoved DEF Unlink
    <3>2. CASE ~Unlink
      <4>1. UNCHANGED <<disk, removed>>
        BY <3>2, <1>6
        DEF OpStep, Kill, MarkCancelled, DropRow, CreateJob,
            EnqueueReencode, IndexFile, Elsewhere
      <4> QED  BY <4>1, SameFiles
    <3> QED  BY <3>1, <3>2
  <2>3. row'[u] \in {row[u], None}
    BY <1>0, <1>6
    DEF OpStep, Kill, MarkCancelled, Unlink, DropRow, CreateJob,
        EnqueueReencode, IndexFile, Elsewhere
  <2>4. Reads(u)' => Reads(u)
    <3>1. CASE CreateJob
      <4>1. op.job \in Jobs /\ job[op.job] = "none"
            /\ encodes' = [encodes EXCEPT ![op.job] = op.source]
        BY <3>1, RequestForms DEF CreateJob, Unqueued
      <4>2. worker # Resting => worker.job # op.job
        BY <4>1 DEF RowFirst, Encoded
      <4>3. worker # Resting => worker.job \in Jobs
        OBVIOUS
      <4> QED  BY <4>1, <4>2, <4>3, <2>1 DEF Reads
    <3>2. CASE ~CreateJob
      <4>1. UNCHANGED encodes
        BY <3>2, <1>6
        DEF OpStep, Kill, MarkCancelled, Unlink, DropRow, EnqueueReencode,
            IndexFile, Elsewhere
      <4> QED  BY <4>1, <2>1 DEF Reads
    <3> QED  BY <3>1, <3>2
  <2> QED  BY <2>1, <2>2, <2>3, <2>4, OthersKeepWhole
<1> QED  BY <1>1, <1>2, <1>3, <1>4, <1>5, <1>6 DEF Next, WorkerStep

(***************************************************************************)
(* No job ends well on a part of its upload, whatever is cancelled,        *)
(* deleted or queued again by a restart: a source is created of a file     *)
(* that holds every chunk, and each file of the name keeps the chunks of   *)
(* each upload in order, unless it is removed.                             *)
(***************************************************************************)
THEOREM InputsAreWhole == Spec => []InputWhole
<1>1. Init => WholeInvariant
  <2>1. Init => RowFirst
    BY UploadConstants DEF Init, RowFirst, Contains, Encoded, NoRequest
  <2>2. ASSUME Init, NEW u \in Uploads
        PROVE  FileHoldsSent(u) /\ SourceIsWhole(u) /\ EncoderReadsWhole(u)
    BY <2>2, HoldsNone
    DEF Init, FileHoldsSent, SourceIsWhole, EncoderReadsWhole, Sources, Sending
  <2> QED  BY <2>1, <2>2 DEF WholeInvariant
<1>2. JobTypes /\ Unqueued /\ WholeInvariant /\ [Next]_vars => WholeInvariant'
  <2>1. ASSUME JobTypes, Unqueued, WholeInvariant, Next
        PROVE  WholeInvariant'
    <3>1. RowFirst'
      BY <2>1, RowFirstKept DEF WholeInvariant
    <3>2. \A u \in Uploads : FromWhole(u)'
      BY <2>1, StepKeepsWhole DEF WholeInvariant, FromWhole
    <3> QED  BY <3>1, <3>2 DEF WholeInvariant, FromWhole
  <2>2. ASSUME WholeInvariant, UNCHANGED vars PROVE WholeInvariant'
    BY <2>2
    DEF WholeInvariant, RowFirst, FileHoldsSent, SourceIsWhole,
        EncoderReadsWhole, Encoded, OnDisk
  <2> QED  BY <2>1, <2>2
<1>3. WholeInvariant => InputWhole
  BY DEF WholeInvariant, EncoderReadsWhole, InputWhole
<1> QED
  BY <1>1, <1>2, <1>3, JobTypesInitially, JobTypesKept, UnqueuedInitially,
     RowsStep, PTL DEF Spec

HIDE DEF tables, files, queueVars, workerVars, bootVars, clientVars, opVars,
         ghosts, vars

-----------------------------------------------------------------------------
(* A content's worker, its users and the reaper.                           *)

(***************************************************************************)
(* Nothing runs, nothing is listed and nothing is cached at first.         *)
(***************************************************************************)
LEMMA WorkersInitially == WorkersInit => WorkersInvariant
<1> SUFFICES ASSUME WorkersInit PROVE WorkersInvariant
  OBVIOUS
<1>1. WorkersTypeOK
  <2>1. /\ 0 \in 0 .. MaxLeaked /\ 0 \in 0 .. MaxStops /\ 0 \in 0 .. Old
        /\ NotMaking \in 0 .. NotMaking
    BY WorkersAssumption DEF NotMaking, Old
  <2>2. /\ {master, running, known, fed, raced} \subseteq BOOLEAN
        /\ phase \in {"none", "loading", "looping", "failed"}
        /\ call \in [Players -> {"away", "ask", "start", "record", "serve"}]
        /\ rpc \in {"wait", "stop", "untrack", "forget"}
    BY DEF WorkersInit
  <2> QED  BY <2>1, <2>2 DEF WorkersInit, WorkersTypeOK
<1>2. OneWorker /\ RunningIsKnown /\ UsersAreListed /\ StampedLate
      /\ ServedFresh
  BY WorkersAssumption
  DEF WorkersInit, OneWorker, RunningIsKnown, UsersAreListed, StampedLate,
      ServedFresh, Absent
<1> QED  BY <1>1, <1>2 DEF WorkersInvariant

(***************************************************************************)
(* What a lookup of the worker by a handler leads to.                      *)
(***************************************************************************)
LEMMA Lookups ==
  ASSUME WorkersInvariant, Spawn \/ AlreadyRunning
  PROVE  /\ {running', known', raced'} \subseteq BOOLEAN
         /\ phase' \in {"none", "loading", "looping", "failed"}
         /\ leaked' \in 0 .. MaxLeaked
         /\ running'
         /\ leaked' = 0 \/ raced'
         /\ known' \/ raced'
         /\ raced => raced'
         /\ rpc \in {"untrack", "forget"} => raced'
         /\ NeedsWorker \/ (running /\ raced' = raced)
<1>1. /\ {running, known, raced} \subseteq BOOLEAN
      /\ phase \in {"none", "loading", "looping", "failed"}
      /\ leaked \in 0 .. MaxLeaked /\ MaxLeaked \in Nat
      /\ leaked = 0 \/ raced
      /\ running => known \/ raced
      /\ rpc \in {"untrack", "forget"} => ~running \/ raced
  BY WorkersAssumption
  DEF WorkersInvariant, WorkersTypeOK, OneWorker, RunningIsKnown
<1>2. CASE Spawn
  <2>1. /\ NeedsWorker /\ running' = TRUE /\ known' = TRUE
        /\ phase' = "loading"
        /\ raced' = (raced \/ rpc \in {"untrack", "forget"})
        /\ leaked' = IF running /\ Alive THEN Min2(MaxLeaked, leaked + 1)
                       ELSE leaked
    BY <1>2 DEF Spawn
  <2>2. leaked' \in 0 .. MaxLeaked
    BY <1>1, <2>1 DEF Min2
  <2>3. leaked' = 0 \/ raced'
    BY <1>1, <2>1 DEF NeedsWorker
  <2> QED  BY <1>1, <2>1, <2>2, <2>3
<1>3. CASE AlreadyRunning
  BY <1>1, <1>3 DEF AlreadyRunning, NeedsWorker
<1> QED  BY <1>2, <1>3

(***************************************************************************)
(* A player that is not one of the worker's users moves on, or one of them *)
(* does without asking for its playlist, and the worker is left alone.     *)
(***************************************************************************)
LEMMA PlayerMoves ==
  ASSUME WorkersInvariant, NEW p \in Players,
         NEW to \in {"away", "ask", "start", "record", "serve"},
         call' = [call EXCEPT ![p] = to],
         p \in users => to \in {"start", "record", "serve"},
         p \in users /\ to \in {"record", "serve"} /\ ~raced
           => entry.present /\ entry.process,
         p \in users /\ to = "serve" /\ ~raced => entry.idle # Never,
         UNCHANGED <<master, processVars, stops, entry, rpc, mpdVars>>
  PROVE  WorkersInvariant'
<1> USE DEF processVars, mpdVars, raceGhosts
<1>1. WorkersTypeOK'
  BY DEF WorkersInvariant, WorkersTypeOK
<1>2. UsersAreListed'
  BY DEF WorkersInvariant, WorkersTypeOK, UsersAreListed, Players
<1> QED
  BY <1>1, <1>2
  DEF WorkersInvariant, OneWorker, RunningIsKnown, StampedLate, ServedFresh

(***************************************************************************)
(* The tracker's entry is kept or made anew, and loses nothing by that.    *)
(***************************************************************************)
LEMMA EntryParts ==
  ASSUME WorkersInvariant
  PROVE  /\ IdleTimeout \in Nat /\ Never = IdleTimeout + 1
         /\ entry.present => entry \in Entries
         /\ entry.present => entry.process \in BOOLEAN
            /\ entry.idle \in 0 .. Never
<1>1. entry \in Entries \/ entry = Absent
  BY DEF WorkersInvariant, WorkersTypeOK
<1>2. entry.present => entry \in Entries
  BY <1>1 DEF Absent
<1>3. entry \in Entries => entry.process \in BOOLEAN
      /\ entry.idle \in 0 .. Never
  BY DEF Entries
<1> QED  BY <1>2, <1>3, WorkersAssumption DEF Never

(* A handler records the use of the worker, or touches its entry.          *)
LEMMA EntryKept ==
  ASSUME WorkersInvariant, NEW p \in Players, NEW to \in {"record", "serve"},
         call' = [call EXCEPT ![p] = to],
         entry' \in Entries,
         entry.present /\ entry.process => entry'.process,
         entry.present /\ entry.idle # Never => entry'.idle # Never,
         p \in users /\ ~raced => entry'.process,
         to = "serve" => entry'.idle # Never,
         UNCHANGED <<master, stops, processVars, rpc, mpdVars>>
  PROVE  WorkersInvariant'
<1> USE DEF processVars, mpdVars, raceGhosts
<1>1. WorkersTypeOK'
  BY DEF WorkersInvariant, WorkersTypeOK
<1>2. entry'.present
  BY DEF Entries
<1>3. UsersAreListed'
  BY <1>2 DEF WorkersInvariant, WorkersTypeOK, UsersAreListed, Players
<1> QED
  BY <1>1, <1>3
  DEF WorkersInvariant, OneWorker, RunningIsKnown, StampedLate, ServedFresh

(* A handler's steps for one player.                                       *)
LEMMA PlayersKeep ==
  ASSUME WorkersInvariant, NEW p \in Players,
         Join(p) \/ Leave(p) \/ PlayerStep(p)
  PROVE  WorkersInvariant'
<1>t. WorkersTypeOK
/\ call \in [Players -> {"away", "ask", "start", "record", "serve"}]
  BY DEF WorkersInvariant, WorkersTypeOK
<1>u. p \in users => call[p] \in {"start", "record", "serve"}
  BY DEF WorkersInvariant, UsersAreListed
<1>1. CASE Join(p) \/ Leave(p)
  BY <1>1, <1>u, PlayerMoves DEF Join, Leave
<1>2. CASE EnsureForHls(p)
  <2>1. /\ p \in HlsPlayers /\ call' = [call EXCEPT ![p] = "start"]
        /\ Spawn \/ AlreadyRunning
        /\ users' = IF NeedsWorker THEN {p} ELSE users \cup {p}
        /\ fed' = ~NeedsWorker
        /\ UNCHANGED <<master, stops, entry, rpc, mpdVars>>
    BY <1>2 DEF EnsureForHls, Uses
  <2>2. /\ {running', known', raced'} \subseteq BOOLEAN
        /\ phase' \in {"none", "loading", "looping", "failed"}
        /\ leaked' \in 0 .. MaxLeaked
        /\ running' /\ (leaked' = 0 \/ raced') /\ (known' \/ raced')
        /\ raced => raced'
        /\ rpc \in {"untrack", "forget"} => raced'
    BY <2>1, Lookups
  <2>3. WorkersTypeOK'
    BY <1>t, <2>1, <2>2 DEF WorkersTypeOK, mpdVars
  <2>4. UsersAreListed'
    BY <1>t, <2>1, <2>2 DEF WorkersInvariant, UsersAreListed, Players
  <2> QED
    BY <2>1, <2>2, <2>3, <2>4
    DEF WorkersInvariant, OneWorker, RunningIsKnown, StampedLate, ServedFresh,
        mpdVars
<1>3. CASE EnsureForDash(p)
  <2>1. CASE ~master
    BY <1>3, <1>u, <2>1, PlayerMoves DEF EnsureForDash
  <2>2. CASE master
    <3>1. /\ p \in DashPlayers /\ call' = [call EXCEPT ![p] = "serve"]
          /\ Spawn \/ AlreadyRunning
          /\ users' = IF NeedsWorker THEN {} ELSE users
          /\ fed' = TRUE
          /\ UNCHANGED <<master, stops, entry, rpc, mpdVars>>
      BY <1>3, <2>2 DEF EnsureForDash, Uses
    <3>2. /\ {running', known', raced'} \subseteq BOOLEAN
          /\ phase' \in {"none", "loading", "looping", "failed"}
          /\ leaked' \in 0 .. MaxLeaked
          /\ running' /\ (leaked' = 0 \/ raced') /\ (known' \/ raced')
          /\ raced => raced'
          /\ rpc \in {"untrack", "forget"} => raced'
      BY <3>1, Lookups
    <3>3. WorkersTypeOK'
      BY <1>t, <3>1, <3>2 DEF WorkersTypeOK, mpdVars
    <3>4. p \notin users
      BY <1>t, <3>1, WorkersAssumption DEF WorkersTypeOK
    <3>5. UsersAreListed'
      BY <1>t, <3>1, <3>2, <3>4 DEF WorkersInvariant, UsersAreListed, Players
    <3> QED
      BY <3>1, <3>2, <3>3, <3>5
      DEF WorkersInvariant, OneWorker, RunningIsKnown, StampedLate,
          ServedFresh, mpdVars
  <2> QED  BY <1>t, <2>1, <2>2 DEF WorkersTypeOK
<1>4. CASE Track(p)
  <2>1. /\ entry' = [present |-> TRUE, process |-> TRUE,
                     idle |-> IF entry.present THEN entry.idle ELSE Never]
        /\ call' = [call EXCEPT ![p] = "record"]
        /\ UNCHANGED <<master, stops, processVars, rpc, mpdVars>>
    BY <1>4 DEF Track
  <2>2. entry' \in Entries
    BY <2>1, EntryParts DEF Entries
  <2> QED  BY <2>1, <2>2, EntryKept
<1>5. CASE Record(p)
  <2>1. /\ entry' = [present |-> TRUE, idle |-> 0,
                     process |-> entry.present /\ entry.process]
        /\ call[p] = "record" /\ call' = [call EXCEPT ![p] = "serve"]
        /\ UNCHANGED <<master, stops, processVars, rpc, mpdVars>>
    BY <1>5 DEF Record
  <2>2. (entry.present /\ entry.process) \in BOOLEAN /\ 0 \in 0 .. Never
        /\ 0 # Never
    BY EntryParts
  <2>3. entry' \in Entries /\ entry'.idle # Never
    BY <2>1, <2>2 DEF Entries
  <2>4. p \in users /\ ~raced => entry.present /\ entry.process
    BY <2>1 DEF WorkersInvariant, UsersAreListed
  <2> QED  BY <2>1, <2>3, <2>4, EntryKept
<1>6. CASE ServeHls(p)
  <2>1. /\ call' = [call EXCEPT ![p] = "ask"] /\ users' = users \ {p}
        /\ UNCHANGED <<master, stops, running, known, phase, fed, leaked,
                       raced, entry, rpc, mpdVars>>
    BY <1>6 DEF ServeHls
  <2>2. WorkersTypeOK'
    BY <1>t, <2>1 DEF WorkersTypeOK, mpdVars
  <2>3. UsersAreListed'
    BY <1>t, <2>1 DEF WorkersInvariant, WorkersTypeOK, UsersAreListed, Players
  <2> QED
    BY <2>1, <2>2, <2>3
    DEF WorkersInvariant, OneWorker, RunningIsKnown, StampedLate, ServedFresh,
        mpdVars
<1>7. CASE ServeDash(p)
  <2>1. /\ p \in DashPlayers /\ call' = [call EXCEPT ![p] = "ask"]
        /\ UNCHANGED <<master, stops, processVars, entry, rpc, making>>
    BY <1>7 DEF ServeDash
  <2>2. /\ {MaxAge, MaxStall} \subseteq Nat /\ Old = MaxAge + MaxStall + 1
        /\ cached \in Cache \/ ~cached.present
    BY <1>t, WorkersAssumption DEF WorkersTypeOK, Old, Absent
  <2>3. /\ served' \in 0 .. Old /\ served' <= MaxAge + MaxStall
        /\ cached' \in Cache \cup {Absent}
        /\ cached'.present => cached'.made <= cached'.stamp + MaxStall
    <3>1. CASE Fresh
      <4>1. served' = cached.made /\ cached' = cached
        BY <1>7, <3>1 DEF ServeDash
      <4>2. /\ cached.stamp <= MaxAge /\ cached.made <= cached.stamp + MaxStall
            /\ cached.made \in 0 .. Old /\ cached.stamp \in 0 .. Old
        BY <2>2, <3>1 DEF Fresh, Cache, WorkersInvariant, StampedLate
      <4> QED
        BY <1>t, <2>2, <4>1, <4>2
        DEF WorkersInvariant, WorkersTypeOK, StampedLate
    <3>2. CASE ~Fresh
      <4>1. served' = 0
            /\ cached' = [present |-> TRUE, made |-> 0, stamp |-> 0]
        BY <1>7, <3>2 DEF ServeDash
      <4> QED  BY <2>2, <4>1 DEF Cache
    <3> QED  BY <3>1, <3>2
  <2>4. p \notin users
    BY <1>t, <2>1, WorkersAssumption DEF WorkersTypeOK
  <2>5. WorkersTypeOK'
    BY <1>t, <2>1, <2>3 DEF WorkersTypeOK, processVars, raceGhosts
  <2>6. UsersAreListed'
    BY <1>t, <2>1, <2>4
    DEF WorkersInvariant, WorkersTypeOK, UsersAreListed, processVars,
        raceGhosts
  <2> QED
    BY <2>1, <2>3, <2>5, <2>6
    DEF WorkersInvariant, OneWorker, RunningIsKnown, StampedLate, ServedFresh,
        processVars, raceGhosts
<1> QED  BY <1>1, <1>2, <1>3, <1>4, <1>5, <1>6, <1>7 DEF PlayerStep

(***************************************************************************)
(* The worker's goroutine, the reaper and the clock.                       *)
(***************************************************************************)
LEMMA WorkerKeeps ==
  ASSUME WorkersInvariant, Load \/ Generate \/ Store
  PROVE  WorkersInvariant'
<1>t. WorkersTypeOK
  BY DEF WorkersInvariant
<1>1. CASE Load
  <2>1. WorkersTypeOK'
    BY <1>t, <1>1 DEF Load, WorkersTypeOK, mpdVars, raceGhosts
  <2> QED
    BY <1>1, <2>1
    DEF Load, WorkersInvariant, OneWorker, RunningIsKnown, UsersAreListed,
        StampedLate, ServedFresh, mpdVars, raceGhosts
<1>2. CASE Generate
  <2>1. making' = 0 /\ 0 \in 0 .. NotMaking
    BY <1>2, WorkersAssumption DEF Generate, NotMaking
  <2>2. WorkersTypeOK'
    BY <1>t, <1>2, <2>1 DEF Generate, WorkersTypeOK, processVars, raceGhosts
  <2> QED
    BY <1>2, <2>2
    DEF Generate, WorkersInvariant, OneWorker, RunningIsKnown, UsersAreListed,
        StampedLate, ServedFresh, processVars, raceGhosts
<1>3. CASE Store
  <2>1. /\ cached' = [present |-> TRUE, made |-> making, stamp |-> 0]
        /\ making' = NotMaking /\ making # NotMaking
        /\ UNCHANGED <<master, stops, processVars, entry, rpc, call, served>>
    BY <1>3 DEF Store
  <2>2. /\ making \in 0 .. MaxStall /\ making \in 0 .. Old /\ 0 \in 0 .. Old
        /\ NotMaking \in 0 .. NotMaking /\ making <= 0 + MaxStall
    BY <1>t, <2>1, WorkersAssumption DEF WorkersTypeOK, NotMaking, Old
  <2>3. WorkersTypeOK'
    BY <1>t, <2>1, <2>2 DEF WorkersTypeOK, Cache, processVars, raceGhosts
  <2>4. StampedLate'
    BY <2>1, <2>2 DEF StampedLate
  <2> QED
    BY <2>1, <2>3, <2>4
    DEF WorkersInvariant, OneWorker, RunningIsKnown, UsersAreListed,
        ServedFresh, processVars, raceGhosts
<1> QED  BY <1>1, <1>2, <1>3

(* The reaper stops the worker, then takes it off the list, then forgets   *)
(* it.                                                                     *)
LEMMA ReaperKeeps ==
  ASSUME WorkersInvariant, ReaperStep \/ Stop
  PROVE  WorkersInvariant'
<1> USE DEF processVars, mpdVars, raceGhosts
<1>t. WorkersTypeOK
  BY DEF WorkersInvariant
<1>1. CASE ListIdle
  <2>1. WorkersTypeOK'
    BY <1>t, <1>1 DEF ListIdle, WorkersTypeOK
  <2> QED
    BY <1>1, <2>1
    DEF ListIdle, WorkersInvariant, OneWorker, RunningIsKnown, UsersAreListed,
        StampedLate, ServedFresh
<1>2. CASE StopIdle \/ Stop
  <2>1. /\ running' = FALSE /\ phase' = "none" /\ users' = {}
        /\ stops' \in 0 .. MaxStops
        /\ rpc' \in {"untrack", rpc} /\ UNCHANGED <<known, fed, leaked, raced>>
        /\ UNCHANGED <<master, entry, call, mpdVars>>
    BY <1>t, <1>2, WorkersAssumption
    DEF StopIdle, Stop, ManagerStop, WorkersTypeOK
  <2>2. WorkersTypeOK'
    BY <1>t, <2>1 DEF WorkersTypeOK
  <2> QED
    BY <2>1, <2>2
    DEF WorkersInvariant, OneWorker, RunningIsKnown, UsersAreListed,
        StampedLate, ServedFresh
<1>3. CASE Untrack
  <2>1. WorkersTypeOK'
    BY <1>t, <1>3 DEF Untrack, WorkersTypeOK
  <2>2. raced \/ users = {}
    BY <1>3 DEF Untrack, WorkersInvariant, RunningIsKnown
  <2> QED
    BY <1>3, <2>1, <2>2
    DEF Untrack, WorkersInvariant, OneWorker, RunningIsKnown, UsersAreListed,
        StampedLate, ServedFresh
<1>4. CASE Forget
  <2>1. WorkersTypeOK'
    BY <1>t, <1>4 DEF Forget, WorkersTypeOK
  <2> QED
    BY <1>4, <2>1
    DEF Forget, WorkersInvariant, OneWorker, RunningIsKnown, UsersAreListed,
        StampedLate, ServedFresh
<1> QED  BY <1>1, <1>2, <1>3, <1>4 DEF ReaperStep

(* The clock: the MPD being made, the one cached and an idle worker grow   *)
(* older.                                                                  *)
LEMMA TickKeeps ==
  ASSUME WorkersInvariant, Tick
  PROVE  WorkersInvariant'
<1>t. WorkersTypeOK /\ {MaxAge, MaxStall} \subseteq Nat
  BY WorkersAssumption DEF WorkersInvariant
<1>1. /\ making' = IF making = NotMaking THEN making ELSE making + 1
      /\ making # NotMaking => making < MaxStall
      /\ entry' = IF entry.present /\ entry.idle < IdleTimeout
                  THEN [entry EXCEPT !.idle = @ + 1] ELSE entry
      /\ cached' = IF cached.present
                   THEN [cached EXCEPT !.made = Min2(Old, @ + 1),
                                       !.stamp = Min2(Old, @ + 1)]
                   ELSE cached
      /\ UNCHANGED <<master, stops, processVars, rpc, call, served>>
  BY DEF Tick
<1>2. making' \in 0 .. NotMaking
  BY <1>t, <1>1 DEF WorkersTypeOK, NotMaking
<1>3. /\ entry' \in Entries \cup {Absent}
      /\ entry.present => /\ entry'.present /\ entry'.process = entry.process
                         /\ (entry.idle # Never => entry'.idle # Never)
  <2>1. CASE entry.present /\ entry.idle < IdleTimeout
    <3>1. entry \in Entries /\ entry.idle \in 0 .. Never
          /\ Never = IdleTimeout + 1
          /\ IdleTimeout \in Nat
      BY <2>1, EntryParts
    <3>2. entry.idle + 1 \in 0 .. Never /\ entry.idle + 1 # Never
      BY <2>1, <3>1
    <3> QED  BY <1>1, <2>1, <3>1, <3>2 DEF Entries
  <2>2. CASE ~(entry.present /\ entry.idle < IdleTimeout)
    BY <1>t, <1>1, <2>2 DEF WorkersTypeOK
  <2> QED  BY <2>1, <2>2
<1>4. cached' \in Cache \cup {Absent} /\ StampedLate'
  <2>1. CASE cached.present
    <3>0. cached \in Cache
      BY <1>t, <2>1 DEF WorkersTypeOK, Absent
    <3>1. /\ cached.made \in 0 .. Old /\ cached.stamp \in 0 .. Old
          /\ cached.made <= cached.stamp + MaxStall
          /\ Old = MaxAge + MaxStall + 1
      BY <2>1, <3>0 DEF Cache, WorkersInvariant, StampedLate, Old
    <3> DEFINE older(n) == Min2(Old, n + 1)
    <3>2. /\ older(cached.made) \in 0 .. Old
          /\ older(cached.stamp) \in 0 .. Old
          /\ older(cached.made) <= older(cached.stamp) + MaxStall
      BY <1>t, <3>1 DEF Min2
    <3>3. cached' = [cached EXCEPT !.made = older(cached.made),
                                   !.stamp = older(cached.stamp)]
      BY <1>1, <2>1
    <3> HIDE DEF older
    <3> QED  BY <3>0, <3>2, <3>3 DEF Cache, StampedLate
  <2>2. CASE ~cached.present
    BY <1>t, <1>1, <2>2 DEF WorkersTypeOK, StampedLate
  <2> QED  BY <2>1, <2>2
<1>5. WorkersTypeOK'
  BY <1>t, <1>1, <1>2, <1>3, <1>4 DEF WorkersTypeOK, processVars, raceGhosts
<1>6. UsersAreListed'
  BY <1>1, <1>3 DEF WorkersInvariant, UsersAreListed, processVars, raceGhosts
<1> QED
  BY <1>1, <1>4, <1>5, <1>6
  DEF WorkersInvariant, OneWorker, RunningIsKnown, ServedFresh, processVars,
      raceGhosts

(* Every step of players, worker, reaper and clock keeps the invariant.    *)
LEMMA WorkersNextKeeps ==
  WorkersInvariant /\ [WorkersNext]_workersVars => WorkersInvariant'
<1> SUFFICES ASSUME WorkersInvariant, [WorkersNext]_workersVars
             PROVE  WorkersInvariant'
  OBVIOUS
<1>1. CASE UNCHANGED workersVars
  <2>1. WorkersTypeOK'
    BY <1>1
    DEF workersVars, processVars, mpdVars, raceGhosts, WorkersInvariant,
        WorkersTypeOK
  <2> QED
    BY <1>1, <2>1
    DEF workersVars, processVars, mpdVars, raceGhosts, WorkersInvariant,
        OneWorker, RunningIsKnown, UsersAreListed, StampedLate, ServedFresh
<1> QED
  BY <1>1, PlayersKeep, WorkerKeeps, ReaperKeeps, TickKeeps DEF WorkersNext

(***************************************************************************)
(* A content's worker, those who use it, its entry in the idle tracker and *)
(* the cached MPD stay in step, whatever the order of the handlers, the    *)
(* reaper and the clock (ensureHLSWorker, StartIdleReaper).                *)
(***************************************************************************)
THEOREM WorkersInvariance == WorkersSpec => []WorkersInvariant
BY WorkersInitially, WorkersNextKeeps, PTL DEF WorkersSpec

(***************************************************************************)
(* No worker is left running that the Manager cannot stop, but for a       *)
(* request that came between the reaper's stopping and its forgetting.     *)
(***************************************************************************)
THEOREM NoneLeftRunning == WorkersSpec => []OneWorker
BY WorkersInvariance, PTL DEF WorkersInvariant

(***************************************************************************)
(* A running worker whose playlist is being served is listed for the       *)
(* reaper.                                                                 *)
(***************************************************************************)
THEOREM ReaperCanStop == WorkersSpec => []ServedIsTracked
<1>1. WorkersInvariant => ServedIsTracked
  BY DEF WorkersInvariant, UsersAreListed, ServedIsTracked
<1> QED  BY <1>1, WorkersInvariance, PTL

(***************************************************************************)
(* No MPD is served that is older than the cache's limit and the worker's  *)
(* stall.                                                                  *)
(***************************************************************************)
THEOREM MpdIsFresh == WorkersSpec => []ServedFresh
BY WorkersInvariance, PTL DEF WorkersInvariant

(***************************************************************************)
(* What a request that goes on leads to.  The entry has just been used     *)
(* when that was at most a tick ago, or nobody has been recorded since it  *)
(* was made.                                                               *)
(***************************************************************************)
JustUsed == entry.present => entry.idle \in {0, 1, Never}

StoppedIsFree == phase = "none" => ~running

LEMMA RequestsGoOn ==
  ASSUME WorkersInvariant, [WorkersNext]_workersVars, NEW p \in HlsPlayers
  PROVE  /\ call[p] = "ask" => \/ call'[p] \in {"ask", "away"}
                               \/ EnsureForHls(p) /\ call'[p] = "start"
         /\ call[p] = "start" => call'[p] \in {"start", "record"}
         /\ call[p] = "record" => \/ call'[p] = "record"
                                  \/ call'[p] = "serve" /\ JustUsed'
         /\ call[p] = "serve" => call'[p] \in {"serve", "ask"}
<1>1. call \in [Players -> {"away", "ask", "start", "record", "serve"}]
      /\ p \in Players /\ p \notin DashPlayers
  BY WorkersAssumption DEF WorkersInvariant, WorkersTypeOK, Players
<1>2. CASE call'[p] = call[p]
  BY <1>1, <1>2
<1>3. CASE call'[p] # call[p]
  <2>1. Join(p) \/ Leave(p) \/ PlayerStep(p)
    <3>1. ASSUME NEW q \in Players, q # p, Join(q) \/ Leave(q) \/ PlayerStep(q)
          PROVE  call'[p] = call[p]
      BY <1>1, <3>1
      DEF Join, Leave, PlayerStep, EnsureForHls, EnsureForDash, Track, Record,
          ServeHls, ServeDash
    <3>2. UNCHANGED call
          \/ \E q \in Players : Join(q) \/ Leave(q) \/ PlayerStep(q)
      BY DEF WorkersNext, workersVars, Load, Generate, Store, ReaperStep,
             ListIdle, StopIdle, Untrack, Forget, Stop, Tick
    <3> QED  BY <1>3, <3>1, <3>2
  <2>2. CASE Join(p) \/ Leave(p)
    BY <1>1, <2>2 DEF Join, Leave
  <2>3. CASE EnsureForHls(p)
    BY <1>1, <2>3 DEF EnsureForHls
  <2>4. CASE Track(p)
    BY <1>1, <2>4 DEF Track
  <2>5. CASE Record(p)
    BY <1>1, <2>5 DEF Record, JustUsed
  <2>6. CASE ServeHls(p)
    BY <1>1, <2>6 DEF ServeHls
  <2> QED
    BY <1>1, <2>1, <2>2, <2>3, <2>4, <2>5, <2>6
    DEF PlayerStep, EnsureForDash, ServeDash
<1> QED  BY <1>2, <1>3

LEMMA RequestsMove ==
  ASSUME WorkersInvariant, NEW p \in HlsPlayers, PlayerStep(p)
  PROVE  call'[p] # call[p]
<1>1. call \in [Players -> {"away", "ask", "start", "record", "serve"}]
      /\ p \in Players
  BY DEF WorkersInvariant, WorkersTypeOK, Players
<1> QED
  BY <1>1
  DEF PlayerStep, EnsureForHls, EnsureForDash, Track, Record, ServeHls,
      ServeDash

(* While a player stays, time does not make such an entry an idle one.     *)
LEMMA StaysJustUsed ==
  ASSUME WorkersInvariant, [WorkersNext]_workersVars, NEW p \in HlsPlayers,
         call[p] # "away", JustUsed
  PROVE  JustUsed'
<1>1. IdleTimeout \in Nat /\ Never = IdleTimeout + 1 /\ IdleTimeout # 0
  BY WorkersAssumption DEF Never
<1>2. CASE UNCHANGED entry
  BY <1>2, <1>1 DEF JustUsed
<1>3. ASSUME NEW q \in Players, Track(q) PROVE JustUsed'
  BY <1>1, <1>3 DEF Track, JustUsed
<1>4. ASSUME NEW q \in Players, Record(q) PROVE JustUsed'
  BY <1>4 DEF Record, JustUsed
<1>5. CASE Untrack
  BY <1>5 DEF Untrack, JustUsed, Absent
<1>6. CASE Tick
  <2>1. entry.present /\ entry.idle = 0
    BY <1>6 DEF Tick
  <2>2. entry \in Entries
    BY <2>1 DEF WorkersInvariant, WorkersTypeOK, Absent
  <2>3. entry' = [entry EXCEPT !.idle = entry.idle + 1]
    BY <1>1, <1>6, <2>1 DEF Tick
  <2> QED  BY <2>1, <2>2, <2>3 DEF Entries, JustUsed
<1> QED
  BY <1>2, <1>3, <1>4, <1>5, <1>6
  DEF WorkersNext, workersVars, Join, Leave, PlayerStep, EnsureForHls,
      EnsureForDash, ServeHls, ServeDash, Load, Generate, Store, ReaperStep,
      ListIdle, StopIdle, Forget, Stop

(* The reaper ends its round, and begins none for such an entry.           *)
LEMMA ReaperRests ==
  ASSUME IdleTimeout > 1, JustUsed, [WorkersNext]_workersVars
  PROVE  /\ rpc = "wait" => rpc' = "wait"
         /\ rpc = "stop" => rpc' \in {"stop", "untrack"}
         /\ rpc = "untrack" => rpc' \in {"untrack", "forget"}
         /\ rpc = "forget" => rpc' \in {"forget", "wait"}
         /\ ReaperStep => rpc' # rpc
<1>1. ~Idle
  BY WorkersAssumption DEF Idle, JustUsed, Never
<1>2. rpc' = rpc \/ ReaperStep
  BY DEF WorkersNext, workersVars, Join, Leave, PlayerStep, EnsureForHls,
      EnsureForDash, Track, Record, ServeHls, ServeDash, Load, Generate, Store,
      Stop, Tick
<1> QED
  BY <1>1, <1>2 DEF ReaperStep, ListIdle, StopIdle, Untrack, Forget

(* A worker stays until it has loaded, unless it is stopped.               *)
LEMMA WorkerStays ==
  ASSUME WorkersInvariant, [WorkersNext]_workersVars, ~Stop, rpc = "wait"
  PROVE  /\ phase = "loading" => phase' \in {"loading", "looping", "failed"}
         /\ phase = "none" => phase' \in {"none", "loading"}
         /\ Load => phase' \in {"looping", "failed"}
<1>1. phase' = phase \/ Spawn \/ Load
  BY DEF WorkersNext, workersVars, processVars, Join, Leave, PlayerStep,
         EnsureForHls, EnsureForDash, AlreadyRunning, Track, Record, ServeHls,
         ServeDash, Generate, Store, ReaperStep, ListIdle, StopIdle, Untrack,
         Forget, Tick
<1> QED  BY <1>1 DEF Spawn, Load

LEMMA StoppedStaysFree ==
  StoppedIsFree /\ [WorkersNext]_workersVars => StoppedIsFree'
<1> SUFFICES ASSUME StoppedIsFree, [WorkersNext]_workersVars
             PROVE  StoppedIsFree'
  OBVIOUS
<1>1. UNCHANGED <<phase, running>> \/ Spawn \/ Load \/ ManagerStop
  BY DEF WorkersNext, workersVars, processVars, Join, Leave, PlayerStep,
         EnsureForHls, EnsureForDash, AlreadyRunning, Track, Record, ServeHls,
         ServeDash, Generate, Store, ReaperStep, ListIdle, StopIdle, Untrack,
         Forget, Stop, Tick
<1> QED  BY <1>1 DEF Spawn, Load, ManagerStop, StoppedIsFree

(***************************************************************************)
(* A player that stays has a worker in the end.  Once it has been recorded *)
(* the reaper lists nothing, for it asks again before the timeout; once    *)
(* the reaper has ended its round, nobody but an operator takes away the   *)
(* worker that the player's next request starts.                           *)
(***************************************************************************)
LEMMA StayingGetsWorker ==
  ASSUME NEW p \in HlsPlayers, IdleTimeout > 1
  PROVE  /\ WorkersSpec /\ AsksOn(p) /\ ReapsOn /\ LoadsOn
         /\ <>[][~Stop]_workersVars
         => (call[p] # "away" ~> \/ phase \in {"looping", "failed"}
                                 \/ leaked > 0
                                 \/ call[p] = "away")
<1> DEFINE Away == call[p] = "away"
           Asking == call[p] = "ask"
           Starting == call[p] = "start"
           Recording == call[p] = "record"
           BeingServed == call[p] = "serve"
           Pausing == rpc = "wait"
           Stopping == rpc = "stop"
           Untracking == rpc = "untrack"
           Forgetting == rpc = "forget"
           Lacking == phase = "none"
           Loading == phase = "loading"
           Good == phase \in {"looping", "failed"} \/ leaked > 0 \/ Away
           Inv == WorkersInvariant /\ StoppedIsFree
<1>1. WorkersSpec => []Inv
  <2>1. WorkersInit => StoppedIsFree
    BY DEF WorkersInit, StoppedIsFree
  <2> QED
    BY <2>1, StoppedStaysFree, WorkersInvariance, PTL DEF WorkersSpec
<1>2. Inv => /\ Away \/ Asking \/ Starting \/ Recording \/ BeingServed
             /\ Pausing \/ Stopping \/ Untracking \/ Forgetting
             /\ Lacking \/ Loading \/ Good
  BY DEF WorkersInvariant, WorkersTypeOK, Players
<1>3. Inv /\ [WorkersNext]_workersVars
        => /\ Asking => Asking' \/ Starting' \/ Away'
           /\ Asking /\ Lacking => Asking' \/ Loading' \/ Away'
           /\ Starting => Starting' \/ Recording'
           /\ Recording => Recording' \/ (BeingServed' /\ JustUsed')
           /\ BeingServed => BeingServed' \/ Asking'
  <2> SUFFICES ASSUME Inv, [WorkersNext]_workersVars
               PROVE  /\ Asking => Asking' \/ Starting' \/ Away'
                      /\ Asking /\ Lacking => Asking' \/ Loading' \/ Away'
                      /\ Starting => Starting' \/ Recording'
                      /\ Recording => Recording' \/ (BeingServed' /\ JustUsed')
                      /\ BeingServed => BeingServed' \/ Asking'
    OBVIOUS
  <2>1. EnsureForHls(p) /\ Lacking => Loading'
    BY DEF EnsureForHls, StoppedIsFree, AlreadyRunning, NeedsWorker, Spawn
  <2> QED  BY <2>1, RequestsGoOn
<1>4. Inv /\ <<PlayerStep(p)>>_workersVars
        => /\ Asking => ~Asking'
           /\ Starting => ~Starting'
           /\ Recording => ~Recording'
           /\ BeingServed => ~BeingServed'
  BY RequestsMove
<1>5. Inv /\ [WorkersNext]_workersVars /\ ~Away /\ JustUsed => JustUsed'
  BY StaysJustUsed
<1>6. Inv /\ [WorkersNext]_workersVars /\ JustUsed
        => /\ Pausing => Pausing'
           /\ Stopping => Stopping' \/ Untracking'
           /\ Untracking => Untracking' \/ Forgetting'
           /\ Forgetting => Forgetting' \/ Pausing'
  BY ReaperRests
<1>7. Inv /\ <<ReaperStep>>_workersVars /\ JustUsed
        => /\ Stopping => ~Stopping'
           /\ Untracking => ~Untracking'
           /\ Forgetting => ~Forgetting'
  BY ReaperRests DEF WorkersNext
<1>8. Inv /\ [WorkersNext]_workersVars /\ [~Stop]_workersVars /\ Pausing
        => /\ Loading => Loading' \/ Good'
           /\ Lacking => Lacking' \/ Loading'
  <2> SUFFICES ASSUME Inv, [WorkersNext]_workersVars, [~Stop]_workersVars,
                      Pausing
               PROVE  /\ Loading => Loading' \/ Good'
                      /\ Lacking => Lacking' \/ Loading'
    OBVIOUS
  <2>1. CASE UNCHANGED workersVars
    BY <2>1 DEF workersVars, processVars
  <2>2. CASE ~Stop
    BY <2>2, WorkerStays
  <2> QED  BY <2>1, <2>2
<1>9. <<Load>>_workersVars => Good'
  BY DEF Load
<1>10. /\ Stopping \/ Untracking \/ Forgetting => ReaperCanStep
       /\ Loading <=> ~(phase # "loading")
       /\ Asking \/ Starting \/ Recording \/ BeingServed => ~Away
       /\ Away => Good
       /\ (call[p] # "away") <=> ~Away
  BY DEF ReaperCanStep
<1> HIDE DEF Away, Asking, Starting, Recording, BeingServed, Pausing,
             Stopping, Untracking, Forgetting, Lacking, Loading, Good, Inv
<1> DEFINE Fair == /\ []<>Away \/ []<><<PlayerStep(p)>>_workersVars
                   /\ []<>~ReaperCanStep \/ []<><<ReaperStep>>_workersVars
                   /\ []<>(phase # "loading") \/ []<><<Load>>_workersVars
<1>11. WorkersSpec /\ Fair => (~Away ~> Good \/ JustUsed)
  BY <1>1, <1>2, <1>3, <1>4, <1>10, PTL DEF WorkersSpec
<1>12. WorkersSpec /\ Fair => (~Away ~> Good \/ (JustUsed /\ Pausing))
  BY <1>1, <1>2, <1>5, <1>6, <1>7, <1>10, <1>11, PTL DEF WorkersSpec
<1>13. WorkersSpec /\ Fair /\ <>[][~Stop]_workersVars
         => (~Away ~> Good \/ Loading)
  BY <1>1, <1>2, <1>3, <1>4, <1>5, <1>6, <1>8, <1>10, <1>12, PTL
  DEF WorkersSpec
<1>14. WorkersSpec /\ Fair /\ <>[][~Stop]_workersVars => (~Away ~> Good)
  BY <1>1, <1>2, <1>5, <1>6, <1>8, <1>9, <1>10, <1>12, <1>13, PTL
  DEF WorkersSpec
<1>15. WorkersSpec /\ Fair /\ <>[][~Stop]_workersVars
         => (call[p] # "away" ~> Good)
  BY <1>10, <1>14, PTL
<1> QED
  BY <1>15, PTL DEF AsksOn, ReapsOn, LoadsOn, Away, Good

(***************************************************************************)
(* A player that goes on asking has a worker in the end, whatever the      *)
(* reaper stops: if an operator does not stop it for ever, and the idle    *)
(* timeout is longer than the player takes from one request to the next.   *)
(***************************************************************************)
THEOREM PlayersKeepPlaying ==
  ASSUME IdleTimeout > 1
  PROVE  /\ WorkersSpec
         /\ \A p \in Players : AsksOn(p)
         /\ ReapsOn /\ LoadsOn
         /\ <>[][~Stop]_workersVars
         => KeepsPlaying
<1> SUFFICES ASSUME NEW p \in HlsPlayers
             PROVE  /\ WorkersSpec
                    /\ \A q \in Players : AsksOn(q)
                    /\ ReapsOn /\ LoadsOn
                    /\ <>[][~Stop]_workersVars
                    => (call[p] # "away" ~> \/ phase \in {"looping", "failed"}
                                            \/ leaked > 0
                                            \/ call[p] = "away")
  BY DEF KeepsPlaying
<1>1. (\A q \in Players : AsksOn(q)) => AsksOn(p)
  BY DEF Players
<1> QED  BY <1>1, StayingGetsWorker, PTL

-----------------------------------------------------------------------------
(* The loops a worker counts, and the numbers it gives the segments.       *)

(* Division of natural numbers, as the stream's arithmetic needs it.       *)
LEMMA Division ==
  ASSUME NEW a \in Nat, NEW n \in Nat \ {0}
  PROVE  /\ a \div n \in Nat /\ a % n \in 0 .. (n - 1)
         /\ a = n * (a \div n) + (a % n)
OBVIOUS

LEMMA DivMonotone ==
  ASSUME NEW n \in Nat \ {0}, NEW a \in Nat, NEW b \in Nat, a <= b
  PROVE  a \div n <= b \div n
OBVIOUS

LEMMA DivStep ==
  ASSUME NEW n \in Nat \ {0}, NEW a \in Nat, NEW b \in Nat, a + n <= b
  PROVE  a \div n < b \div n
OBVIOUS

LEMMA Between ==
  ASSUME NEW n \in Nat \ {0}, NEW p \in Int, NEW q \in Int,
         n * p < n * (q + 1)
  PROVE  p <= q
OBVIOUS

(* A position moves on by less than a loop, or wraps once.                 *)
LEMMA NextPosition ==
  ASSUME NEW n \in Nat \ {0}, NEW a \in Nat, NEW d \in Nat, d < n
  PROVE  \/ (a + d) \div n = a \div n /\ (a + d) % n = (a % n) + d
         \/ (a + d) \div n = a \div n + 1 /\ (a + d) % n = (a % n) + d - n
<1> DEFINE q == a \div n  r == a % n  p == (a + d) \div n  s == (a + d) % n
<1>1. q \in Nat /\ r \in 0 .. (n - 1) /\ a = n * q + r
  BY Division
<1>2. a + d \in Nat
  OBVIOUS
<1>3. p \in Nat /\ s \in 0 .. (n - 1) /\ a + d = n * p + s
  BY <1>2, Division
<1> HIDE DEF q, r, p, s
<1>4. n * p + s = n * q + r + d
  BY <1>1, <1>3
<1>5. q <= p
  <2>1. n * q < n * (p + 1)
    BY <1>1, <1>3, <1>4
  <2> QED  BY <2>1, <1>1, <1>3, Between
<1>6. p <= q + 1
  <2>1. n * p < n * ((q + 1) + 1)
    BY <1>1, <1>3, <1>4
  <2> QED  BY <2>1, <1>1, <1>3, Between
<1>7. p = q \/ p = q + 1
  BY <1>1, <1>3, <1>5, <1>6
<1>8. CASE p = q
  BY <1>8, <1>1, <1>3, <1>4 DEF p, q, r, s
<1>9. CASE p = q + 1
  <2>1. n * p = n * q + n
    BY <1>9, <1>1
  <2>2. s = r + d - n
    BY <2>1, <1>1, <1>3, <1>4
  <2> QED  BY <2>2, <1>9 DEF p, q, r, s
<1> QED  BY <1>7, <1>8, <1>9

-----------------------------------------------------------------------------
(* What is assumed of a clip, and the loop and position of a time.         *)
LEMMA ClipFacts ==
  ASSUME NEW c \in Clips
  PROVE  /\ c.total \in Nat \ {0}
         /\ \A p \in Playlists :
              /\ c.unit[p] \in Nat \ {0}
              /\ c.unit[p] + MaxDelay <= c.total
              /\ c.cuts[p] \in Seq(Nat \ {0}) /\ Len(c.cuts[p]) \in Nat \ {0}
              /\ \A i, j \in 1 .. Len(c.cuts[p]) :
                   i < j => c.cuts[p][i] < c.cuts[p][j]
         /\ MaxDelay \in Nat /\ MaxTime \in Nat /\ WindowSize \in Nat
<1>1. ClipType(c) /\ \A p \in Playlists : c.unit[p] + MaxDelay <= c.total
  BY LiveAssumption DEF LiveAssumption
<1>2. {WindowSize, MaxDelay, MaxTime, MaxLives} \subseteq Nat
  BY LiveAssumption DEF LiveAssumption
<1>3. c.unit \in [Playlists -> Nat \ {0}]
      /\ c.cuts \in [Playlists -> Seq(Nat \ {0})]
      /\ \A p \in Playlists : c.cuts[p] # << >>
  BY <1>1 DEF ClipType
<1>4. ASSUME NEW p \in Playlists PROVE Len(c.cuts[p]) \in Nat \ {0}
  <2>1. c.cuts[p] \in Seq(Nat \ {0}) /\ c.cuts[p] # << >>
    BY <1>3
  <2> QED  BY <2>1
<1> QED  BY <1>1, <1>2, <1>3, <1>4 DEF ClipType

LEMMA ClipLoops ==
  ASSUME clip \in Clips, NEW t \in Nat
  PROVE  /\ Loop(t) \in Nat /\ Position(t) \in 0 .. (clip.total - 1)
         /\ Position(t) \in Nat
         /\ t = clip.total * Loop(t) + Position(t)
         /\ clip.total <= t => Loop(t) >= 1
         /\ \A p \in Playlists : Index(p, t) \in Nat
<1>1. clip.total \in Nat \ {0}
      /\ \A p \in Playlists : clip.unit[p] \in Nat \ {0}
  BY ClipFacts
<1>2. /\ Loop(t) \in Nat /\ Position(t) \in 0 .. (clip.total - 1)
      /\ t = clip.total * Loop(t) + Position(t)
  BY <1>1, Division DEF Loop, Position
<1>3. ASSUME NEW p \in Playlists PROVE Index(p, t) \in Nat
  <2>1. Position(t) \in Nat
    BY <1>1, <1>2
  <2> QED  BY <2>1, <1>1, Division DEF Index
<1>4. ASSUME clip.total <= t PROVE Loop(t) >= 1
  <2>1. CASE Loop(t) = 0
    BY <2>1, <1>4, <1>2, <1>1
  <2> QED  BY <2>1, <1>2
<1>5. Position(t) \in Nat
  BY <1>1, <1>2
<1> QED  BY <1>2, <1>3, <1>4, <1>5

(* The heart of the count: between two iterations either no loop ends and  *)
(* no index falls, or one ends and every index falls.                      *)
LEMMA IndexFalls ==
  ASSUME clip \in Clips, NEW t \in Nat, NEW d \in 0 .. MaxDelay,
         NEW p \in Playlists
  PROVE  \/ Loop(t + d) = Loop(t) /\ Index(p, t) <= Index(p, t + d)
         \/ Loop(t + d) = Loop(t) + 1 /\ Index(p, t + d) < Index(p, t)
<1> DEFINE n == clip.total  u == clip.unit[p]
<1>1. n \in Nat \ {0} /\ u \in Nat \ {0} /\ MaxDelay \in Nat
      /\ u + MaxDelay <= n
  BY ClipFacts
<1>2. d \in Nat /\ d < n /\ t + d \in Nat
  BY <1>1
<1>3. Position(t) \in Nat /\ Position(t + d) \in Nat
  <2>1. Position(t) \in 0 .. (n - 1) /\ Position(t + d) \in 0 .. (n - 1)
    BY <1>2, ClipLoops
  <2> QED  BY <2>1, <1>1
<1>4. \/ Loop(t + d) = Loop(t) /\ Position(t + d) = Position(t) + d
      \/ Loop(t + d) = Loop(t) + 1 /\ Position(t + d) = Position(t) + d - n
  BY <1>1, <1>2, NextPosition DEF Loop, Position
<1>5. CASE Loop(t + d) = Loop(t) /\ Position(t + d) = Position(t) + d
  <2>1. Position(t) <= Position(t + d)
    BY <1>5, <1>3, <1>2
  <2> QED  BY <2>1, <1>5, <1>1, <1>3, DivMonotone DEF Index
<1>6. CASE Loop(t + d) = Loop(t) + 1 /\ Position(t + d) = Position(t) + d - n
  <2>1. Position(t + d) + u <= Position(t)
    BY <1>6, <1>1, <1>2, <1>3
  <2> QED  BY <2>1, <1>6, <1>1, <1>3, DivStep DEF Index
<1> QED  BY <1>4, <1>5, <1>6

(* A worker has no count before its first iteration.                       *)
LEMMA LoopInitially == LoopInit => LoopInvariant
<1> SUFFICES ASSUME LoopInit PROVE LoopInvariant
  OBVIOUS
<1>1. clip \in Clips /\ clip.total \in Nat \ {0}
  BY ClipFacts DEF LoopInit
<1>2. now \in Nat /\ now >= clip.total
  BY <1>1 DEF LoopInit
<1>3. Loop(now) \in Nat
  BY <1>1, <1>2, ClipLoops
<1> QED  BY <1>1, <1>2, <1>3 DEF LoopInit, LoopInvariant

(* An iteration keeps the count: the index falls exactly when a loop has   *)
(* ended.                                                                  *)
LEMMA Iterated ==
  ASSUME LoopInvariant, NEW d \in 1 .. MaxDelay, Iteration(d)
  PROVE  LoopInvariant' /\ Counting' /\ up /\ up'
<1>1. /\ clip \in Clips /\ clip' = clip /\ now' = now + d /\ up /\ up'
      /\ now \in Nat /\ now >= clip.total
  BY DEF LoopInvariant, Iteration, Iterate
<1>0. MaxDelay \in Nat /\ clip.total \in Nat
  BY <1>1, ClipFacts
<1>2. now + d \in Nat /\ d \in 0 .. MaxDelay /\ now + d >= clip.total
  BY <1>1, <1>0
<1>3. /\ last' = [p \in Playlists |-> Index(p, now + d)]
      /\ loops' = [p \in Playlists |-> Counted(p, now + d)]
      /\ origin' = Origin(now + d)
  BY DEF Iteration, Iterate
<1>4. Unseen \/ Counting
  BY <1>1 DEF LoopInvariant
<1>5. /\ Loop(now) \in Nat /\ Loop(now + d) \in Nat /\ Loop(now + d) >= 1
      /\ \A p \in Playlists : Index(p, now) \in Nat
         /\ Index(p, now + d) \in Nat
  BY <1>1, <1>2, ClipLoops
<1>6. Loop(now)' = Loop(now + d)
      /\ \A p \in Playlists : Index(p, now)' = Index(p, now + d)
  BY <1>1 DEF Loop, Index, Position
<1>7. CASE Unseen
  <2>1. origin' = Loop(now + d)
    BY <1>7, <1>3 DEF Unseen, Origin
  <2>2. \A p \in Playlists : Counted(p, now + d) = 0
    BY <1>7 DEF Unseen, Counted
  <2> QED
    BY <2>1, <2>2, <1>1, <1>2, <1>3, <1>5, <1>6 DEF LoopInvariant, Counting
<1>8. CASE Counting /\ Playlists # {}
  <2>1. origin' = origin
    <3>1. \A p \in Playlists : last[p] # -1
      BY <1>8, <1>5 DEF Counting
    <3> QED  BY <3>1, <1>3, <1>8 DEF Origin
  <2>2. origin \in 0 .. Loop(now)
    BY DEF LoopInvariant
  <2>3. ASSUME NEW p \in Playlists
        PROVE  Counted(p, now + d) = Loop(now + d) - origin
               /\ Loop(now + d) >= Loop(now)
    <3>1. last[p] = Index(p, now) /\ loops[p] = Loop(now) - origin
      BY <1>8 DEF Counting
    <3>2. \/ Loop(now + d) = Loop(now) /\ Index(p, now) <= Index(p, now + d)
          \/ Loop(now + d) = Loop(now) + 1 /\ Index(p, now + d) < Index(p, now)
      BY <1>1, <1>2, IndexFalls
    <3> QED  BY <3>1, <3>2, <1>5, <2>2 DEF Counted
  <2> QED
    BY <2>1, <2>2, <2>3, <1>1, <1>2, <1>3, <1>5, <1>6, <1>8
    DEF LoopInvariant, Counting
<1>9. CASE Playlists = {}
  BY <1>9, <1>7 DEF Unseen
<1> QED  BY <1>4, <1>7, <1>8, <1>9

(* Starting, stopping and waiting leave the count alone.                   *)
LEMMA LoopNextKeeps ==
  LoopInvariant /\ [LoopNext]_loopVars => LoopInvariant'
<1> SUFFICES ASSUME LoopInvariant, [LoopNext]_loopVars PROVE LoopInvariant'
  OBVIOUS
<1>1. CASE StartWorker
  BY <1>1, ClipLoops DEF LoopInvariant, StartWorker, Unseen, Loop
<1>2. CASE StopWorker
  BY <1>2 DEF LoopInvariant, StopWorker, Loop
<1>3. CASE NoWorker
  <2>1. clip \in Clips /\ now \in Nat /\ now + 1 \in Nat
        /\ clip.total \in Nat \ {0} /\ now >= clip.total
    BY ClipFacts DEF LoopInvariant
  <2>2. Loop(now) \in Nat /\ Loop(now + 1) \in Nat
    BY <2>1, ClipLoops
  <2>4. Loop(now) <= Loop(now + 1)
    BY <2>1, DivMonotone DEF Loop
  <2>3. Loop(now)' = Loop(now + 1)
    BY <1>3 DEF Loop, NoWorker
  <2> QED  BY <1>3, <2>1, <2>2, <2>3, <2>4 DEF LoopInvariant, NoWorker
<1>4. ASSUME NEW d \in 1 .. MaxDelay, Iteration(d) PROVE LoopInvariant'
  BY <1>4, Iterated
<1>5. CASE UNCHANGED loopVars
  BY <1>5 DEF LoopInvariant, loopVars, Unseen, Counting, Loop, Index, Position
<1> QED  BY <1>1, <1>2, <1>3, <1>4, <1>5 DEF LoopNext

(***************************************************************************)
(* The worker of runUnifiedHLSWorker: A running worker has seen no index   *)
(* yet, or knows the last one and the loop it began in.                    *)
(***************************************************************************)
THEOREM LoopInvariance == LoopSpec => []LoopInvariant
<1> QED  BY LoopInitially, LoopNextKeeps, PTL DEF LoopSpec

(***************************************************************************)
(* The loops a worker has counted by the falls of its index                *)
(* (runUnifiedHLSWorker) are those that have passed since its first        *)
(* iteration, for every clip, delay and family of playlists.               *)
(***************************************************************************)
THEOREM CountIsRight == LoopSpec => []LoopsCounted
<1>1. LoopInvariant => LoopsCounted
  BY DEF LoopInvariant, LoopsCounted, Unseen, Counting
<1> QED  BY <1>1, LoopInvariance, PTL

-----------------------------------------------------------------------------
(* The greater and the lesser of two numbers.                              *)
LEMMA Two ==
  ASSUME NEW a \in Int, NEW b \in Int
  PROVE  /\ Max({a, b}) = IF a >= b THEN a ELSE b
         /\ Min({a, b}) = IF a <= b THEN a ELSE b
<1>1. PICK m \in {a, b} : \A y \in {a, b} : m >= y
  OBVIOUS
<1>2. PICK k \in {a, b} : \A y \in {a, b} : k =< y
  OBVIOUS
<1>3. Max({a, b}) \in {a, b} /\ \A y \in {a, b} : Max({a, b}) >= y
  BY <1>1 DEF Max
<1>4. Min({a, b}) \in {a, b} /\ \A y \in {a, b} : Min({a, b}) =< y
  BY <1>2 DEF Min
<1> QED  BY <1>3, <1>4

(* The position in the clip at which the window begins, and the loop it is *)
(* a position of.                                                          *)
StartAt(t) ==
  Position(t) - WindowSize
    + (IF Position(t) < WindowSize THEN clip.total ELSE 0)
BeginAt(t) == Max({0, StartAt(t)})
LoopAt(t) == IF Position(t) < WindowSize THEN Loop(t) - 1 ELSE Loop(t)
FirstOf(p, t) == WindowStart(p, Position(t))

(* The segment on air has begun, and not ended, by the mean duration.      *)
LEMMA SegmentFacts ==
  ASSUME clip \in Clips, NEW p \in Playlists, NEW a \in Nat
  PROVE  /\ N(p) \in Nat \ {0} /\ clip.total \in Nat \ {0}
         /\ SegmentAt(p, a) \in Nat
         /\ clip.total * SegmentAt(p, a) <= a * N(p)
         /\ a * N(p) < clip.total * SegmentAt(p, a) + clip.total
         /\ a < clip.total => SegmentAt(p, a) <= N(p) - 1
<1> DEFINE n == N(p)  T == clip.total  x == a * n  q == x \div T  r == x % T
<1>1. T \in Nat \ {0} /\ n \in Nat \ {0}
  BY ClipFacts DEF N
<1>2. x \in Nat
  BY <1>1
<1>3. q \in Nat /\ r \in 0 .. (T - 1) /\ x = T * q + r
  BY <1>1, <1>2, Division
<1>4. SegmentAt(p, a) = q
  BY DEF SegmentAt
<1>5. T * q <= x /\ x < T * q + T
  <2> HIDE DEF x, q, r
  <2> QED  BY <1>1, <1>2, <1>3
<1>6. ASSUME a < T PROVE q <= n - 1
  <2>1. x < T * n
    BY <1>1, <1>6
  <2>2. T * n = T * ((n - 1) + 1)
    BY <1>1
  <2> HIDE DEF x, q, r
  <2>3. T * q \in Nat /\ T * n \in Nat
    BY <1>1, <1>3
  <2>4. T * q < T * ((n - 1) + 1)
    BY <2>1, <2>2, <2>3, <1>2, <1>5
  <2> QED  BY <2>4, <1>1, <1>3, Between
<1> QED  BY <1>1, <1>3, <1>4, <1>5, <1>6

(* A later position is in the same segment or a later one.                 *)
LEMMA SegmentMonotone ==
  ASSUME clip \in Clips, NEW p \in Playlists, NEW a \in Nat, NEW b \in Nat,
         a <= b
  PROVE  SegmentAt(p, a) \in Nat /\ SegmentAt(p, b) \in Nat
         /\ SegmentAt(p, a) <= SegmentAt(p, b)
<1>1. clip.total \in Nat \ {0} /\ N(p) \in Nat \ {0}
  BY ClipFacts DEF N
<1>2. a * N(p) \in Nat /\ b * N(p) \in Nat /\ a * N(p) <= b * N(p)
  BY <1>1
<1> QED  BY <1>1, <1>2, Division, DivMonotone DEF SegmentAt

(* The arithmetic of a window's beginning.                                 *)
LEMMA WindowFacts ==
  ASSUME clip \in Clips, NEW p \in Playlists, NEW t \in Nat
  PROVE  /\ N(p) \in Nat \ {0} /\ clip.total \in Nat \ {0}
            /\ WindowSize \in Nat
         /\ StartAt(t) \in Int /\ LoopAt(t) \in Int
         /\ BeginAt(t) \in Nat /\ SegmentAt(p, BeginAt(t)) \in Nat
         /\ BeginAt(t) = IF 0 >= StartAt(t) THEN 0 ELSE StartAt(t)
         /\ FirstOf(p, t) =
              IF N(p) - 1 <= SegmentAt(p, BeginAt(t))
              THEN N(p) - 1 ELSE SegmentAt(p, BeginAt(t))
         /\ FirstOf(p, t) \in 0 .. (N(p) - 1)
         /\ FirstListed(p, t) = FirstOf(p, t) + N(p) * LoopAt(t)
         /\ FirstListed(p, t) \in Int
<1>1. N(p) \in Nat \ {0} /\ clip.total \in Nat \ {0} /\ WindowSize \in Nat
  BY ClipFacts DEF N
<1>2. Position(t) \in 0 .. (clip.total - 1) /\ Loop(t) \in Nat
  BY ClipLoops
<1>3. StartAt(t) \in Int /\ LoopAt(t) \in Int
  BY <1>1, <1>2 DEF StartAt, LoopAt
<1>9. BeginAt(t) = IF 0 >= StartAt(t) THEN 0 ELSE StartAt(t)
  BY <1>3, Two DEF BeginAt
<1>4. BeginAt(t) \in Nat
  BY <1>3, <1>9
<1>5. SegmentAt(p, BeginAt(t)) \in Nat
  BY <1>4, SegmentMonotone
<1>6. FirstOf(p, t) = Min({N(p) - 1, SegmentAt(p, BeginAt(t))})
  BY DEF FirstOf, WindowStart, BeginAt, StartAt
<1>10. FirstOf(p, t) =
         IF N(p) - 1 <= SegmentAt(p, BeginAt(t))
         THEN N(p) - 1 ELSE SegmentAt(p, BeginAt(t))
  <2> DEFINE a == N(p) - 1  b == SegmentAt(p, BeginAt(t))
  <2>1. a \in Int /\ b \in Int
    BY <1>1, <1>5
  <2>2. FirstOf(p, t) = Min({a, b})
    BY <1>6
  <2> HIDE DEF a, b
  <2>3. FirstOf(p, t) = IF a <= b THEN a ELSE b
    BY <2>1, <2>2, Two
  <2> QED  BY <2>3 DEF a, b
<1>7. FirstOf(p, t) \in 0 .. (N(p) - 1)
  BY <1>1, <1>5, <1>10
<1>8. N(p) * LoopAt(t) \in Int
  BY <1>1, <1>3
<1>11. FirstListed(p, t) = FirstOf(p, t) + N(p) * LoopAt(t)
  BY DEF FirstListed, FirstOf, LoopAt
<1>12. FirstListed(p, t) \in Int
  BY <1>1, <1>7, <1>8, <1>11
<1> QED  BY <1>1, <1>3, <1>4, <1>5, <1>7, <1>9, <1>10, <1>11, <1>12

(* While the window begins in the same loop, it begins no earlier.         *)
LEMMA FirstForward ==
  ASSUME clip \in Clips, NEW p \in Playlists, NEW s \in Nat, NEW t \in Nat,
         s <= t, LoopAt(s) = LoopAt(t)
  PROVE  FirstOf(p, s) <= FirstOf(p, t)
<1> DEFINE T == clip.total
<1>1. T \in Nat \ {0} /\ WindowSize \in Nat
  BY WindowFacts
<1>2. /\ Loop(s) \in Nat /\ Position(s) \in 0 .. (T - 1)
      /\ s = T * Loop(s) + Position(s)
      /\ Loop(t) \in Nat /\ Position(t) \in 0 .. (T - 1)
      /\ t = T * Loop(t) + Position(t)
  BY ClipLoops
<1>3. Loop(s) <= Loop(t)
  BY <1>1, DivMonotone DEF Loop
<1>4. Loop(s) = Loop(t) => Position(s) <= Position(t)
  BY <1>1, <1>2
<1>5. Loop(t) = Loop(s) \/ Loop(t) = Loop(s) + 1
  BY <1>2, <1>3 DEF LoopAt
<1>6. StartAt(s) <= StartAt(t)
  BY <1>1, <1>2, <1>4, <1>5 DEF LoopAt, StartAt
<1>7. BeginAt(s) <= BeginAt(t)
  BY <1>6, WindowFacts
<1>8. SegmentAt(p, BeginAt(s)) <= SegmentAt(p, BeginAt(t))
  BY <1>7, WindowFacts, SegmentMonotone
<1> QED  BY <1>8, WindowFacts

(* The first segment of the window never moves back.                       *)
LEMMA LoForward ==
  ASSUME clip \in Clips, NEW p \in Playlists, NEW s \in Nat, NEW t \in Nat,
         s <= t
  PROVE  FirstListed(p, s) <= FirstListed(p, t)
<1> DEFINE n == N(p)  T == clip.total
<1>1. n \in Nat \ {0} /\ T \in Nat \ {0} /\ WindowSize \in Nat
  BY WindowFacts
<1>2. /\ FirstOf(p, s) \in 0 .. (n - 1) /\ FirstOf(p, t) \in 0 .. (n - 1)
      /\ LoopAt(s) \in Int /\ LoopAt(t) \in Int
      /\ FirstListed(p, s) = FirstOf(p, s) + n * LoopAt(s)
      /\ FirstListed(p, t) = FirstOf(p, t) + n * LoopAt(t)
  BY WindowFacts
<1>3. /\ Loop(s) \in Nat /\ Position(s) \in 0 .. (T - 1)
      /\ s = T * Loop(s) + Position(s)
      /\ Loop(t) \in Nat /\ Position(t) \in 0 .. (T - 1)
      /\ t = T * Loop(t) + Position(t)
  BY ClipLoops
<1>4. Loop(s) <= Loop(t)
  BY <1>1, DivMonotone DEF Loop
<1>5. Loop(s) = Loop(t) => Position(s) <= Position(t)
  BY <1>1, <1>3
<1>6. LoopAt(s) <= LoopAt(t)
  BY <1>1, <1>3, <1>4, <1>5 DEF LoopAt
<1>7. CASE LoopAt(s) < LoopAt(t)
  <2>1. n * (LoopAt(s) + 1) <= n * LoopAt(t)
    BY <1>1, <1>2, <1>7
  <2>2. n * (LoopAt(s) + 1) = n * LoopAt(s) + n /\ n * LoopAt(s) \in Int
        /\ n * LoopAt(t) \in Int
    BY <1>1, <1>2
  <2> HIDE DEF n
  <2> QED  BY <2>1, <2>2, <1>1, <1>2
<1>8. CASE LoopAt(s) = LoopAt(t)
  <2>4. FirstOf(p, s) <= FirstOf(p, t)
    BY <1>8, FirstForward
  <2>5. n * LoopAt(s) = n * LoopAt(t) /\ n * LoopAt(s) \in Int
    BY <1>8, <1>1, <1>2
  <2> QED  BY <2>4, <2>5, <1>1, <1>2
<1> QED  BY <1>2, <1>6, <1>7, <1>8

-----------------------------------------------------------------------------
(* A set of natural numbers has a least one, and a set of integers with a  *)
(* bound a greatest.                                                       *)
LEMMA LeastNatural ==
  ASSUME NEW T \in SUBSET Nat, T # {}
  PROVE  \E x \in T : \A y \in T : x <= y
<1> DEFINE R == OpToRel(<, Nat)
<1>1. \A x, y \in Nat : x < y => <<x, y>> \in R
  BY DEF OpToRel
<1>2. IsWellFoundedOn(R, Nat)
  BY NatLessThanWellFounded
<1> HIDE DEF R
<1>3. PICK x \in T : \A y \in T : ~(<<y, x>> \in R)
  BY <1>2, WFMin
<1>4. \A y \in T : y \in Nat /\ x \in Nat /\ ~(y < x)
  BY <1>1, <1>3
<1>5. \A y \in T : x <= y
  BY <1>4
<1> QED  BY <1>5

LEMMA Greatest ==
  ASSUME NEW S \in SUBSET Int, S # {}, NEW j \in Int, \A x \in S : x <= j
  PROVE  Max(S) \in S /\ \A x \in S : x <= Max(S)
<1> DEFINE T == {j - x : x \in S}
<1>1. T \in SUBSET Nat
  <2>1. \A x \in S : j - x \in Nat
    OBVIOUS
  <2> QED  BY <2>1
<1>2. T # {}
  OBVIOUS
<1>3. PICK m \in T : \A y \in T : m <= y
  BY <1>1, <1>2, LeastNatural
<1>4. PICK x \in S : m = j - x
  OBVIOUS
<1>5. \A y \in S : x >= y
  <2> TAKE y \in S
  <2>1. m <= j - y
    BY <1>3
  <2> QED  BY <2>1, <1>4
<1> QED  BY <1>5 DEF Max

(* Later segments end later.                                               *)
LEMMA CutFacts ==
  ASSUME clip \in Clips, NEW p \in Playlists
  PROVE  /\ N(p) \in Nat \ {0}
         /\ \A i \in 0 .. N(p) : Cut(p, i) \in Nat
         /\ \A i, j \in 0 .. N(p) : i <= j => Cut(p, i) <= Cut(p, j)
<1>1. /\ clip.cuts[p] \in Seq(Nat \ {0}) /\ N(p) \in Nat \ {0}
      /\ \A i, j \in 1 .. N(p) : i < j => clip.cuts[p][i] < clip.cuts[p][j]
  BY ClipFacts DEF N
<1>2. \A i \in 1 .. N(p) : clip.cuts[p][i] \in Nat
  BY <1>1 DEF N
<1>3. \A i \in 0 .. N(p) : Cut(p, i) \in Nat /\ (i # 0 => i \in 1 .. N(p))
  BY <1>1, <1>2 DEF Cut
<1>4. ASSUME NEW i \in 0 .. N(p), NEW j \in 0 .. N(p), i <= j
      PROVE  Cut(p, i) <= Cut(p, j)
  <2>1. CASE i = 0 \/ i = j
    BY <2>1, <1>3 DEF Cut
  <2>2. CASE i # 0 /\ i # j
    <3>1. i \in 1 .. N(p) /\ j \in 1 .. N(p) /\ i < j
      BY <2>2, <1>4, <1>1
    <3>2. clip.cuts[p][i] < clip.cuts[p][j]
      BY <3>1, <1>1
    <3> QED  BY <3>1, <3>2, <1>2 DEF Cut
  <2> QED  BY <2>1, <2>2
<1> QED  BY <1>1, <1>3, <1>4

(* The loop that writes segments until the budget is used up.              *)
LEMMA LastWrittenFacts ==
  ASSUME clip \in Clips, NEW p \in Playlists, NEW i \in Nat, NEW j \in Int,
         NEW b \in Int
  PROVE  /\ LastWritten(p, i, j, b) \in Int
         /\ \/ LastWritten(p, i, j, b) = i - 1
            \/ /\ LastWritten(p, i, j, b) \in i .. j
               /\ Before(p, i, LastWritten(p, i, j, b)) < b
         /\ i - 1 <= LastWritten(p, i, j, b)
         /\ \A k \in i .. j : Before(p, i, k) < b
                                => k <= LastWritten(p, i, j, b)
<1> DEFINE S == {i - 1} \cup {k \in i .. j : Before(p, i, k) < b}
           m == IF i - 1 <= j THEN j ELSE i - 1
<1>1. S \in SUBSET Int /\ S # {} /\ m \in Int /\ \A x \in S : x <= m
  OBVIOUS
<1>2. Max(S) \in S /\ \A x \in S : x <= Max(S)
  <2> HIDE DEF S, m
  <2> QED  BY <1>1, Greatest
<1>3. LastWritten(p, i, j, b) = Max(S)
  BY DEF LastWritten
<1>4. i - 1 <= Max(S) /\ Max(S) \in Int
  BY <1>1, <1>2
<1> QED  BY <1>2, <1>3, <1>4

(* It gets as far, if it begins later with as much to reach.               *)
LEMMA ListsFurther ==
  ASSUME clip \in Clips, NEW p \in Playlists,
         NEW i \in 0 .. (N(p) - 1), NEW j \in Int, NEW b \in Int,
         NEW h \in 0 .. (N(p) - 1), NEW l \in Int, NEW c \in Int,
         i <= h, j <= l, l <= N(p), b + Cut(p, i) <= c + Cut(p, h)
  PROVE  LastWritten(p, i, j, b) <= LastWritten(p, h, l, c)
<1> DEFINE v == LastWritten(p, i, j, b)  w == LastWritten(p, h, l, c)
<1>1. N(p) \in Nat /\ i \in Nat /\ h \in Nat
      /\ i \in 0 .. N(p) /\ h \in 0 .. N(p)
  BY CutFacts
<1>2. /\ v \in Int /\ w \in Int /\ h - 1 <= w
      /\ v = i - 1 \/ (v \in i .. j /\ Before(p, i, v) < b)
      /\ \A k \in h .. l : Before(p, h, k) < c => k <= w
  BY <1>1, LastWrittenFacts
<1> SUFFICES v <= w
  OBVIOUS
<1> HIDE DEF v, w
<1>3. CASE v <= h - 1
  BY <1>1, <1>2, <1>3
<1>4. CASE ~(v <= h - 1)
  <2>1. v \in i .. j /\ v \in h .. l /\ v \in 0 .. N(p) /\ Before(p, i, v) < b
    BY <1>1, <1>2, <1>4
  <2>2. Cut(p, v) \in Nat /\ Cut(p, i) \in Nat /\ Cut(p, h) \in Nat
    BY <1>1, <2>1, CutFacts
  <2>3. Before(p, h, v) < c
    BY <2>1, <2>2 DEF Before
  <2> QED  BY <1>2, <2>1, <2>3
<1> QED  BY <1>3, <1>4

(* What LastListed passes to that loop.                                    *)
BeginsAt(p, t) == IF Position(t) < WindowSize THEN 0 ELSE FirstOf(p, t)
Budget(p, t) ==
  IF Position(t) < WindowSize
  THEN WindowSize - Before(p, FirstOf(p, t), N(p)) ELSE WindowSize
LastOf(p, t) ==
  LastWritten(p, BeginsAt(p, t), Available(p, Position(t)), Budget(p, t))

LEMMA LastFacts ==
  ASSUME clip \in Clips, NEW p \in Playlists, NEW t \in Nat
  PROVE  /\ N(p) \in Nat \ {0} /\ WindowSize \in Nat /\ Loop(t) \in Nat
         /\ BeginsAt(p, t) \in 0 .. (N(p) - 1) /\ Budget(p, t) \in Int
         /\ FirstOf(p, t) \in 0 .. (N(p) - 1)
         /\ Cut(p, FirstOf(p, t)) \in Nat /\ Cut(p, N(p)) \in Nat
         /\ Cut(p, FirstOf(p, t)) <= Cut(p, N(p))
         /\ SegmentAt(p, Position(t)) \in 0 .. (N(p) - 1)
         /\ Available(p, Position(t)) \in 0 .. (N(p) - 1)
         /\ Cut(p, BeginsAt(p, t)) \in Nat
         /\ Budget(p, t) + Cut(p, BeginsAt(p, t)) =
              WindowSize + Cut(p, FirstOf(p, t))
                - (IF Position(t) < WindowSize THEN Cut(p, N(p)) ELSE 0)
         /\ LastOf(p, t) \in -1 .. (N(p) - 1)
         /\ LastListed(p, t) = Loop(t) * N(p) + LastOf(p, t)
         /\ LastListed(p, t) \in Int
<1> DEFINE n == N(p)  pos == Position(t)  f == FirstOf(p, t)
<1>1. n \in Nat \ {0} /\ WindowSize \in Nat /\ f \in 0 .. (n - 1)
      /\ clip.total \in Nat \ {0}
  BY WindowFacts
<1>2. Loop(t) \in Nat /\ pos \in 0 .. (clip.total - 1)
  BY ClipLoops
<1>3. Cut(p, f) \in Nat /\ Cut(p, n) \in Nat /\ Cut(p, f) <= Cut(p, n)
  BY <1>1, CutFacts
<1>4. BeginsAt(p, t) \in 0 .. (n - 1) /\ BeginsAt(p, t) \in 0 .. n
  BY <1>1 DEF BeginsAt
<1>5. Cut(p, BeginsAt(p, t)) \in Nat
  BY <1>4, CutFacts
<1>6. Budget(p, t) \in Int
  BY <1>1, <1>3 DEF Budget, Before
<1>7. Budget(p, t) + Cut(p, BeginsAt(p, t)) =
        WindowSize + Cut(p, f)
          - (IF pos < WindowSize THEN Cut(p, n) ELSE 0)
  <2>1. CASE pos < WindowSize
    <3>1. Cut(p, BeginsAt(p, t)) = 0
      BY <2>1 DEF BeginsAt, Cut
    <3> QED  BY <2>1, <3>1, <1>1, <1>3 DEF Budget, Before
  <2>2. CASE ~(pos < WindowSize)
    BY <2>2, <1>1, <1>3 DEF Budget, BeginsAt
  <2> QED  BY <2>1, <2>2
<1>8. SegmentAt(p, pos) \in 0 .. (n - 1)
  BY <1>1, <1>2, SegmentFacts
<1>9. Available(p, pos) \in 0 .. (n - 1)
  BY <1>1, <1>8 DEF Available
<1>10. LastOf(p, t) \in -1 .. (n - 1)
  <2> DEFINE i == BeginsAt(p, t)  j == Available(p, pos)  w == LastOf(p, t)
  <2>1. i \in Nat /\ j \in Int
    BY <1>1, <1>4, <1>9
  <2>2. w \in Int /\ i - 1 <= w /\ (w = i - 1 \/ w \in i .. j)
    BY <2>1, <1>6, LastWrittenFacts DEF LastOf
  <2> HIDE DEF i, j, w
  <2>3. i \in 0 .. (n - 1) /\ j \in 0 .. (n - 1)
    BY <1>4, <1>9 DEF i, j
  <2>4. w \in -1 .. (n - 1)
    BY <2>2, <2>3, <1>1
  <2> QED  BY <2>4 DEF w
<1>11. LastListed(p, t) = Loop(t) * n + LastOf(p, t)
  BY DEF LastListed, LastOf, BeginsAt, Budget, FirstOf
<1>12. LastListed(p, t) \in Int
  BY <1>1, <1>2, <1>10, <1>11
<1> QED  BY <1>1, <1>2, <1>3, <1>4, <1>5, <1>6, <1>7, <1>8, <1>9, <1>10, <1>11,
            <1>12

(* While the first segment is on air there is no room for the second.      *)
LEMMA RoomForOne ==
  ASSUME clip \in Clips, NEW p \in Playlists, NEW t \in Nat, WindowFits(p),
         SegmentAt(p, Position(t)) = 0
  PROVE  /\ Position(t) < WindowSize
         /\ LastOf(p, t) = LastWritten(p, 0, 0, Budget(p, t))
<1> DEFINE pos == Position(t)  b == Budget(p, t)
           w == LastWritten(p, 0, N(p) - 1, b)  v == LastWritten(p, 0, 0, b)
<1>1. /\ N(p) \in Nat \ {0} /\ clip.total \in Nat \ {0} /\ WindowSize \in Nat
      /\ pos \in 0 .. (clip.total - 1) /\ b \in Int
  BY ClipLoops, LastFacts, SegmentFacts
<1>2. pos < WindowSize
  <2>1. pos * N(p) < clip.total
    BY <1>1, SegmentFacts
  <2>2. clip.total <= WindowSize * N(p)
    BY DEF WindowFits
  <2>3. pos * N(p) < WindowSize * N(p)
    BY <2>1, <2>2, <1>1
  <2> QED  BY <2>3, <1>1
<1>3. LastOf(p, t) = w
  BY <1>2 DEF LastOf, BeginsAt, Available
<1>4. b <= Cut(p, 1) /\ Cut(p, 1) \in Nat
  <2>1. WindowSize <= Before(p, FirstOf(p, t), N(p)) + Cut(p, 1)
    BY <1>1 DEF WindowFits, FirstOf
  <2>2. b = WindowSize - Before(p, FirstOf(p, t), N(p))
    BY <1>2 DEF Budget
  <2>3. Cut(p, 1) \in Nat /\ Before(p, FirstOf(p, t), N(p)) \in Int
    <3>1. 1 \in 0 .. N(p)
      BY <1>1
    <3>2. Cut(p, FirstOf(p, t)) \in Nat /\ Cut(p, N(p)) \in Nat
      BY LastFacts
    <3> QED  BY <3>1, <3>2, CutFacts DEF Before
  <2> QED  BY <2>1, <2>2, <2>3, <1>1
<1>5. /\ w \in Int
      /\ w = -1 \/ (w \in 0 .. (N(p) - 1) /\ Before(p, 0, w) < b)
      /\ \A k \in 0 .. (N(p) - 1) : Before(p, 0, k) < b => k <= w
      /\ -1 <= w
  BY <1>1, LastWrittenFacts
<1>6. /\ v \in Int /\ (v = -1 \/ (v \in 0 .. 0 /\ Before(p, 0, v) < b))
      /\ \A k \in 0 .. 0 : Before(p, 0, k) < b => k <= v
      /\ -1 <= v
  BY <1>1, LastWrittenFacts
<1> HIDE DEF w, v
<1>7. w <= 0
  <2> SUFFICES ASSUME w >= 1 PROVE FALSE
    BY <1>5
  <2>1. w \in 0 .. N(p) /\ 1 \in 0 .. N(p) /\ 1 <= w
    BY <1>1, <1>5
  <2>2. Cut(p, 1) <= Cut(p, w) /\ Cut(p, w) \in Nat
    BY <2>1, CutFacts
  <2>3. Before(p, 0, w) = Cut(p, w)
    BY <2>2 DEF Before, Cut
  <2> QED  BY <2>2, <2>3, <1>1, <1>4, <1>5
<1>8. w = v
  BY <1>1, <1>5, <1>6, <1>7
<1> QED  BY <1>2, <1>3, <1>8 DEF v

(* Nor does the last one, in a clip the window fits.                       *)
LEMMA HiForward ==
  ASSUME clip \in Clips, NEW p \in Playlists, NEW s \in Nat, NEW t \in Nat,
         s <= t, WindowFits(p)
  PROVE  LastListed(p, s) <= LastListed(p, t)
<1> DEFINE n == N(p)  T == clip.total
           a == LastOf(p, s)  b == LastOf(p, t)
           x == SegmentAt(p, Position(s))  y == SegmentAt(p, Position(t))
<1>1. n \in Nat \ {0} /\ T \in Nat \ {0} /\ WindowSize \in Nat
  BY WindowFacts
<1>2. /\ Loop(s) \in Nat /\ Loop(t) \in Nat
      /\ a \in -1 .. (n - 1) /\ b \in -1 .. (n - 1)
      /\ LastListed(p, s) = Loop(s) * n + a
      /\ LastListed(p, t) = Loop(t) * n + b
  BY LastFacts
<1>3. /\ Position(s) \in 0 .. (T - 1) /\ s = T * Loop(s) + Position(s)
      /\ Position(t) \in 0 .. (T - 1) /\ t = T * Loop(t) + Position(t)
  BY ClipLoops
<1>4. Loop(s) <= Loop(t)
  BY <1>1, DivMonotone DEF Loop
<1>5. CASE Loop(s) < Loop(t)
  <2>1. (Loop(s) + 1) * n <= Loop(t) * n
    BY <1>1, <1>2, <1>5
  <2>2. (Loop(s) + 1) * n = Loop(s) * n + n /\ Loop(s) * n \in Int
        /\ Loop(t) * n \in Int
    BY <1>1, <1>2
  <2> HIDE DEF n, a, b
  <2> QED  BY <2>1, <2>2, <1>1, <1>2
<1>6. CASE Loop(s) = Loop(t)
  <2>1. Position(s) <= Position(t)
    BY <1>1, <1>2, <1>3, <1>6
  <2>2. x <= y /\ x \in 0 .. (n - 1) /\ y \in 0 .. (n - 1)
    BY <2>1, <1>3, SegmentMonotone, LastFacts
  <2> DEFINE l == IF x = 0 THEN 0 ELSE Available(p, Position(s))
             m == IF y = 0 THEN 0 ELSE Available(p, Position(t))
  <2>3. l <= m /\ l \in Int /\ m \in 0 .. (n - 1)
    BY <2>2, <1>1 DEF Available
  <2>4. /\ a = LastWritten(p, BeginsAt(p, s), l, Budget(p, s))
        /\ b = LastWritten(p, BeginsAt(p, t), m, Budget(p, t))
    BY RoomForOne DEF LastOf, BeginsAt
  <2>5. BeginsAt(p, s) <= BeginsAt(p, t)
        /\ Budget(p, s) + Cut(p, BeginsAt(p, s))
             <= Budget(p, t) + Cut(p, BeginsAt(p, t))
    <3>1. CASE Position(t) < WindowSize \/ ~(Position(s) < WindowSize)
      <4>1. LoopAt(s) = LoopAt(t)
            /\ (Position(s) < WindowSize <=> Position(t) < WindowSize)
        BY <3>1, <2>1, <1>1, <1>3, <1>6 DEF LoopAt
      <4>2. FirstOf(p, s) <= FirstOf(p, t)
        BY <4>1, FirstForward
      <4>3. FirstOf(p, s) \in 0 .. n /\ FirstOf(p, t) \in 0 .. n
        <5>1. FirstOf(p, s) \in 0 .. (n - 1) /\ FirstOf(p, t) \in 0 .. (n - 1)
          BY LastFacts
        <5> QED  BY <5>1, <1>1
      <4>4. Cut(p, FirstOf(p, s)) <= Cut(p, FirstOf(p, t))
        BY <4>2, <4>3, CutFacts
      <4>5. BeginsAt(p, s) <= BeginsAt(p, t)
        BY <4>1, <4>2 DEF BeginsAt
      <4>6. /\ Budget(p, s) + Cut(p, BeginsAt(p, s)) =
                 WindowSize + Cut(p, FirstOf(p, s))
                   - (IF Position(s) < WindowSize THEN Cut(p, N(p)) ELSE 0)
            /\ Budget(p, t) + Cut(p, BeginsAt(p, t)) =
                 WindowSize + Cut(p, FirstOf(p, t))
                   - (IF Position(t) < WindowSize THEN Cut(p, N(p)) ELSE 0)
            /\ Cut(p, FirstOf(p, s)) \in Nat /\ Cut(p, FirstOf(p, t)) \in Nat
            /\ Cut(p, N(p)) \in Nat
        BY LastFacts
      <4> QED  BY <4>1, <4>4, <4>5, <4>6, <1>1
    <3>2. CASE Position(s) < WindowSize /\ ~(Position(t) < WindowSize)
      <4>1. BeginsAt(p, s) = 0
        BY <3>2 DEF BeginsAt
      <4> QED  BY <4>1, <3>2, LastFacts
    <3> QED  BY <3>1, <3>2
  <2>6. /\ BeginsAt(p, s) \in 0 .. (n - 1) /\ BeginsAt(p, t) \in 0 .. (n - 1)
        /\ Budget(p, s) \in Int /\ Budget(p, t) \in Int
    BY LastFacts
  <2>7. a <= b
    <3>1. m <= n /\ m \in Int
      BY <2>3, <1>1
    <3> HIDE DEF a, b, l, m
    <3> QED  BY <2>3, <2>4, <2>5, <2>6, <3>1, ListsFurther
  <2>8. Loop(s) * n = Loop(t) * n /\ Loop(s) * n \in Int
    BY <1>1, <1>2, <1>6
  <2> HIDE DEF a, b, n
  <2> QED  BY <2>7, <2>8, <1>2
<1> QED  BY <1>2, <1>4, <1>5, <1>6

-----------------------------------------------------------------------------
(* The numbers written follow from the loop the worker began in.           *)
LEMMA WrittenNumbers ==
  ASSUME clip \in Clips, NEW p \in Playlists, NEW t \in Nat,
         NEW o \in Nat \ {0}, o <= Loop(t),
         NEW w, w = Written(p, t, Loop(t) - o, o)
  PROVE  /\ w.origin = o
         /\ w.lo = FirstListed(p, t) /\ w.hi = LastListed(p, t)
         /\ w.first - w.lo = (IF w.lo < o * N(p) THEN N(p) ELSE 0) - o * N(p)
<1> DEFINE n == N(p)  k == Loop(t) - o  f == FirstOf(p, t)
           first == StartLoop(Position(t) < WindowSize, k)
<1>1. n \in Nat \ {0} /\ f \in 0 .. (n - 1) /\ LoopAt(t) \in Int
      /\ FirstListed(p, t) \in Int /\ FirstListed(p, t) = f + n * LoopAt(t)
  BY WindowFacts
<1>2. Loop(t) \in Nat /\ k \in Nat
  BY ClipLoops
<1>3. w.origin = o /\ w.first = first * n + f
  BY DEF Written, FirstOf
<1>6. w.lo = FirstListed(p, t) /\ w.hi = LastListed(p, t)
  BY DEF Written
<1>7. CASE Position(t) < WindowSize /\ k = 0
  <2>1. first = 0
    BY <1>7, Two DEF StartLoop
  <2>2. LoopAt(t) = o - 1
    BY <1>7, <1>2 DEF LoopAt
  <2>3. w.lo = f + (o * n - n) /\ o * n \in Int
    BY <2>2, <1>6, <1>1
  <2>4. first * n = 0
    BY <2>1, <1>1
  <2> HIDE DEF n, f, first
  <2>5. w.first = f /\ w.lo < o * n
    BY <2>3, <2>4, <1>3, <1>1
  <2>6. w.first - w.lo = n - o * n
    BY <2>3, <2>5, <1>1
  <2> QED  BY <2>5, <2>6, <1>3, <1>6 DEF n
<1>8. CASE ~(Position(t) < WindowSize /\ k = 0)
  <2>1. first = LoopAt(t) - o /\ first \in Nat
    <3>1. CASE Position(t) < WindowSize
      BY <3>1, <1>8, <1>2, Two DEF StartLoop, LoopAt
    <3>2. CASE ~(Position(t) < WindowSize)
      BY <3>2, <1>8, <1>2, Two DEF StartLoop, LoopAt
    <3> QED  BY <3>1, <3>2
  <2>2. first * n = n * LoopAt(t) - o * n /\ first * n \in Nat
        /\ n * LoopAt(t) \in Int /\ o * n \in Int
    BY <2>1, <1>1
  <2> HIDE DEF n, f, first
  <2>3. w.lo = f + n * LoopAt(t)
    BY <1>1, <1>6
  <2>4. ~(w.lo < o * n)
    BY <2>2, <2>3, <1>1
  <2>5. w.first - w.lo = 0 - o * n
    BY <2>2, <2>3, <1>1, <1>3
  <2> QED  BY <2>4, <2>5, <1>3, <1>6 DEF n
<1> QED  BY <1>7, <1>8

(* What a step may do to the clock and the clip.                           *)
LEMMA TimeGoesOn ==
  ASSUME LoopInvariant, [LoopNext]_loopVars
  PROVE  /\ clip \in Clips /\ clip' = clip
         /\ now \in Nat /\ now' \in Nat /\ now <= now'
         /\ 0 .. now \subseteq 0 .. now'
         /\ \A p \in Playlists :
              /\ N(p)' = N(p)
              /\ \A t : /\ FirstListed(p, t)' = FirstListed(p, t)
                        /\ LastListed(p, t)' = LastListed(p, t)
                        /\ Loop(t)' = Loop(t) /\ Index(p, t)' = Index(p, t)
              /\ FirstListed(p, now)' = FirstListed(p, now')
              /\ LastListed(p, now)' = LastListed(p, now')
              /\ Loop(now)' = Loop(now') /\ Index(p, now)' = Index(p, now')
<1>1. clip \in Clips /\ now \in Nat
  BY DEF LoopInvariant
<1>2. MaxDelay \in Nat
  BY <1>1, ClipFacts
<1>3. clip' = clip /\ now' \in Nat /\ now <= now'
  BY <1>1, <1>2
  DEF LoopNext, loopVars, StartWorker, StopWorker, NoWorker, Iteration,
      Iterate
<1>4. \A p \in Playlists :
        /\ N(p)' = N(p)
        /\ \A t : FirstListed(p, t)' = FirstListed(p, t)
        /\ \A t : Loop(t)' = Loop(t) /\ Index(p, t)' = Index(p, t)
        /\ FirstListed(p, now)' = FirstListed(p, now')
        /\ Loop(now)' = Loop(now') /\ Index(p, now)' = Index(p, now')
  BY <1>3 DEF N, FirstListed, WindowStart, Position, Loop, Index, SegmentAt
<1>5. \A p \in Playlists : /\ \A t : LastListed(p, t)' = LastListed(p, t)
                          /\ LastListed(p, now)' = LastListed(p, now')
  BY <1>3
  DEF N, LastListed, LastWritten, Available, Before, Cut, WindowStart,
      Position, Loop, SegmentAt
<1> QED  BY <1>1, <1>3, <1>4, <1>5

(* What an iteration writes.                                               *)
LEMMA IterationWrites ==
  ASSUME LoopInvariant, NEW d \in 1 .. MaxDelay, Iteration(d),
         NEW p \in Playlists, file'[p] = Written(p, now', Counted(p, now'),
                                                Origin(now'))
  PROVE  Numbered(p)' /\ WrittenAt(p, now)' /\ now' \in 0 .. now'
<1>1. clip \in Clips /\ now' \in Nat /\ N(p)' = N(p)
      /\ FirstListed(p, now)' = FirstListed(p, now')
      /\ LastListed(p, now)' = LastListed(p, now')
      /\ Loop(now)' = Loop(now')
  BY TimeGoesOn DEF LoopNext
<1>2. LoopInvariant' /\ Counting'
  BY Iterated
<1>3. Counted(p, now') = loops'[p] /\ Origin(now') = origin'
  BY DEF Iteration, Iterate
<1>5. loops'[p] = Loop(now') - origin' /\ origin' \in 0 .. Loop(now')
      /\ origin' >= 1
  BY <1>1, <1>2 DEF Counting, LoopInvariant
<1>6. Loop(now') \in Nat
  BY <1>1, ClipLoops
<1>7. origin' \in Nat \ {0} /\ origin' <= Loop(now')
  BY <1>5, <1>6
<1>8. file'[p] = Written(p, now', Loop(now') - origin', origin')
  BY <1>3, <1>5
<1>9. /\ file'[p].origin = origin'
      /\ file'[p].lo = FirstListed(p, now')
      /\ file'[p].hi = LastListed(p, now')
      /\ file'[p].first - file'[p].lo
           = (IF file'[p].lo < origin' * N(p) THEN N(p) ELSE 0)
               - origin' * N(p)
  BY <1>1, <1>7, <1>8, WrittenNumbers
<1>10. now' \in 0 .. now'
  BY <1>1
<1>11. WrittenAt(p, now)'
  BY <1>1, <1>9 DEF WrittenAt
<1>12. Numbered(p)'
  <2>1. \E t \in 0 .. now' : WrittenAt(p, t)'
    BY <1>10, <1>11
  <2> QED  BY <2>1, <1>1, <1>7, <1>9 DEF Numbered
<1> QED  BY <1>10, <1>11, <1>12

(* Each playlist keeps its numbering, and its window goes on.              *)
LEMMA PlaylistKept ==
  ASSUME NumberingInvariant, [LoopNext]_loopVars, NEW p \in Playlists
  PROVE  /\ (Listed(p) => Numbered(p))'
         /\ Numbered(p) => /\ Numbered(p)'
                           /\ file[p].lo <= file'[p].lo
                           /\ WindowFits(p) => file[p].hi <= file'[p].hi
<1>1. LoopInvariant
  BY DEF NumberingInvariant
<1>2. /\ clip \in Clips /\ now \in Nat /\ now' \in Nat /\ now <= now'
      /\ 0 .. now \subseteq 0 .. now' /\ N(p)' = N(p)
      /\ \A t : FirstListed(p, t)' = FirstListed(p, t)
      /\ \A t : LastListed(p, t)' = LastListed(p, t)
      /\ FirstListed(p, now)' = FirstListed(p, now')
      /\ LastListed(p, now)' = LastListed(p, now')
  BY <1>1, TimeGoesOn
<1>3. ASSUME Numbered(p)
      PROVE  \E t \in 0 .. now : t \in Nat /\ WrittenAt(p, t)
                /\ FirstListed(p, t) \in Int /\ LastListed(p, t) \in Int
  <2>1. PICK t \in 0 .. now : WrittenAt(p, t)
    BY <1>3 DEF Numbered
  <2>2. t \in Nat
    BY <1>2
  <2> QED  BY <1>2, <2>1, <2>2, WindowFacts, LastFacts
<1>4. CASE file'[p] = file[p]
  <2>1. ASSUME ~Listed(p) PROVE ~Listed(p)' /\ ~Numbered(p)
    BY <2>1, <1>4 DEF Listed, NoFile, Numbered
  <2>2. ASSUME Numbered(p)
        PROVE  /\ Numbered(p)' /\ file[p].lo <= file'[p].lo
               /\ file[p].hi <= file'[p].hi
    <3>1. PICK t \in 0 .. now : WrittenAt(p, t) /\ FirstListed(p, t) \in Int
                               /\ LastListed(p, t) \in Int
      BY <2>2, <1>3
    <3>2. WrittenAt(p, t)' /\ t \in 0 .. now'
      BY <3>1, <1>2, <1>4 DEF WrittenAt
    <3>3. \E u \in 0 .. now' : WrittenAt(p, u)'
      BY <3>2
    <3>4. Numbered(p)'
      BY <2>2, <3>3, <1>2, <1>4 DEF Numbered
    <3> QED  BY <3>1, <3>4, <1>4 DEF WrittenAt
  <2> QED  BY <2>1, <2>2 DEF NumberingInvariant
<1>5. ASSUME NEW d \in 1 .. MaxDelay, Iteration(d), file'[p] # file[p]
      PROVE  /\ Numbered(p)'
             /\ Numbered(p) => /\ file[p].lo <= file'[p].lo
                               /\ WindowFits(p) => file[p].hi <= file'[p].hi
  <2>1. file'[p] = Written(p, now', Counted(p, now'), Origin(now'))
    BY <1>5 DEF Iteration, Iterate
  <2>2. Numbered(p)' /\ WrittenAt(p, now)'
    BY <2>1, <1>1, <1>5, IterationWrites
  <2>3. file'[p].lo = FirstListed(p, now') /\ file'[p].hi = LastListed(p, now')
    BY <2>2, <1>2 DEF WrittenAt
  <2>4. ASSUME Numbered(p)
        PROVE  /\ file[p].lo <= file'[p].lo
               /\ WindowFits(p) => file[p].hi <= file'[p].hi
    <3>1. PICK t \in 0 .. now : t \in Nat /\ WrittenAt(p, t)
      BY <2>4, <1>3
    <3>2. t <= now'
      BY <1>2
    <3>3. FirstListed(p, t) <= FirstListed(p, now')
      BY <1>2, <3>1, <3>2, LoForward
    <3>4. WindowFits(p) => LastListed(p, t) <= LastListed(p, now')
      BY <1>2, <3>1, <3>2, HiForward
    <3> QED  BY <3>1, <3>3, <3>4, <2>3 DEF WrittenAt
  <2> QED  BY <2>2, <2>4
<1>6. file'[p] = file[p] \/ \E d \in 1 .. MaxDelay : Iteration(d)
  BY DEF LoopNext, loopVars, StartWorker, StopWorker, NoWorker
<1> QED  BY <1>4, <1>5, <1>6

(* What is written now is recent.                                          *)
LEMMA RecentAtOnce ==
  ASSUME LoopInvariant, [LoopNext]_loopVars, NEW p \in Playlists
  PROVE  Recent(p, now)'
<1>1. now' \in Nat /\ MaxDelay \in Nat
  BY TimeGoesOn, ClipFacts
<1>2. \A x \in Nat, m \in Nat : x - x <= m
  OBVIOUS
<1>3. now' - now' <= (IF skipped' THEN MaxDelay ELSE 0)
  BY <1>1, <1>2
<1> QED  BY <1>3 DEF Recent

(* What was written last is as new as the worker makes it.                 *)
LEMMA UpToDateKept ==
  NumberingInvariant /\ [LoopNext]_loopVars => UpToDate'
<1> SUFFICES ASSUME NumberingInvariant, [LoopNext]_loopVars,
                    NEW p \in Playlists, up', last'[p] >= 0, fresh'[p]
             PROVE  /\ Listed(p)'
                    /\ \E t \in 0 .. now' : WrittenAt(p, t)' /\ Recent(p, t)'
  BY DEF UpToDate
<1>1. LoopInvariant /\ UpToDate
  BY DEF NumberingInvariant
<1>2. /\ clip \in Clips /\ now \in Nat /\ now' \in Nat /\ now <= now'
      /\ 0 .. now \subseteq 0 .. now' /\ clip' = clip
      /\ \A t : FirstListed(p, t)' = FirstListed(p, t)
      /\ \A t : LastListed(p, t)' = LastListed(p, t)
      /\ \A t : Loop(t)' = Loop(t) /\ Index(p, t)' = Index(p, t)
      /\ Loop(now)' = Loop(now') /\ Index(p, now)' = Index(p, now')
  BY <1>1, TimeGoesOn
<1>3. MaxDelay \in Nat
  BY <1>2, ClipFacts
<1>4. CASE UNCHANGED loopVars
  <2>1. up /\ last[p] >= 0 /\ fresh[p] /\ file' = file /\ now' = now
        /\ skipped' = skipped
    BY <1>4 DEF loopVars
  <2>2. Listed(p) /\ \E t \in 0 .. now : WrittenAt(p, t) /\ Recent(p, t)
    BY <2>1, <1>1 DEF UpToDate
  <2> QED
    BY <2>1, <2>2, <1>2 DEF Listed, WrittenAt, Recent, Loop, Index, Position
<1>5. ASSUME NEW d \in 1 .. MaxDelay, Iteration(d)
      PROVE  /\ Listed(p)'
             /\ \E t \in 0 .. now' : WrittenAt(p, t)' /\ Recent(p, t)'
  <2>1. now' = now + d /\ up
    BY <1>5 DEF Iteration, Iterate
  <2>2. PICK early \in BOOLEAN : Iterate(now', early)
    BY <1>5, <2>1 DEF Iteration
  <2> DEFINE due == {q \in Playlists : Attempted(q, now', early)}
  <2>3. PICK failed \in SUBSET due :
          /\ file' = [q \in Playlists |->
                       IF q \in due \ failed
                       THEN Written(q, now', Counted(q, now'), Origin(now'))
                       ELSE file[q]]
          /\ fresh' = [q \in Playlists |->
                       IF q \in due THEN q \notin failed ELSE fresh[q]]
    BY <2>2 DEF Iterate
  <2>4. last'[p] = Index(p, now')
    BY <2>2 DEF Iterate
  <2>7. ASSUME early PROVE last["ll"] >= 0 /\ ~skipped /\ skipped'
    BY <2>2, <2>7 DEF Iterate
  <2>5. CASE p \in due
    <3>1. file'[p] = Written(p, now', Counted(p, now'), Origin(now'))
      BY <2>3, <2>5
    <3>2. Numbered(p)' /\ WrittenAt(p, now)' /\ now' \in 0 .. now'
      BY <3>1, <1>1, <1>5, IterationWrites
    <3>3. Listed(p)'
      BY <3>2 DEF Numbered, Listed, NoFile
    <3>4. Recent(p, now)'
      BY <1>1, RecentAtOnce
    <3>5. (\E t \in 0 .. now : WrittenAt(p, t) /\ Recent(p, t))'
      BY <3>2, <3>4
    <3> QED  BY <3>3, <3>5
  <2>6. CASE p \notin due
    <3>1. file'[p] = file[p] /\ fresh[p] /\ ~Attempted(p, now', early)
      BY <2>3, <2>6
    <3>2. last[p] >= 0
      <4>1. CASE p = "ll"
        <5>1. early
          BY <4>1, <3>1 DEF Attempted
        <5> QED  BY <4>1, <5>1, <2>7
      <4>2. CASE p # "ll"
        <5>1. last[p] = Index(p, now')
          BY <4>2, <3>1 DEF Attempted
        <5> QED  BY <5>1, <2>4
      <4> QED  BY <4>1, <4>2
    <3>3. PICK t \in 0 .. now : Listed(p) /\ WrittenAt(p, t) /\ Recent(p, t)
      BY <3>1, <3>2, <2>1, <1>1 DEF UpToDate
    <3>4. Listed(p)' /\ WrittenAt(p, t)' /\ t \in 0 .. now' /\ t \in Nat
      BY <3>1, <3>3, <1>2 DEF Listed, WrittenAt
    <3>5. Recent(p, t)'
      <4>1. CASE p = "ll"
        <5>0. early
          BY <4>1, <3>1 DEF Attempted
        <5>1. skipped' /\ ~skipped
          BY <5>0, <2>7
        <5>2. now - t <= 0
          BY <4>1, <5>1, <3>3 DEF Recent
        <5>3. now' - t <= MaxDelay
          BY <5>2, <2>1, <1>2, <1>3, <3>4
        <5> QED  BY <4>1, <5>1, <5>3 DEF Recent
      <4>2. CASE p # "ll"
        <5>1. Loop(t) = Loop(now) /\ Index(p, t) = Index(p, now)
          BY <4>2, <3>3 DEF Recent
        <5>2. last[p] = Index(p, now) /\ last[p] = Index(p, now')
          <6>1. Counting
            BY <1>1, <2>1, <3>2 DEF LoopInvariant, Unseen
          <6> QED  BY <6>1, <4>2, <3>1 DEF Counting, Attempted
        <5>3. Loop(now') = Loop(now)
          <6>1. d \in 0 .. MaxDelay
            BY <1>3
          <6>2. \/ Loop(now + d) = Loop(now)
                \/ Index(p, now + d) < Index(p, now)
            BY <6>1, <1>2, IndexFalls
          <6>3. Index(p, now) \in Nat
            BY <1>2, ClipLoops
          <6> QED  BY <6>2, <6>3, <5>2, <2>1
        <5>4. Loop(t)' = Loop(now)' /\ Index(p, t)' = Index(p, now)'
          BY <5>1, <5>2, <5>3, <1>2
        <5> QED  BY <4>2, <5>4 DEF Recent
      <4> QED  BY <4>1, <4>2
    <3> QED  BY <3>4, <3>5
  <2> QED  BY <2>5, <2>6
<1>6. CASE StartWorker \/ StopWorker \/ NoWorker
  <2>1. ~up' \/ last'[p] = -1
    BY <1>6 DEF StartWorker, StopWorker, NoWorker
  <2> QED  BY <2>1
<1> QED  BY <1>4, <1>5, <1>6 DEF LoopNext

(* All playlists together.                                                 *)
LEMMA NumberingNextKeeps ==
  NumberingInvariant /\ [LoopNext]_loopVars => NumberingInvariant'
<1> SUFFICES ASSUME NumberingInvariant, [LoopNext]_loopVars
             PROVE  NumberingInvariant'
  OBVIOUS
<1>1. LoopInvariant'
  BY LoopNextKeeps DEF NumberingInvariant
<1>2. \A p \in Playlists : (Listed(p) => Numbered(p))'
  BY PlaylistKept
<1>3. UpToDate'
  BY UpToDateKept
<1> QED  BY <1>1, <1>2, <1>3 DEF NumberingInvariant

(***************************************************************************)
(* The numbers in a playlist on disk follow from its epoch, its ends from  *)
(* the time it was written, and that is the last time one was due          *)
(* (generateVariantPlaylistCore).                                          *)
(***************************************************************************)
THEOREM NumberingInvariance == LoopSpec => []NumberingInvariant
<1>1. LoopInit => NumberingInvariant
  BY LoopInitially DEF LoopInit, NumberingInvariant, Listed, UpToDate
<1> QED  BY <1>1, NumberingNextKeeps, PTL DEF LoopSpec

(* What a step shows of a playlist while its epoch lasts.                  *)
LEMMA EpochKept ==
  ASSUME NumberingInvariant, [LoopNext]_loopVars, NEW p \in Playlists,
         Epoch(p)' = Epoch(p)
  PROVE  \/ ~Listed(p) /\ ~Listed(p)'
         \/ /\ Listed(p) /\ Listed(p)' /\ Base(p)' = Base(p)
            /\ file[p].lo <= file'[p].lo
            /\ WindowFits(p) => file[p].hi <= file'[p].hi
<1>1. /\ Listed(p) => Numbered(p)
      /\ (Listed(p) => Numbered(p))'
      /\ Numbered(p) => /\ Numbered(p)' /\ file[p].lo <= file'[p].lo
                        /\ WindowFits(p) => file[p].hi <= file'[p].hi
  BY PlaylistKept DEF NumberingInvariant
<1>2. /\ Numbered(p) => Listed(p) /\ file[p].origin # 0
      /\ Numbered(p)' => Listed(p)' /\ file'[p].origin # 0
  BY DEF Numbered, Listed, NoFile
<1>3. CASE ~Listed(p)
  <2>1. Epoch(p) = <<0, FALSE>>
    BY <1>3 DEF Epoch
  <2>2. ASSUME Listed(p)' PROVE FALSE
    <3> DEFINE z == file'[p].lo < file'[p].origin * N(p)'
    <3>1. Epoch(p)' = <<file'[p].origin, z>>
      BY <2>2 DEF Epoch
    <3> HIDE DEF z
    <3>2. file'[p].origin = 0
      BY <2>1, <3>1
    <3> QED  BY <3>2, <2>2, <1>1, <1>2
  <2> QED  BY <1>3, <2>2
<1>4. CASE Listed(p)
  <2>1. Numbered(p) /\ Numbered(p)' /\ Listed(p)'
    BY <1>1, <1>2, <1>4
  <2>2. N(p)' = N(p)
    BY TimeGoesOn DEF NumberingInvariant
  <2>3. Base(p)' = file'[p].first - file'[p].lo
        /\ Base(p) = file[p].first - file[p].lo
    BY <2>1, <1>4 DEF Base
  <2>4. <<file'[p].origin, file'[p].lo < file'[p].origin * N(p)'>>
          = <<file[p].origin, file[p].lo < file[p].origin * N(p)>>
    <3> HIDE DEF N
    <3> QED  BY <2>1, <1>4 DEF Epoch
  <2>5. /\ file'[p].origin = file[p].origin
        /\ file'[p].lo < file'[p].origin * N(p)'
             <=> file[p].lo < file[p].origin * N(p)
    BY <2>4
  <2>6. Base(p)' = Base(p)
    BY <2>1, <2>2, <2>3, <2>5 DEF Numbered
  <2> QED  BY <1>1, <1>4, <2>1, <2>6
<1> QED  BY <1>3, <1>4

(* Within an epoch a segment keeps its number, and the first segment of    *)
(* the playlist never moves back: what every clip has of SlidingWindow.    *)
THEOREM NumbersStay == LoopSpec => NumbersKept
<1>1. NumberingInvariant /\ [LoopNext]_loopVars
        => [\A p \in Playlists :
              Listed(p) /\ Epoch(p)' = Epoch(p)
                => Base(p)' = Base(p) /\ file[p].lo <= file'[p].lo]_loopVars
  BY EpochKept
<1> QED  BY <1>1, NumberingInvariance, PTL DEF LoopSpec, NumbersKept

(***************************************************************************)
(* The playlists of generateVariantPlaylistCore are the sliding window a   *)
(* player needs, from loop to loop, across failed writes, late iterations  *)
(* and new workers, for every clip that the window suits: each step of the *)
(* worker is a step of LiveWindow.                                         *)
(***************************************************************************)
THEOREM WindowSlides ==
  LoopSpec /\ (\A p \in Playlists : WindowFits(p)) => SlidingWindow
<1> DEFINE Suits == \A p \in Playlists : WindowFits(p)
<1>1. LoopInit => Window!Init
  <2> SUFFICES ASSUME LoopInit PROVE Window!Init
    OBVIOUS
  <2>1. \A p \in Playlists : ~Listed(p)
    BY DEF LoopInit, Listed
  <2> QED  BY <2>1 DEF Window!Init, Base
<1>2. NumberingInvariant /\ Suits /\ [LoopNext]_loopVars
        => [Window!Next]_(Window!vars)
  <2> SUFFICES ASSUME NumberingInvariant, Suits, [LoopNext]_loopVars,
                      NEW p \in Playlists, Epoch(p)' = Epoch(p)
               PROVE  /\ Base(p)' = Base(p)
                      /\ (IF Listed(p) THEN file[p].lo ELSE 0)
                           <= (IF Listed(p) THEN file[p].lo ELSE 0)'
                      /\ (IF Listed(p) THEN file[p].hi ELSE 0)
                           <= (IF Listed(p) THEN file[p].hi ELSE 0)'
    BY DEF Window!Next, Window!Slides
  <2>1. CASE ~Listed(p) /\ ~Listed(p)'
    BY <2>1 DEF Base
  <2>2. CASE Listed(p) /\ Listed(p)'
    BY <2>2, EpochKept
  <2> QED  BY <2>1, <2>2, EpochKept
<1>3. NumberingInvariant /\ Suits /\ [LoopNext]_loopVars => Suits'
  <2> SUFFICES ASSUME NumberingInvariant, Suits, [LoopNext]_loopVars
               PROVE  Suits'
    OBVIOUS
  <2>1. clip' = clip
    BY TimeGoesOn DEF NumberingInvariant
  <2>2. ASSUME NEW p \in Playlists
        PROVE  /\ N(p)' = N(p) /\ \A i : Cut(p, i)' = Cut(p, i)
               /\ \A a : /\ SegmentAt(p, a)' = SegmentAt(p, a)
                         /\ WindowStart(p, a)' = WindowStart(p, a)
    BY <2>1 DEF N, Cut, SegmentAt, WindowStart
  <2>3. ASSUME NEW p \in Playlists PROVE WindowFits(p)'
    <3>1. WindowFits(p)
      OBVIOUS
    <3> QED  BY <3>1, <2>1, <2>2 DEF WindowFits, Before
  <2> QED  BY <2>3
<1> QED
  BY <1>1, <1>2, <1>3, NumberingInvariance, PTL
  DEF LoopSpec, SlidingWindow, Window!Spec

-----------------------------------------------------------------------------
(* The ends of the window, in a clip whose segments are of one length.     *)

(* Stream time, from segments to the product of ticks and segments.        *)
LEMMA StreamTime ==
  ASSUME NEW l \in Int, NEW n \in Int, NEW T \in Int, NEW a \in Int,
         NEW b \in Int
  PROVE  /\ (l * n + a) * T = (T * l) * n + a * T
         /\ (T * l + b) * n = (T * l) * n + b * n
         /\ (a + b) * n = a * n + b * n /\ (a - b) * n = a * n - b * n
         /\ (a + 1) * n = a * n + n /\ (a + 2) * n = a * n + n + n
         /\ a * n \in Int /\ (T * l) * n \in Int
OBVIOUS

LEMMA EvenCuts ==
  ASSUME clip \in Clips, NEW p \in Playlists, EvenlyCut(p),
         NEW i \in 0 .. N(p)
  PROVE  Cut(p, i) * N(p) = i * clip.total
<1>1. N(p) \in Nat \ {0} /\ clip.total \in Nat \ {0}
  BY WindowFacts
<1>2. CASE i = 0
  BY <1>1, <1>2 DEF Cut
<1>3. CASE i # 0
  BY <1>1, <1>3 DEF EvenlyCut
<1> QED  BY <1>2, <1>3

(* The window begins in its first segment, WindowSize ago.                 *)
LEMMA BeginFacts ==
  ASSUME clip \in Clips, NEW p \in Playlists, NEW t \in Nat,
         WindowSize <= clip.total
  PROVE  /\ StartAt(t) \in Nat
         /\ FirstOf(p, t) * clip.total <= StartAt(t) * N(p)
         /\ StartAt(t) * N(p) < FirstOf(p, t) * clip.total + clip.total
         /\ clip.total * LoopAt(t) + StartAt(t) = t - WindowSize
<1> DEFINE T == clip.total  n == N(p)  a == StartAt(t)  s == SegmentAt(p, a)
<1>1. n \in Nat \ {0} /\ T \in Nat \ {0} /\ WindowSize \in Nat
  BY WindowFacts
<1>2. /\ Loop(t) \in Nat /\ Position(t) \in 0 .. (T - 1)
      /\ t = T * Loop(t) + Position(t)
  BY ClipLoops
<1>3. a \in 0 .. (T - 1)
  BY <1>1, <1>2 DEF StartAt
<1>4. a \in Nat /\ a < T
  BY <1>1, <1>3
<1>5. BeginAt(t) = a
  BY <1>4, WindowFacts
<1>6. s \in Nat /\ T * s <= a * n /\ a * n < T * s + T
  BY <1>4, SegmentFacts
<1>10. s \in Nat /\ s <= n - 1
  BY <1>4, SegmentFacts
<1>7. FirstOf(p, t) = s
  <2>1. FirstOf(p, t) = IF n - 1 <= s THEN n - 1 ELSE s
    BY <1>5, WindowFacts
  <2> HIDE DEF s, n
  <2> QED  BY <2>1, <1>1, <1>10
<1>8. T * s = FirstOf(p, t) * T
  BY <1>7, <1>6, <1>1
<1>9. T * LoopAt(t) + a = t - WindowSize
  <2>1. CASE Position(t) < WindowSize
    <3>1. LoopAt(t) = Loop(t) - 1 /\ a = Position(t) - WindowSize + T
      BY <2>1 DEF LoopAt, StartAt
    <3>2. T * (Loop(t) - 1) = T * Loop(t) - T /\ T * Loop(t) \in Int
      BY <1>1, <1>2
    <3>3. T * LoopAt(t) = T * Loop(t) - T
      BY <3>1, <3>2
    <3>4. Position(t) \in Int /\ t = T * Loop(t) + Position(t)
      BY <1>1, <1>2
    <3> HIDE DEF a, T
    <3> QED  BY <3>1, <3>2, <3>3, <3>4, <1>1
  <2>2. CASE ~(Position(t) < WindowSize)
    <3>1. LoopAt(t) = Loop(t) /\ a = Position(t) - WindowSize
      BY <2>2, <1>1, <1>2 DEF LoopAt, StartAt
    <3>2. T * Loop(t) \in Int
      BY <1>1, <1>2
    <3>3. T * LoopAt(t) = T * Loop(t)
      BY <3>1
    <3>4. Position(t) \in Int /\ t = T * Loop(t) + Position(t)
      BY <1>1, <1>2
    <3> HIDE DEF a, T
    <3> QED  BY <3>1, <3>2, <3>3, <3>4, <1>1
  <2> QED  BY <2>1, <2>2
<1> QED  BY <1>4, <1>6, <1>8, <1>9

(* What is listed and the segment on air reach the time of writing.        *)
LEMMA ReachesTheEdge ==
  ASSUME clip \in Clips, NEW p \in Playlists, NEW t \in Nat, EvenlyCut(p),
         WindowSize <= clip.total
  PROVE  /\ LastListed(p, t) \in Int
         /\ t * N(p) < (LastListed(p, t) + 2) * clip.total
<1> DEFINE T == clip.total  n == N(p)  pos == Position(t)  w == LastOf(p, t)
           c == SegmentAt(p, pos)  f == FirstOf(p, t)  i == BeginsAt(p, t)
           b == Budget(p, t)
<1>1. n \in Nat \ {0} /\ T \in Nat \ {0} /\ WindowSize \in Nat
  BY WindowFacts
<1>2. /\ Loop(t) \in Nat /\ pos \in 0 .. (T - 1) /\ pos \in Nat
      /\ t = T * Loop(t) + pos
  BY ClipLoops
<1>3. /\ w \in -1 .. (n - 1) /\ LastListed(p, t) = Loop(t) * n + w
      /\ LastListed(p, t) \in Int
      /\ i \in 0 .. (n - 1) /\ b \in Int /\ f \in 0 .. (n - 1)
      /\ c \in 0 .. (n - 1)
      /\ b + Cut(p, i) = WindowSize + Cut(p, f)
                           - (IF pos < WindowSize THEN Cut(p, n) ELSE 0)
  BY LastFacts
<1>4. pos * n < (w + 2) * T
  <2>1. pos * n < (c + 1) * T
    <3>1. pos * n < T * c + T
      BY <1>2, SegmentFacts
    <3>2. T * c + T = (c + 1) * T
      BY <1>1, <1>3
    <3> QED  BY <3>1, <3>2
  <2>2. CASE c - 1 <= w
    <3>1. (c + 1) * T <= (w + 2) * T
      BY <2>2, <1>1, <1>3
    <3>2. (c + 1) * T \in Int /\ (w + 2) * T \in Int /\ pos * n \in Int
      BY <1>1, <1>2, <1>3
    <3> HIDE DEF c, w, pos, n, T
    <3> QED  BY <3>1, <3>2, <2>1
  <2>3. CASE ~(c - 1 <= w)
    <3> DEFINE k == w + 1
    <3>1. Available(p, pos) = c - 1 /\ k <= c - 1 /\ k \in 0 .. n
      BY <2>3, <1>1, <1>3 DEF Available
    <3>2. k \in i .. Available(p, pos) /\ ~(k <= w)
      <4>1. i - 1 <= w
        BY <1>3, LastWrittenFacts, LastFacts DEF LastOf
      <4> QED  BY <3>1, <4>1, <1>1, <1>3
    <3>3. ~(Before(p, i, k) < b)
      <4>1. \A m \in i .. Available(p, pos) : Before(p, i, m) < b => m <= w
        <5>1. i \in Nat /\ Available(p, pos) \in Int /\ b \in Int
          BY <3>1, <1>1, <1>3
        <5> QED  BY <5>1, LastWrittenFacts DEF LastOf
      <4> QED  BY <4>1, <3>2
    <3>4. /\ i \in 0 .. n /\ f \in 0 .. n /\ n \in 0 .. n
      BY <1>1, <1>3
    <3>5. /\ Cut(p, k) \in Nat /\ Cut(p, i) \in Nat /\ Cut(p, f) \in Nat
          /\ Cut(p, n) \in Nat
      BY <3>1, <3>4, CutFacts
    <3>6. WindowSize + Cut(p, f) - (IF pos < WindowSize THEN Cut(p, n) ELSE 0)
            <= Cut(p, k)
      BY <3>3, <3>5, <1>3 DEF Before
    <3>7. /\ Cut(p, k) * n = k * T /\ Cut(p, f) * n = f * T
          /\ Cut(p, n) * n = n * T
      BY <3>1, <3>4, EvenCuts
    <3>8. StartAt(t) \in Nat /\ StartAt(t) * n < f * T + T
      BY BeginFacts
    <3>9. pos * n < k * T + T
      <4>1. CASE pos < WindowSize
        <5>1. (WindowSize + Cut(p, f)) * n <= (Cut(p, k) + Cut(p, n)) * n
          BY <4>1, <3>5, <3>6, <1>1
        <5>2. (WindowSize + Cut(p, f)) * n = WindowSize * n + f * T
              /\ (Cut(p, k) + Cut(p, n)) * n = k * T + n * T
          BY <3>5, <3>7, <1>1, StreamTime
        <5>3. StartAt(t) * n = pos * n - WindowSize * n + n * T
          BY <4>1, <1>1, <1>2 DEF StartAt
        <5>4. /\ pos * n \in Int /\ WindowSize * n \in Int /\ f * T \in Int
              /\ k * T \in Int /\ n * T \in Int
          BY <3>1, <3>4, <1>1, <1>2
        <5> HIDE DEF pos, n, T, k, f
        <5> QED  BY <5>1, <5>2, <5>3, <5>4, <3>8, <1>1
      <4>2. CASE ~(pos < WindowSize)
        <5>1. (WindowSize + Cut(p, f)) * n <= Cut(p, k) * n
          BY <4>2, <3>5, <3>6, <1>1
        <5>2. (WindowSize + Cut(p, f)) * n = WindowSize * n + f * T
          BY <3>5, <3>7, <1>1, StreamTime
        <5>3. StartAt(t) * n = pos * n - WindowSize * n
          BY <4>2, <1>1, <1>2 DEF StartAt
        <5>4. /\ pos * n \in Int /\ WindowSize * n \in Int /\ f * T \in Int
              /\ k * T \in Int
          BY <3>1, <3>4, <1>1, <1>2
        <5> HIDE DEF pos, n, T, k, f
        <5> QED  BY <5>1, <5>2, <5>3, <5>4, <3>7, <3>8, <1>1
      <4> QED  BY <4>1, <4>2
    <3>10. k * T + T = (w + 2) * T
      BY <1>1, <1>3
    <3> QED  BY <3>9, <3>10
  <2> QED  BY <2>2, <2>3
<1>5. t * n = (T * Loop(t)) * n + pos * n
      /\ (LastListed(p, t) + 2) * T = (T * Loop(t)) * n + (w + 2) * T
  <2>1. w + 2 \in Int /\ LastListed(p, t) + 2 = Loop(t) * n + (w + 2)
    BY <1>1, <1>2, <1>3
  <2>2. (T * Loop(t) + pos) * n = (T * Loop(t)) * n + pos * n
    BY <1>1, <1>2, StreamTime
  <2>3. (Loop(t) * n + (w + 2)) * T = (T * Loop(t)) * n + (w + 2) * T
    BY <2>1, <1>1, <1>2, StreamTime
  <2> QED  BY <2>1, <2>2, <2>3, <1>2
<1>6. /\ (T * Loop(t)) * n \in Int /\ pos * n \in Int /\ (w + 2) * T \in Int
  BY <1>1, <1>2, <1>3
<1> HIDE DEF n, T, pos, w
<1> QED  BY <1>3, <1>4, <1>5, <1>6 DEF n, T

(* The first one reaches the beginning of the window.                      *)
LEMMA ReachesTheBeginning ==
  ASSUME clip \in Clips, NEW p \in Playlists, NEW t \in Nat,
         WindowSize <= clip.total
  PROVE  /\ FirstListed(p, t) \in Int
         /\ FirstListed(p, t) * clip.total <= t * N(p) - WindowSize * N(p)
<1> DEFINE T == clip.total  n == N(p)  f == FirstOf(p, t)  a == StartAt(t)
           l == LoopAt(t)
<1>1. /\ n \in Nat \ {0} /\ T \in Nat \ {0} /\ WindowSize \in Nat
      /\ f \in 0 .. (n - 1) /\ l \in Int
      /\ FirstListed(p, t) = f + n * l /\ FirstListed(p, t) \in Int
  BY WindowFacts
<1>2. a \in Nat /\ f * T <= a * n /\ T * l + a = t - WindowSize
  BY BeginFacts
<1>3. FirstListed(p, t) * T = (T * l) * n + f * T
  <2>1. FirstListed(p, t) = l * n + f /\ f \in Int
    BY <1>1
  <2> HIDE DEF f, n, l, T
  <2> QED  BY <2>1, <1>1, StreamTime
<1>4. t * n - WindowSize * n = (T * l) * n + a * n
  <2>1. (t - WindowSize) * n = t * n - WindowSize * n
    BY <1>1, StreamTime
  <2>2. (T * l + a) * n = (T * l) * n + a * n
    BY <1>1, <1>2, StreamTime
  <2> QED  BY <2>1, <2>2, <1>2
<1>5. (T * l) * n \in Int /\ f * T \in Int /\ a * n \in Int
  BY <1>1, <1>2
<1> HIDE DEF f, n, l, T, a
<1> QED  BY <1>1, <1>2, <1>3, <1>4, <1>5 DEF n, T

(* No segment on air is listed, when the window is so many segments long.  *)
LEMMA ListsTheEnded ==
  ASSUME clip \in Clips, NEW p \in Playlists, NEW t \in Nat, EvenlyCut(p),
         WholeSegments(p)
  PROVE  /\ WindowSize <= clip.total
         /\ (LastListed(p, t) + 1) * clip.total <= t * N(p)
<1> DEFINE T == clip.total  n == N(p)  pos == Position(t)  w == LastOf(p, t)
           c == SegmentAt(p, pos)  f == FirstOf(p, t)  i == BeginsAt(p, t)
           b == Budget(p, t)
<1>1. n \in Nat \ {0} /\ T \in Nat \ {0} /\ WindowSize \in Nat
  BY WindowFacts
<1>2. /\ Loop(t) \in Nat /\ pos \in 0 .. (T - 1) /\ pos \in Nat
      /\ t = T * Loop(t) + pos
  BY ClipLoops
<1>3. /\ w \in -1 .. (n - 1) /\ LastListed(p, t) = Loop(t) * n + w
      /\ i \in 0 .. (n - 1) /\ b \in Int /\ f \in 0 .. (n - 1)
      /\ c \in 0 .. (n - 1) /\ Available(p, pos) \in 0 .. (n - 1)
      /\ b + Cut(p, i) = WindowSize + Cut(p, f)
                           - (IF pos < WindowSize THEN Cut(p, n) ELSE 0)
  BY LastFacts
<1>4. PICK m \in 1 .. n : WindowSize * n = m * T
  BY DEF WholeSegments
<1>5. WindowSize <= T
  <2>1. m * T <= T * n
    BY <1>1, <1>4
  <2>2. WindowSize * n <= T * n
    BY <2>1, <1>4
  <2> QED  BY <2>2, <1>1
<1>6. /\ StartAt(t) \in Nat /\ f * T <= StartAt(t) * n
  BY <1>5, BeginFacts
<1>7. \/ w = i - 1
      \/ w \in i .. Available(p, pos) /\ Before(p, i, w) < b
  BY <1>1, <1>3, LastWrittenFacts DEF LastOf
<1>8. c * T <= pos * n /\ pos * n < c * T + T
  <2>1. T * c <= pos * n /\ pos * n < T * c + T
    BY <1>2, SegmentFacts
  <2>2. T * c = c * T
    BY <1>1, <1>3
  <2> QED  BY <2>1, <2>2
<1>9. (w + 1) * T <= pos * n
  <2>1. CASE w = i - 1
    <3>1. CASE pos < WindowSize
      <4>1. w + 1 = 0
        BY <2>1, <3>1 DEF BeginsAt
      <4>2. 0 * T = 0 /\ 0 <= pos * n
        BY <1>1, <1>2
      <4> QED  BY <4>1, <4>2
    <3>2. CASE ~(pos < WindowSize)
      <4>1. w + 1 = f
        BY <2>1, <3>2, <1>3 DEF BeginsAt
      <4>2. StartAt(t) <= pos
        BY <3>2, <1>1, <1>2 DEF StartAt
      <4>3. StartAt(t) * n <= pos * n /\ StartAt(t) * n \in Int
            /\ pos * n \in Int /\ f * T \in Int
        BY <4>2, <1>1, <1>2, <1>3, <1>6
      <4>4. f * T <= pos * n
        <5> HIDE DEF f, n, T, pos
        <5> QED  BY <4>3, <1>6
      <4> QED  BY <4>1, <4>4
    <3> QED  BY <3>1, <3>2
  <2>2. CASE w \in i .. Available(p, pos) /\ c # 0
    <3>1. w + 1 <= c
      BY <2>2, <1>3, <1>1 DEF Available
    <3>2. (w + 1) * T <= c * T /\ (w + 1) * T \in Int /\ c * T \in Int
          /\ pos * n \in Int
      BY <3>1, <1>1, <1>2, <1>3
    <3> HIDE DEF w, T, c, pos, n
    <3> QED  BY <3>2, <1>8
  <2>3. CASE w \in i .. Available(p, pos) /\ Before(p, i, w) < b /\ c = 0
    <3>1. pos * n < T
      BY <1>8, <2>3, <1>1, <1>2
    <3>2. pos < WindowSize
      <4>1. T <= m * T
        BY <1>1, <1>4
      <4>2. pos * n < WindowSize * n
        BY <3>1, <4>1, <1>1, <1>2, <1>4
      <4> QED  BY <4>2, <1>1, <1>2
    <3>3. w \in 0 .. n /\ f \in 0 .. n /\ n \in 0 .. n /\ i \in 0 .. n
      BY <2>3, <1>1, <1>3
    <3>4. /\ Cut(p, w) \in Nat /\ Cut(p, f) \in Nat /\ Cut(p, n) \in Nat
          /\ Cut(p, i) \in Nat
      BY <3>3, CutFacts
    <3>5. /\ Cut(p, w) * n = w * T /\ Cut(p, f) * n = f * T
          /\ Cut(p, n) * n = n * T
      BY <3>3, EvenCuts
    <3>6. Cut(p, w) + Cut(p, n) < WindowSize + Cut(p, f)
      BY <2>3, <3>2, <3>4, <1>1, <1>3 DEF Before
    <3>7. w * T + n * T < m * T + f * T
      <4>1. (Cut(p, w) + Cut(p, n)) * n < (WindowSize + Cut(p, f)) * n
        BY <3>4, <3>6, <1>1
      <4>2. (Cut(p, w) + Cut(p, n)) * n = w * T + n * T
        BY <3>4, <3>5, <1>1, StreamTime
      <4>3. (WindowSize + Cut(p, f)) * n = m * T + f * T
        BY <3>4, <3>5, <1>1, <1>4, StreamTime
      <4> QED  BY <4>1, <4>2, <4>3
    <3>8. m * T + f * T < n * T + T
      <4>1. StartAt(t) * n = pos * n - m * T + n * T
        <5>1. StartAt(t) = pos - WindowSize + T
          BY <3>2 DEF StartAt
        <5>2. (pos - WindowSize + T) * n
                = pos * n - WindowSize * n + T * n
          BY <1>1, <1>2
        <5>3. T * n = n * T
          BY <1>1
        <5> QED  BY <5>1, <5>2, <5>3, <1>4
      <4>2. /\ pos * n \in Int /\ m * T \in Int /\ f * T \in Int
            /\ n * T \in Int
        BY <1>1, <1>2, <1>3, <1>4
      <4> HIDE DEF pos, n, T, f
      <4> QED  BY <4>1, <4>2, <3>1, <1>6, <1>1
    <3>9. w * T < T - 0 /\ T * (w + n) < T * (n + 0 + 1)
      <4>1. w * T + n * T < n * T + T
        <5>1. /\ w * T \in Int /\ m * T \in Int /\ f * T \in Int
              /\ n * T \in Int
          BY <3>3, <1>1, <1>3, <1>4
        <5> HIDE DEF w, n, T, f
        <5> QED  BY <5>1, <3>7, <3>8, <1>1
      <4>2. T * (w + n) = w * T + n * T /\ T * (n + 0 + 1) = n * T + T
        BY <3>3, <1>1
      <4>3. w * T \in Int /\ n * T \in Int
        BY <3>3, <1>1
      <4> HIDE DEF w, n, T
      <4> QED  BY <4>1, <4>2, <4>3, <1>1
    <3>10. f <= n - m /\ w + n < m + f
      <4>1. T * (m + f) < T * (n + 1)
        <5>1. T * (m + f) = m * T + f * T /\ T * (n + 1) = n * T + T
          BY <1>1, <1>3, <1>4
        <5> QED  BY <5>1, <3>8
      <4>2. m + f <= n
        BY <4>1, <1>1, <1>3, <1>4, Between
      <4>3. T * (w + n) < T * (m + f)
        <5>1. T * (w + n) = w * T + n * T /\ T * (m + f) = m * T + f * T
          BY <3>3, <1>1, <1>3, <1>4
        <5> QED  BY <5>1, <3>7
      <4>4. m + f = (m + f - 1) + 1
        BY <1>3, <1>4
      <4>5. w + n <= m + f - 1
        <5>1. w + n \in Int /\ m + f - 1 \in Int
          BY <3>3, <1>1, <1>3, <1>4
        <5> QED  BY <5>1, <4>3, <4>4, <1>1, Between
      <4> QED  BY <4>2, <4>5, <3>3, <1>1, <1>3, <1>4
    <3> QED  BY <3>10, <3>3, <1>1, <1>3, <1>4
  <2> QED  BY <1>7, <2>1, <2>2, <2>3
<1>10. /\ t * n = (T * Loop(t)) * n + pos * n
       /\ (LastListed(p, t) + 1) * T = (T * Loop(t)) * n + (w + 1) * T
  <2>1. w + 1 \in Int /\ LastListed(p, t) + 1 = Loop(t) * n + (w + 1)
    BY <1>1, <1>2, <1>3
  <2>2. (T * Loop(t) + pos) * n = (T * Loop(t)) * n + pos * n
    BY <1>1, <1>2, StreamTime
  <2>3. (Loop(t) * n + (w + 1)) * T = (T * Loop(t)) * n + (w + 1) * T
    BY <2>1, <1>1, <1>2, StreamTime
  <2> QED  BY <2>1, <2>2, <2>3, <1>2
<1>11. (T * Loop(t)) * n \in Int /\ pos * n \in Int /\ (w + 1) * T \in Int
  BY <1>1, <1>2, <1>3
<1> HIDE DEF n, T, pos, w
<1> QED  BY <1>5, <1>9, <1>10, <1>11 DEF n, T

(* A playlist that is up to date was written less than Wait(p) ago.        *)
LEMMA WrittenLately ==
  ASSUME LoopInvariant, NEW p \in Playlists, NEW t \in 0 .. now, Recent(p, t)
  PROVE  now - t <= Wait(p) /\ Wait(p) \in Nat
<1> DEFINE u == clip.unit[p]  T == clip.total
<1>1. clip \in Clips /\ now \in Nat /\ t \in Nat
  BY DEF LoopInvariant
<1>2. MaxDelay \in Nat /\ u \in Nat \ {0} /\ T \in Nat \ {0}
  BY <1>1, ClipFacts
<1>3. CASE p = "ll"
  BY <1>1, <1>2, <1>3 DEF Recent, Wait
<1>4. CASE p # "ll"
  <2> DEFINE q == Index(p, now)  a == Position(t)  b == Position(now)
             x == T * Loop(now)
  <2>1. /\ a \in Nat /\ b \in Nat /\ x \in Int
        /\ now = x + b /\ t = x + a
    <3>1. Loop(t) = Loop(now)
      BY <1>4 DEF Recent
    <3>2. /\ Loop(now) \in Nat /\ a \in 0 .. (T - 1) /\ b \in 0 .. (T - 1)
          /\ now = T * Loop(now) + b /\ t = T * Loop(t) + a
      BY <1>1, ClipLoops
    <3> QED  BY <3>1, <3>2, <1>2
  <2>2. /\ q \in Nat /\ u * q <= a /\ b < u * q + u
    <3>1. a \div u = q /\ b \div u = q
      BY <1>4 DEF Recent, Index
    <3>2. /\ q \in Nat /\ a = u * q + (a % u) /\ a % u \in 0 .. (u - 1)
          /\ b = u * q + (b % u) /\ b % u \in 0 .. (u - 1)
      BY <3>1, <2>1, <1>2, Division
    <3>3. u * q \in Nat
      BY <3>2, <1>2
    <3> HIDE DEF q, a, b, u
    <3> QED  BY <3>2, <3>3, <1>2
  <2>3. u * q \in Nat
    BY <2>2, <1>2
  <2>4. now - t < u
    <3> HIDE DEF q, a, b, u, x
    <3> QED  BY <2>1, <2>2, <2>3, <1>2
  <2> QED  BY <2>4, <1>1, <1>2, <1>4 DEF Wait
<1> QED  BY <1>3, <1>4

(***************************************************************************)
(* A playlist of generateVariantPlaylistCore ends at the live edge, in     *)
(* every clip of segments of one length of which the window is a whole     *)
(* number, however many writes fail: nothing on air is listed, and a       *)
(* playlist whose last write succeeded misses no more than the segment on  *)
(* air and what has passed since.                                          *)
(***************************************************************************)
THEOREM EdgeIsLive == LoopSpec => []EndsAtLiveEdge
<1>1. NumberingInvariant => EndsAtLiveEdge
  <2> SUFFICES ASSUME NumberingInvariant, NEW p \in Playlists, EvenlyCut(p),
                      WholeSegments(p), Listed(p)
               PROVE  /\ Ended(p) <= now * N(p)
                      /\ up /\ last[p] >= 0 /\ fresh[p]
                           => now * N(p)
                                < Ended(p) + clip.total + Wait(p) * N(p)
    BY DEF EndsAtLiveEdge
  <2> DEFINE n == N(p)  T == clip.total
  <2>1. clip \in Clips /\ now \in Nat /\ LoopInvariant /\ UpToDate
    BY DEF NumberingInvariant, LoopInvariant
  <2>2. n \in Nat \ {0} /\ T \in Nat \ {0}
    BY <2>1, WindowFacts
  <2>3. Ended(p) <= now * n
    <3>1. PICK t \in 0 .. now : WrittenAt(p, t)
      BY DEF NumberingInvariant, Numbered
    <3>2. t \in Nat /\ t <= now
      BY <2>1
    <3>3. Ended(p) <= t * n
      BY <3>1, <3>2, <2>1, ListsTheEnded DEF WrittenAt, Ended
    <3>4. t * n <= now * n /\ t * n \in Int /\ now * n \in Int
      BY <3>2, <2>1, <2>2
    <3>5. Ended(p) \in Int
      <4>1. LastListed(p, t) \in Int
        BY <3>2, <2>1, LastFacts
      <4> QED  BY <4>1, <3>1, <2>2 DEF WrittenAt, Ended
    <3> HIDE DEF n
    <3> QED  BY <3>3, <3>4, <3>5
  <2>4. ASSUME up, last[p] >= 0, fresh[p]
        PROVE  now * n < Ended(p) + T + Wait(p) * n
    <3>1. PICK t \in 0 .. now : WrittenAt(p, t) /\ Recent(p, t)
      BY <2>1, <2>4 DEF UpToDate
    <3>2. t \in Nat /\ t <= now
      BY <2>1
    <3>3. now - t <= Wait(p) /\ Wait(p) \in Nat
      BY <3>1, <2>1, WrittenLately
    <3>4. WindowSize <= T
      BY <3>2, <2>1, ListsTheEnded
    <3>5. /\ file[p].hi \in Int /\ t * n < (file[p].hi + 2) * T
      BY <3>1, <3>2, <3>4, <2>1, ReachesTheEdge DEF WrittenAt
    <3>6. (file[p].hi + 2) * T = Ended(p) + T /\ Ended(p) \in Int
      <4> DEFINE h == file[p].hi
      <4>1. h \in Int /\ T \in Int
        BY <3>5, <2>2
      <4>2. Ended(p) = (h + 1) * T
        BY DEF Ended
      <4> HIDE DEF h, T
      <4>3. /\ (h + 1) * T = h * T + T /\ (h + 2) * T = h * T + T + T
            /\ h * T \in Int
        BY <4>1, StreamTime
      <4>4. (h + 2) * T = Ended(p) + T /\ Ended(p) \in Int
        BY <4>1, <4>2, <4>3
      <4> QED  BY <4>4 DEF h
    <3>7. now * n <= t * n + Wait(p) * n
      <4>1. now * n <= (t + Wait(p)) * n
        BY <3>2, <3>3, <2>1, <2>2
      <4>2. (t + Wait(p)) * n = t * n + Wait(p) * n
        BY <3>2, <3>3, <2>2, StreamTime
      <4> QED  BY <4>1, <4>2
    <3>8. t * n \in Int /\ now * n \in Int /\ Wait(p) * n \in Int
      BY <3>2, <3>3, <2>1, <2>2
    <3> HIDE DEF n, T
    <3> QED  BY <3>5, <3>6, <3>7, <3>8, <2>2
  <2> QED  BY <2>3, <2>4
<1> QED  BY <1>1, NumberingInvariance, PTL

(***************************************************************************)
(* The segments listed and the one on air span the window, in every clip   *)
(* of segments of one length that is no shorter than the window, from      *)
(* loop to loop.                                                           *)
(***************************************************************************)
THEOREM WindowIsSpanned == LoopSpec => []SpansWindow
<1>1. NumberingInvariant => SpansWindow
  <2> SUFFICES ASSUME NumberingInvariant, NEW p \in Playlists, EvenlyCut(p),
                      WindowSize <= clip.total, Listed(p)
               PROVE  (file[p].hi - file[p].lo + 2) * clip.total
                        > WindowSize * N(p)
    BY DEF SpansWindow
  <2> DEFINE n == N(p)  T == clip.total  h == file[p].hi  l == file[p].lo
  <2>1. clip \in Clips /\ now \in Nat
    BY DEF NumberingInvariant, LoopInvariant
  <2>2. n \in Nat \ {0} /\ T \in Nat \ {0} /\ WindowSize \in Nat
    BY <2>1, WindowFacts
  <2>3. PICK t \in 0 .. now : WrittenAt(p, t)
    BY DEF NumberingInvariant, Numbered
  <2>4. t \in Nat
    BY <2>1
  <2>5. h \in Int /\ t * n < (h + 2) * T
    BY <2>1, <2>3, <2>4, ReachesTheEdge DEF WrittenAt
  <2>6. l \in Int /\ l * T <= t * n - WindowSize * n
    BY <2>1, <2>3, <2>4, ReachesTheBeginning DEF WrittenAt
  <2>7. /\ h - l + 2 = (h + 2) - l
        /\ ((h + 2) - l) * T = (h + 2) * T - l * T
        /\ (h + 2) * T \in Int /\ l * T \in Int /\ t * n \in Int
        /\ WindowSize * n \in Int
    BY <2>2, <2>4, <2>5, <2>6, StreamTime
  <2>8. (h - l + 2) * T > WindowSize * n
    <3> HIDE DEF h, l, n, T
    <3> QED  BY <2>5, <2>6, <2>7
  <2> QED  BY <2>8
<1> QED  BY <1>1, NumberingInvariance, PTL

(* The window suits every clip of segments of one length that is no        *)
(* shorter than the window, and whose segments are no longer.              *)
LEMMA EvenClipsFit ==
  ASSUME clip \in Clips, NEW p \in Playlists, EvenlyCut(p),
         WindowSize <= clip.total, clip.total <= WindowSize * N(p)
  PROVE  WindowFits(p)
<1> DEFINE T == clip.total  n == N(p)
<1>1. n \in Nat \ {0} /\ T \in Nat \ {0} /\ WindowSize \in Nat
  BY WindowFacts
<1>2. ASSUME NEW pos \in 0 .. (T - 1), SegmentAt(p, pos) = 0
      PROVE  WindowSize <= Before(p, WindowStart(p, pos), n) + Cut(p, 1)
  <2> DEFINE f == WindowStart(p, pos)
  <2>1. pos \in Nat /\ pos < T
    BY <1>1
  <2>2. Position(pos) = pos
    BY <2>1, <1>1 DEF Position
  <2>3. FirstOf(p, pos) = f
    BY <2>2 DEF FirstOf
  <2>4. f \in 0 .. (n - 1)
    BY <2>1, <2>3, WindowFacts
  <2>5. pos * n < T
    <3>1. pos * n < T * 0 + T
      BY <2>1, <1>2, SegmentFacts
    <3> QED  BY <3>1, <1>1
  <2>6. pos < WindowSize
    <3>1. pos * n < WindowSize * n
      BY <2>1, <2>5, <1>1
    <3> QED  BY <3>1, <2>1, <1>1
  <2>7. f * T <= StartAt(pos) * n
    BY <2>1, <2>3, BeginFacts
  <2>8. StartAt(pos) * n = pos * n - WindowSize * n + n * T
    <3>1. StartAt(pos) = pos - WindowSize + T
      BY <2>2, <2>6 DEF StartAt
    <3>2. (pos - WindowSize + T) * n = pos * n - WindowSize * n + T * n
      BY <2>1, <1>1
    <3>3. T * n = n * T
      BY <1>1
    <3> QED  BY <3>1, <3>2, <3>3
  <2>9. f \in 0 .. n /\ n \in 0 .. n /\ 1 \in 0 .. n
    BY <2>4, <1>1
  <2>10. /\ Cut(p, f) * n = f * T /\ Cut(p, n) * n = n * T
         /\ Cut(p, 1) * n = T
    <3>1. Cut(p, 1) * n = 1 * T
      BY <2>9, EvenCuts
    <3>2. Cut(p, f) * n = f * T /\ Cut(p, n) * n = n * T
      BY <2>9, EvenCuts
    <3> QED  BY <3>1, <3>2, <1>1
  <2>11. Cut(p, f) \in Nat /\ Cut(p, n) \in Nat /\ Cut(p, 1) \in Nat
    BY <2>9, CutFacts
  <2>12. (WindowSize + Cut(p, f)) * n <= (Cut(p, n) + Cut(p, 1)) * n
    <3>1. (WindowSize + Cut(p, f)) * n = WindowSize * n + f * T
          /\ (Cut(p, n) + Cut(p, 1)) * n = n * T + T
      BY <2>10, <2>11, <1>1, StreamTime
    <3>2. /\ pos * n \in Int /\ WindowSize * n \in Int /\ f * T \in Int
          /\ n * T \in Int
      BY <2>1, <2>4, <1>1
    <3> HIDE DEF f, n, T
    <3> QED  BY <3>1, <3>2, <2>5, <2>7, <2>8, <1>1
  <2>13. WindowSize + Cut(p, f) <= Cut(p, n) + Cut(p, 1)
    BY <2>11, <2>12, <1>1
  <2> QED  BY <2>11, <2>13, <1>1 DEF Before
<1> QED  BY <1>2 DEF WindowFits

(***************************************************************************)
(* So they are in every clip of segments of one length, if the window is   *)
(* no longer than the clip and no shorter than a segment.                  *)
(***************************************************************************)
THEOREM EvenClipsSlide ==
  LoopSpec /\ (\A p \in Playlists :
                 /\ EvenlyCut(p)
                 /\ WindowSize <= clip.total
                 /\ clip.total <= WindowSize * N(p))
    => SlidingWindow
<1> DEFINE Even == \A p \in Playlists :
                     /\ EvenlyCut(p)
                     /\ WindowSize <= clip.total
                     /\ clip.total <= WindowSize * N(p)
           Suits == \A p \in Playlists : WindowFits(p)
<1>1. LoopInit => clip \in Clips
  BY DEF LoopInit
<1>2. clip \in Clips /\ Even => Suits
  BY EvenClipsFit
<1>3. LoopSpec /\ Suits => SlidingWindow
  BY WindowSlides
<1>4. LoopSpec /\ Even => Suits
  <2> HIDE DEF Even, Suits
  <2> QED  BY <1>1, <1>2, PTL DEF LoopSpec
<1>5. LoopSpec /\ Even => SlidingWindow
  <2> HIDE DEF Even, Suits
  <2> QED  BY <1>3, <1>4, PTL
<1> QED  BY <1>5
=============================================================================
