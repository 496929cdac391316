----------------------------- MODULE UploadJobs -----------------------------
(***************************************************************************)
(* go-upload: chunked uploads, the encoding jobs they queue, the one       *)
(* worker that encodes, and what operators do to jobs and sources, across  *)
(* crashes of the server.                                                  *)
(*                                                                         *)
(* Rows of the database and files outlive a crash; the queue, the worker   *)
(* and the requests under way do not.  A statement of SQL, or an operation *)
(* on a file, is one step.  The client sends a chunk when the last one has *)
(* been answered, and gives up on an error.                                *)
(*                                                                         *)
(* An upload stands for its session, its source and its job (the jobs of   *)
(* several partial durations are treated alike).  All uploads are of files *)
(* of the same name, and a scan adds one source at most.                   *)
(***************************************************************************)
EXTENDS Naturals, Sequences, SequencesExt

CONSTANTS
  Uploads,
  Reencodes,    \* jobs that operators may create for a source
  Size,         \* chunks of each upload
  Clean,        \* the clean name of the files
  Found,        \* the source a scan adds
  None,
  Capacity,     \* of the queue's channel (100)
  MaxCrashes,   \* bound: crashes
  MaxRequests   \* bound: requests of operators

ASSUME UploadAssumption ==
  /\ Size \in [Uploads -> Nat \ {0}]
  /\ Capacity \in Nat \ {0}
  /\ {MaxCrashes, MaxRequests} \subseteq Nat
  /\ Uploads \cap Reencodes = {}
  /\ {Clean, Found, None} \cap (Uploads \cup Reencodes) = {}

Jobs == Uploads \cup Reencodes
Sources == Uploads \cup {Found}
Files == Uploads \cup {Clean}

VARIABLES
  (* tables and files *)
  job,       \* status of each job's row
  encodes,   \* the source of each job
  row,       \* file of each source's row
  disk,      \* the chunks in each file
  meta,      \* metadata file of each upload: the name of its file
  (* memory *)
  queue,     \* Queue
  waiting,   \* goroutines that wait to put a job into it
  worker,    \* the worker and the job it is at
  killed,    \* its encoder has been killed
  input,     \* what its encoder read
  boot,      \* interrupted jobs still to be reset
  reset,     \* the one that has been, and is to be queued
  pc,        \* each upload's request
  sent,      \* chunks of it that have been answered
  op,        \* an operator's request
  (* bounds and ghosts *)
  crashes, requests,
  encoded,   \* how often each job has been completed, up to 2
  revived,   \* jobs that were being uploaded when a crash queued them
  removed    \* files that have been deleted

tables == <<job, encodes, row>>
files == <<disk, meta>>
queueVars == <<queue, waiting>>
workerVars == <<worker, killed, input>>
bootVars == <<boot, reset>>
clientVars == <<pc, sent>>
opVars == <<op, requests>>
ghosts == <<crashes, encoded, revived, removed>>
vars == <<tables, files, queueVars, workerVars, bootVars, clientVars, opVars,
          ghosts>>

Active == {"queued", "uploading", "encoding"}
Statuses == Active \cup {"none", "complete", "failed", "cancelled", "deleted"}
Requests ==
  [what : {"none"}]
    \cup [what : {"kill", "mark"}, job : Jobs]
    \cup [what : {"unlink", "drop"}, source : Sources]
    \cup [what : {"create", "enqueue"}, job : Jobs, source : Sources]
    \cup [what : {"index"}, known : SUBSET Files]
NoRequest == [what |-> "none"]
Resting == [pc |-> "idle"]

TypeOK ==
  /\ job \in [Jobs -> Statuses]
  /\ encodes \in [Jobs -> Sources]
  /\ row \in [Sources -> Files \cup {None}]
  /\ \A f \in Files : \A i \in DOMAIN disk[f] : disk[f][i] \in Uploads \X Nat
  /\ meta \in [Uploads -> Files \cup {None}]
  /\ \A i \in DOMAIN queue : queue[i] \in Jobs
  /\ Len(queue) <= Capacity
  /\ waiting \in [Jobs -> Nat]
  /\ worker \in {Resting} \cup
       [pc : {"load", "resolve", "run", "failed", "done"}, job : Jobs]
  /\ killed \in BOOLEAN
  /\ boot \subseteq Jobs
  /\ reset \in Jobs \cup {None}
  /\ pc \in [Uploads -> {"new", "init", "ready", "append", "report", "valid",
                         "invalid", "queue", "enqueue", "close", "gone"}]
  /\ \A u \in Uploads : sent[u] \in 0 .. Size[u]
  /\ op \in Requests
  /\ encoded \in [Jobs -> 0 .. 2]

Init ==
  /\ job = [j \in Jobs |-> "none"]
  /\ encodes = [j \in Jobs |-> IF j \in Uploads THEN j ELSE Found]
  /\ row = [s \in Sources |-> None]
  /\ disk = [f \in Files |-> << >>]
  /\ meta = [u \in Uploads |-> None]
  /\ queue = << >> /\ waiting = [j \in Jobs |-> 0]
  /\ worker = Resting /\ killed = FALSE /\ input = << >>
  /\ boot = {} /\ reset = None
  /\ pc = [u \in Uploads |-> "new"] /\ sent = [u \in Uploads |-> 0]
  /\ op = NoRequest /\ requests = 0
  /\ crashes = 0
  /\ encoded = [j \in Jobs |-> 0] /\ revived = {} /\ removed = {}

Serving == boot = {} /\ reset = None

SetStatus_Upsert(j, status) == job' = [job EXCEPT ![j] = status]

(* UpdateJobStatus changes a row that is there.                            *)
SetStatus(j, status) ==
  job' = IF job[j] \in {"none", "deleted"} THEN job
                                           ELSE [job EXCEPT ![j] = status]

Enqueue_Drops(j) ==
  /\ queue' = IF Len(queue) < Capacity THEN Append(queue, j) ELSE queue
  /\ UNCHANGED waiting

Enqueue(j) ==
  IF Len(queue) < Capacity
  THEN queue' = Append(queue, j) /\ UNCHANGED waiting
  ELSE waiting' = [waiting EXCEPT ![j] = @ + 1] /\ UNCHANGED queue

Unblock(j) ==
  /\ waiting[j] > 0 /\ Len(queue) < Capacity
  /\ queue' = Append(queue, j)
  /\ waiting' = [waiting EXCEPT ![j] = @ - 1]
  /\ UNCHANGED <<tables, files, workerVars, bootVars, clientVars, opVars,
                 ghosts>>

-----------------------------------------------------------------------------
(* UploadInit, UploadChunk and UploadComplete.                             *)

Goes(u, to) == pc' = [pc EXCEPT ![u] = to]

(* ResolveUploadFilename: the clean name, unless there is such a file.     *)
Name(u) == IF disk[Clean] = << >> THEN Clean ELSE u

InitUpload_Source(u) ==
  /\ Serving /\ pc[u] = "new"
  /\ job' = [job EXCEPT ![u] = "uploading"]
  /\ meta' = [meta EXCEPT ![u] = Name(u)]
  /\ row' = [row EXCEPT ![u] = Name(u)]
  /\ Goes(u, "init")
  /\ UNCHANGED <<encodes, disk, queueVars, workerVars, bootVars, sent, opVars,
                 ghosts>>

(* The name is resolved and the job's row created.  The name is kept in    *)
(* the metadata file, written next: Init's answer comes after that.        *)
InitUpload(u) ==
  /\ Serving /\ pc[u] = "new"
  /\ job' = [job EXCEPT ![u] = "uploading"]
  /\ meta' = [meta EXCEPT ![u] = Name(u)]
  /\ Goes(u, "init")
  /\ UNCHANGED <<encodes, row, disk, queueVars, workerVars, bootVars, sent,
                 opVars, ghosts>>

AnswerInit(u) ==
  /\ pc[u] = "init"
  /\ Goes(u, "ready")
  /\ UNCHANGED <<tables, files, queueVars, workerVars, bootVars, sent, opVars,
                 ghosts>>

GiveUp(u) ==
  /\ pc[u] = "ready"
  /\ Goes(u, "gone")
  /\ UNCHANGED <<tables, files, queueVars, workerVars, bootVars, sent, opVars,
                 ghosts>>

SendChunk(u) ==
  /\ Serving /\ pc[u] = "ready" /\ sent[u] < Size[u]
  /\ Goes(u, "append")
  /\ UNCHANGED <<tables, files, queueVars, workerVars, bootVars, sent, opVars,
                 ghosts>>

AppendChunk(u) ==
  /\ pc[u] = "append"
  /\ disk' = [disk EXCEPT ![meta[u]] = Append(@, <<u, sent[u] + 1>>)]
  /\ Goes(u, "report")
  /\ UNCHANGED <<tables, meta, queueVars, workerVars, bootVars, sent, opVars,
                 ghosts>>

ReportChunk(u) ==
  /\ pc[u] = "report"
  /\ SetStatus(u, "uploading")
  /\ sent' = [sent EXCEPT ![u] = @ + 1]
  /\ Goes(u, "ready")
  /\ UNCHANGED <<encodes, row, files, queueVars, workerVars, bootVars, opVars,
                 ghosts>>

(* The file is looked for and probed.                                      *)
Validate(u) ==
  /\ Serving /\ pc[u] = "ready" /\ sent[u] = Size[u]
  /\ IF disk[meta[u]] = << >> THEN Goes(u, "gone")
                              ELSE Goes(u, "valid") \/ Goes(u, "invalid")
  /\ UNCHANGED <<tables, files, queueVars, workerVars, bootVars, sent, opVars,
                 ghosts>>

RemoveInvalid(u) ==
  /\ pc[u] = "invalid"
  /\ disk' = [disk EXCEPT ![meta[u]] = << >>]
  /\ removed' = removed \cup {meta[u]}
  /\ Goes(u, "gone")
  /\ UNCHANGED <<tables, meta, queueVars, workerVars, bootVars, sent, opVars,
                 crashes, encoded, revived>>

CreateSource(u) ==
  /\ pc[u] = "valid"
  /\ row' = [row EXCEPT ![u] = meta[u]]
  /\ Goes(u, "queue")
  /\ UNCHANGED <<job, encodes, files, queueVars, workerVars, bootVars, sent,
                 opVars, ghosts>>

MarkQueued(u) ==
  /\ pc[u] = "queue"
  /\ SetStatus(u, "queued")
  /\ Goes(u, "enqueue")
  /\ UNCHANGED <<encodes, row, files, queueVars, workerVars, bootVars, sent,
                 opVars, ghosts>>

EnqueueUpload(u) ==
  /\ pc[u] = "enqueue"
  /\ Enqueue(u)
  /\ Goes(u, "close")
  /\ UNCHANGED <<tables, files, workerVars, bootVars, sent, opVars, ghosts>>

RemoveMetadata(u) ==
  /\ pc[u] = "close"
  /\ meta' = [meta EXCEPT ![u] = None]
  /\ Goes(u, "gone")
  /\ UNCHANGED <<tables, disk, queueVars, workerVars, bootVars, sent, opVars,
                 ghosts>>

-----------------------------------------------------------------------------
(* The worker: ExecuteEncodingJob.                                         *)

At(to) == worker' = [worker EXCEPT !.pc = to]

(* A job whose row has been deleted is passed over.                        *)
Take ==
  /\ worker = Resting /\ queue # << >>
  /\ queue' = Tail(queue)
  /\ worker' = IF job[Head(queue)] = "deleted"
               THEN Resting ELSE [pc |-> "load", job |-> Head(queue)]
  /\ UNCHANGED <<tables, files, waiting, killed, input, bootVars, clientVars,
                 opVars, ghosts>>

Begin ==
  /\ worker # Resting /\ worker.pc = "load"
  /\ SetStatus(worker.job, "encoding")
  /\ At("resolve")
  /\ UNCHANGED <<encodes, row, files, queueVars, killed, input, bootVars,
                 clientVars, opVars, ghosts>>

(* The encoder is started on the source's file.                            *)
Resolve ==
  /\ worker # Resting /\ worker.pc = "resolve"
  /\ LET file == row[encodes[worker.job]] IN
       IF file = None
       THEN At("failed") /\ UNCHANGED <<killed, input>>
       ELSE At("run") /\ killed' = FALSE /\ input' = disk[file]
  /\ UNCHANGED <<tables, files, queueVars, bootVars, clientVars, opVars,
                 ghosts>>

(* A line of the encoder's output moves the job's progress.                *)
Progress ==
  /\ worker # Resting /\ worker.pc = "run"
  /\ SetStatus(worker.job, "encoding")
  /\ UNCHANGED <<encodes, row, files, queueVars, workerVars, bootVars,
                 clientVars, opVars, ghosts>>

EncoderEnds ==
  /\ worker # Resting /\ worker.pc = "run"
  /\ At("failed") \/ (~killed /\ input # << >> /\ At("done"))
  /\ UNCHANGED <<tables, files, queueVars, killed, input, bootVars, clientVars,
                 opVars, ghosts>>

Finish ==
  /\ worker # Resting /\ worker.pc \in {"failed", "done"}
  /\ SetStatus(worker.job, IF worker.pc = "done" THEN "complete" ELSE "failed")
  /\ worker' = Resting /\ killed' = FALSE /\ input' = << >>
  /\ encoded' = IF worker.pc = "done" /\ encoded[worker.job] < 2
                THEN [encoded EXCEPT ![worker.job] = @ + 1] ELSE encoded
  /\ UNCHANGED <<encodes, row, files, queueVars, bootVars, clientVars, opVars,
                 crashes, revived, removed>>

-----------------------------------------------------------------------------
(* A crash, and the start that follows: RequeueInterruptedJobs, before the *)
(* server listens again.  Requests under way end in an error.              *)

Interrupted_Begun == {"uploading", "encoding"}
Interrupted_NotFailed == Active \cup {"complete"}
Interrupted == Active

Crash ==
  /\ crashes < MaxCrashes
  /\ crashes' = crashes + 1
  /\ queue' = << >> /\ waiting' = [j \in Jobs |-> 0]
  /\ worker' = Resting /\ killed' = FALSE /\ input' = << >>
  /\ boot' = {j \in Jobs : job[j] \in Interrupted} /\ reset' = None
  /\ revived' = revived \cup {j \in Jobs : job[j] = "uploading"}
  /\ pc' = [u \in Uploads |-> IF pc[u] \in {"new", "ready"} THEN pc[u]
                                                            ELSE "gone"]
  /\ op' = NoRequest
  /\ UNCHANGED <<tables, files, sent, requests, encoded, removed>>

Reset(j) ==
  /\ reset = None /\ j \in boot
  /\ boot' = boot \ {j} /\ reset' = j
  /\ SetStatus(j, "queued")
  /\ UNCHANGED <<encodes, row, files, queueVars, workerVars, clientVars,
                 opVars, ghosts>>

Requeue ==
  /\ reset # None
  /\ Enqueue(reset)
  /\ reset' = None
  /\ UNCHANGED <<tables, files, workerVars, boot, clientVars, opVars, ghosts>>

-----------------------------------------------------------------------------
(* Operators, one request at a time.                                       *)

Asks(request) ==
  /\ Serving /\ op = NoRequest /\ requests < MaxRequests
  /\ requests' = requests + 1
  /\ op' = request

Elsewhere == UNCHANGED <<queueVars, bootVars, clientVars, meta, requests,
                         crashes, encoded, revived>>

CancelJob(j) ==
  /\ job[j] \in Active
  /\ Asks([what |-> "kill", job |-> j])
  /\ UNCHANGED <<tables, files, queueVars, workerVars, bootVars, clientVars,
                 ghosts>>

Kill ==
  /\ op.what = "kill"
  /\ killed' = (killed \/ worker = [pc |-> "run", job |-> op.job])
  /\ op' = [op EXCEPT !.what = "mark"]
  /\ Elsewhere /\ UNCHANGED <<tables, disk, worker, input, removed>>

MarkCancelled ==
  /\ op.what = "mark"
  /\ SetStatus(op.job, "cancelled")
  /\ op' = NoRequest
  /\ Elsewhere /\ UNCHANGED <<encodes, row, disk, workerVars, removed>>

DeleteJob(j) ==
  /\ Serving /\ op = NoRequest /\ requests < MaxRequests
  /\ job[j] \notin {"none", "deleted"}
  /\ requests' = requests + 1
  /\ job' = [job EXCEPT ![j] = "deleted"]
  /\ UNCHANGED <<encodes, row, files, queueVars, workerVars, bootVars,
                 clientVars, op, ghosts>>

(* No job of the source may be queued or encoding.                         *)
DeleteSource(s) ==
  /\ row[s] # None
  /\ \A j \in Jobs : encodes[j] = s => job[j] \notin {"queued", "encoding"}
  /\ Asks([what |-> "unlink", source |-> s])
  /\ UNCHANGED <<tables, files, queueVars, workerVars, bootVars, clientVars,
                 ghosts>>

Unlink ==
  /\ op.what = "unlink"
  /\ disk' = [disk EXCEPT ![row[op.source]] = << >>]
  /\ removed' = removed \cup {row[op.source]}
  /\ op' = [op EXCEPT !.what = "drop"]
  /\ Elsewhere /\ UNCHANGED <<tables, workerVars>>

DropRow ==
  /\ op.what = "drop"
  /\ row' = [row EXCEPT ![op.source] = None]
  /\ op' = NoRequest
  /\ Elsewhere /\ UNCHANGED <<job, encodes, disk, workerVars, removed>>

(* ReencodeSource, and each job of BatchReencodeJSON.                      *)
Reencode(r, s) ==
  /\ job[r] = "none" /\ row[s] # None
  /\ Asks([what |-> "create", job |-> r, source |-> s])
  /\ UNCHANGED <<tables, files, queueVars, workerVars, bootVars, clientVars,
                 ghosts>>

CreateJob ==
  /\ op.what = "create"
  /\ job' = [job EXCEPT ![op.job] = "queued"]
  /\ encodes' = [encodes EXCEPT ![op.job] = op.source]
  /\ op' = [op EXCEPT !.what = "enqueue"]
  /\ Elsewhere /\ UNCHANGED <<row, disk, workerVars, removed>>

EnqueueReencode ==
  /\ op.what = "enqueue"
  /\ Enqueue(op.job)
  /\ op' = NoRequest
  /\ UNCHANGED <<tables, files, workerVars, bootVars, clientVars, requests,
                 ghosts>>

(* ScanOriginals, called by ListSources too, with the files of the sources *)
(* it has read.                                                            *)
Scan ==
  /\ row[Found] = None
  /\ Asks([what |-> "index", known |-> {row[s] : s \in Sources} \ {None}])
  /\ UNCHANGED <<tables, files, queueVars, workerVars, bootVars, clientVars,
                 ghosts>>

(* A file that cannot be probed, like many a part of one, is skipped.      *)
IndexFile ==
  /\ op.what = "index"
  /\ \/ \E f \in Files \ op.known :
          disk[f] # << >> /\ row' = [row EXCEPT ![Found] = f]
     \/ UNCHANGED row
  /\ op' = NoRequest
  /\ Elsewhere /\ UNCHANGED <<job, encodes, disk, workerVars, removed>>

-----------------------------------------------------------------------------
Handler(u) ==
  \/ AnswerInit(u) \/ AppendChunk(u) \/ ReportChunk(u)
  \/ RemoveInvalid(u) \/ CreateSource(u) \/ MarkQueued(u) \/ EnqueueUpload(u)
  \/ RemoveMetadata(u)

Client(u) == InitUpload(u) \/ SendChunk(u) \/ Validate(u) \/ GiveUp(u)

WorkerStep == Take \/ Begin \/ Resolve \/ EncoderEnds \/ Finish

Boot == (\E j \in Jobs : Reset(j)) \/ Requeue

OpStep ==
  \/ Kill \/ MarkCancelled \/ Unlink \/ DropRow
  \/ CreateJob \/ EnqueueReencode \/ IndexFile

Ask ==
  \/ \E j \in Jobs : CancelJob(j) \/ DeleteJob(j)
  \/ \E s \in Sources :
       DeleteSource(s) \/ \E r \in Reencodes : Reencode(r, s)
  \/ Scan

Next ==
  \/ \E u \in Uploads : Client(u) \/ Handler(u)
  \/ \E j \in Jobs : Unblock(j)
  \/ WorkerStep \/ Progress
  \/ Boot \/ Crash
  \/ Ask \/ OpStep

Spec == Init /\ [][Next]_vars

(* Goroutines of the server go on, and encoders end.                       *)
FairSpec ==
  /\ Spec
  /\ \A u \in Uploads : WF_vars(Handler(u))
  /\ \A j \in Jobs : WF_vars(Unblock(j))
  /\ WF_vars(WorkerStep) /\ WF_vars(Boot) /\ WF_vars(OpStep)

-----------------------------------------------------------------------------
(* Properties.                                                             *)

(* The table and the memory agree, whatever was interrupted: a job whose   *)
(* row says "queued" is on its way to the worker, so that none waits for a *)
(* token that nobody holds, and one whose row says "encoding" is the       *)
(* worker's, or about to be reset.                                         *)
OnItsWay(j) ==
  \/ Contains(queue, j) \/ waiting[j] > 0
  \/ worker = [pc |-> "load", job |-> j]
  \/ j \in boot \cup {reset}
  \/ j \in Uploads /\ pc[j] = "enqueue"
  \/ j \in Reencodes /\ op.what = "enqueue" /\ op.job = j

Encoded(j) == worker # Resting /\ worker.job = j

NoLostJob ==
  \A j \in Jobs :
    /\ job[j] = "queued" => OnItsWay(j)
    /\ job[j] = "encoding" => Encoded(j) \/ j \in boot

(* Of u's chunks, a sequence holds the first n, once each and in order,    *)
(* and no others.                                                          *)
Holds(u, n, chunks) ==
  LET own == {i \in 1 .. Len(chunks) : chunks[i][1] = u} IN
  /\ \A k \in 1 .. n : \E i \in own : chunks[i][2] = k
  /\ \A i \in own : chunks[i][2] \in 1 .. n
  /\ \A i, k \in own : i < k => chunks[i][2] < chunks[k][2]

(* A job never completes from a part of its upload, though a restart       *)
(* queues uploads that are under way: their source is not there yet.  Only *)
(* a file that was deleted, as one a scan found can be, is no longer whole.*)
InputWhole ==
  \A u \in Uploads :
    worker # Resting /\ worker.pc = "done" /\ encodes[worker.job] = u
      => Holds(u, Size[u], input) \/ row[u] = None \/ row[u] \in removed

(* A job is encoded once, however often the server crashes, unless it was  *)
(* queued by a restart in the middle of its upload.                        *)
EncodedOnce == \A j \in Jobs : encoded[j] <= 1 \/ j \in revived

(* A job that has been deleted does not come back with the next progress,  *)
(* restart or end of its encoder.                                          *)
DeletedStays ==
  [][\A j \in Jobs : job[j] = "deleted" => job'[j] = "deleted"]_vars

(* A queued job gets its turn, whatever the others do and however full the *)
(* queue, or is cancelled, deleted or uploaded to again.                   *)
QueuedRuns == \A j \in Jobs : job[j] = "queued" ~> job[j] # "queued"

-----------------------------------------------------------------------------
(* Why they hold: the inductive invariants.                                *)

(* A request under way has the row it started from.                        *)
Unqueued ==
  /\ \A u \in Uploads : pc[u] = "new" => job[u] = "none"
  /\ op.what \in {"create", "enqueue"} => op.job \in Reencodes
  /\ op.what = "create" => job[op.job] = "none"

(* Where a job can be, on its way from the request that makes it to its    *)
(* encoding.                                                               *)
Places == {"upload", "request", "queue", "waiting", "boot", "reset",
           "worker", "encoded"}
Coming(u) == pc[u] \notin {"close", "gone"}
Begun == {"init", "ready", "append", "report", "valid", "invalid", "queue"}

Place(s, j) ==
  \/ s = "queue" /\ Contains(queue, j)
  \/ s = "waiting" /\ waiting[j] > 0
  \/ s = "worker" /\ Encoded(j)
  \/ s = "boot" /\ j \in boot
  \/ s = "reset" /\ reset = j
  \/ s = "upload" /\ j \in Uploads /\ Coming(j)
  \/ s = "request" /\ op.what \in {"create", "enqueue"} /\ op.job = j
  \/ s = "encoded" /\ encoded[j] > 0

(* A job is in one place, and there once.                                  *)
OnePlace(j) == \A s, t \in Places : Place(s, j) /\ Place(t, j) => s = t
QueuedOnce(j) ==
  \A i, k \in 1 .. Len(queue) : queue[i] = j /\ queue[k] = j => i = k

(* Its row fits the place.                                                 *)
Fits(j) ==
  /\ encoded[j] > 0 => job[j] \notin Active
  /\ job[j] = "none" =>
       \A s \in Places : Place(s, j) =>
         \/ s = "upload" /\ pc[j] = "new"
         \/ s = "request" /\ op.what = "create"
  /\ j \in Uploads /\ pc[j] \in Begun
       => job[j] \in {"uploading", "cancelled", "deleted"}

Once(j) ==
  /\ OnePlace(j) /\ Fits(j)
  /\ QueuedOnce(j) /\ waiting[j] <= 1 /\ encoded[j] <= 1

OnceEach == \A j \in Jobs \ revived : Once(j)

(* A job is nowhere before it has a row.                                   *)
RowFirst ==
  \A j \in Jobs : job[j] = "none" =>
    /\ ~Contains(queue, j) /\ waiting[j] = 0 /\ ~Encoded(j)
    /\ j \notin boot \cup {reset}
    /\ j \in Uploads => pc[j] = "new"
    /\ op.what = "enqueue" => op.job # j

(* The file of an upload holds the chunks that have been sent, and a       *)
(* source is created of all of them, so that the encoder reads no less.    *)
Sending == {"init", "ready", "append", "report", "valid"}
OnDisk(u) == IF pc[u] = "report" THEN sent[u] + 1 ELSE sent[u]

FileHoldsSent(u) ==
  /\ pc[u] = "new" => sent[u] = 0 /\ \A f \in Files : Holds(u, 0, disk[f])
  /\ pc[u] \in Sending =>
       /\ meta[u] \in Files
       /\ Holds(u, OnDisk(u), disk[meta[u]]) \/ meta[u] \in removed
  /\ pc[u] = "valid" => sent[u] = Size[u]

SourceIsWhole(u) ==
  row[u] # None =>
    /\ pc[u] \notin Sending \cup {"new", "invalid"}
    /\ Holds(u, Size[u], disk[row[u]]) \/ row[u] \in removed

EncoderReadsWhole(u) ==
  worker # Resting /\ worker.pc \in {"run", "done"} /\ encodes[worker.job] = u
    => /\ pc[u] \notin Sending \cup {"new", "invalid"}
       /\ Holds(u, Size[u], input) \/ row[u] = None \/ row[u] \in removed

WholeInvariant ==
  /\ RowFirst
  /\ \A u \in Uploads :
       FileHoldsSent(u) /\ SourceIsWhole(u) /\ EncoderReadsWhole(u)

-----------------------------------------------------------------------------
(* What the documents or comments say and the steps do not keep.           *)

(* "Cancel queued, uploading, or running job": docs/API.md:67.             *)
CancelSticks ==
  [][\A j \in Jobs : job[j] = "cancelled"
       => job'[j] \in {"cancelled", "deleted"}]_vars

(* "On collision, appends the first 8 chars of sourceID to disambiguate":  *)
(* util/strings.go:33.  The name is taken when the first chunk arrives.    *)
OwnFile ==
  \A u, v \in Uploads : u # v /\ meta[u] = meta[v] => meta[u] = None

(* "Delete source (rejected if active encoding job references it)":        *)
(* docs/API.md:43.  Another may be created after the count.                *)
SourceInUse ==
  [][\A s \in Sources :
       row[s] # None /\ row'[s] = None
         => \A j \in Jobs :
              encodes[j] = s => job[j] \notin {"queued", "encoding"}]_vars
=============================================================================
