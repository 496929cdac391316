----------------------------- MODULE IngestRing -----------------------------
(***************************************************************************)
(* The analytics forwarder: the two batch inserters that pin every row in  *)
(* the in-memory ring until ClickHouse has stored it (main.go, net_log.go, *)
(* ring.go), the evictor, and the timeseries handler that reads ClickHouse *)
(* and the ring and then follows the live channel (timeseries.go).         *)
(*                                                                         *)
(* One player is modelled, that is one key of the ring: keys share nothing *)
(* but a shard's mutex.  A bucket is looked up under the shard's mutex and *)
(* used after it is released: the map may then hold another one, or none.  *)
(* What a bucket that left the map holds is never read again, so entries   *)
(* and lastActivityMs are kept for the one in the map, subscribers for     *)
(* all.                                                                    *)
(*                                                                         *)
(* Time is kept as ages, which stop growing once past the ring's window.   *)
(* Inserts and backfills are assumed to take less than the window: Tick.   *)
(***************************************************************************)
EXTENDS Naturals, Sequences, SequencesExt, FiniteSets

CONSTANTS
  Writers,       \* the batch inserters: samples and network rows
  Readers,       \* clients of /api/v2/timeseries, following the player
  MaxRows,       \* bound: rows ingested
  PrintOf,         \* the fingerprint of each row, by which readers dedupe
  FlushBatch,    \* rows that fill a batch (500)
  SubBuf,        \* a subscriber's channel (64)
  Window,        \* the ring's window, in ticks (600 s)
  LiveWindow,    \* liveActivityWindow (30 s)
  InsertTime,    \* ticks from the arrival of a row to the answer of its INSERT
  BackfillTime   \* ticks a backfill takes

ASSUME IngestAssumption ==
  /\ {MaxRows, SubBuf, FlushBatch, LiveWindow, InsertTime, BackfillTime}
       \subseteq Nat
  /\ DOMAIN PrintOf = 1 .. MaxRows
  /\ Window \in Nat \ {0}
  /\ InsertTime + BackfillTime <= Window
  /\ IsFiniteSet(Writers) /\ IsFiniteSet(Readers)

VARIABLES
  bucket,    \* the bucket the shard's map holds for the player
  ring,      \* its entries
  idle,      \* the age of its lastActivityMs
  subs,      \* the subscribers of each bucket object
  rows,      \* rows ingested so far
  age,       \* its age since TsMs was taken
  status,    \* the status of its ring entry
  stored,    \* the rows ClickHouse holds
  wpc, wref, wrow, buf,   \* an inserter: step, bucket, row being added, batch
  rpc, rref, queue, open, seen, took, live,
             \* a handler: step, bucket, channel, emittedSet, duration
  missed, stray, deaf     \* ghosts, see below

bucketVars == <<bucket, ring, idle, subs>>
rowVars == <<rows, age, status, stored>>
writerVars == <<wpc, wref, wrow, buf>>
readerVars == <<rpc, rref, queue, open, seen, took, live>>
ghosts == <<missed, stray, deaf>>
vars == <<bucketVars, rowVars, writerVars, readerVars, ghosts>>

Row == 1 .. MaxRows
Prints == {PrintOf[i] : i \in Row}
NoBucket == 0
Buckets == 1 .. (1 + Cardinality(Writers) + Cardinality(Readers))
Old == Window + 1        \* the age at which ages stop
Never == Window + 2      \* the age of a lastActivityMs that is still zero

TypeRows ==
  /\ bucket \in Buckets \cup {NoBucket}
  /\ ring \subseteq Row
  /\ idle \in 0 .. Never
  /\ subs \in [Buckets -> SUBSET Readers]
  /\ rows \in 0 .. MaxRows
  /\ age \in [Row -> 0 .. Old]
  /\ status \in [Row -> {"none", "pending", "inserting", "confirmed", "gone"}]
  /\ stored \subseteq Row

TypeWriters ==
  /\ wpc \in [Writers -> {"recv", "add", "flush", "insert", "ok", "failed"}]
  /\ wref \in [Writers -> Buckets \cup {NoBucket}]
  /\ wrow \in [Writers -> Row \cup {0}]
  /\ buf \in [Writers -> SUBSET Row]

TypeReaders ==
  /\ rpc \in [Readers -> {"idle", "subscribe", "check", "query", "scan",
                          "live", "complete", "close"}]
  /\ rref \in [Readers -> Buckets \cup {NoBucket}]
  /\ queue \in [Readers -> Seq(Row)]
  /\ open \in [Readers -> BOOLEAN]
  /\ seen \in [Readers -> SUBSET Prints]
  /\ took \in [Readers -> 0 .. BackfillTime]
  /\ live \in [Readers -> BOOLEAN]
  /\ missed \in [Readers -> SUBSET Row]
  /\ stray \subseteq Row
  /\ deaf \subseteq Readers

TypeOK == TypeRows /\ TypeWriters /\ TypeReaders

Init ==
  /\ bucket = NoBucket
  /\ ring = {}
  /\ idle = Never
  /\ subs = [b \in Buckets |-> {}]
  /\ rows = 0
  /\ age = [i \in Row |-> 0]
  /\ status = [i \in Row |-> "none"]
  /\ stored = {}
  /\ wpc = [w \in Writers |-> "recv"]
  /\ wref = [w \in Writers |-> NoBucket]
  /\ wrow = [w \in Writers |-> 0]
  /\ buf = [w \in Writers |-> {}]
  /\ rpc = [r \in Readers |-> "idle"]
  /\ rref = [r \in Readers |-> NoBucket]
  /\ queue = [r \in Readers |-> << >>]
  /\ open = [r \in Readers |-> FALSE]
  /\ seen = [r \in Readers |-> {}]
  /\ took = [r \in Readers |-> 0]
  /\ live = [r \in Readers |-> FALSE]
  /\ missed = [r \in Readers |-> {}]
  /\ stray = {}
  /\ deaf = {}

-----------------------------------------------------------------------------
(* The bucket objects.  Ring.bucket looks the player up under the shard's  *)
(* mutex, and creates a bucket when the map has none.                      *)

InUse(b) ==
  \/ b = bucket
  \/ \E w \in Writers : wref[w] = b
  \/ \E r \in Readers : rref[r] = b

Created(b) ==
  /\ bucket = NoBucket
  /\ ~InUse(b) /\ \A c \in 1 .. (b - 1) : InUse(c)
  /\ bucket' = b
  /\ ring' = {}
  /\ idle' = Never
  /\ UNCHANGED subs

Lookup(b) ==
  \/ bucket = b /\ UNCHANGED bucketVars
  \/ Created(b)

Younger(a) == IF a < Old THEN a + 1 ELSE a

-----------------------------------------------------------------------------
(* The batch inserters: batchInserter and batchInsertNet.                  *)

(* A row arrives; Add takes its time stamp and looks the bucket up.        *)
Arrive(w) ==
  /\ wpc[w] = "recv" /\ rows < MaxRows
  /\ rows' = rows + 1
  /\ status' = [status EXCEPT ![rows + 1] = "pending"]
  /\ wrow' = [wrow EXCEPT ![w] = rows + 1]
  /\ wpc' = [wpc EXCEPT ![w] = "add"]
  /\ \E b \in Buckets : Lookup(b) /\ wref' = [wref EXCEPT ![w] = b]
  /\ UNCHANGED <<age, stored, buf, readerVars, ghosts>>

Room(r) == Len(queue[r]) < SubBuf

(* Add under the bucket's mutex: append and fan out, dropping the row for  *)
(* a subscriber whose channel is full; then the row joins the batch.       *)
Add(w) ==
  LET b == wref[w]
      i == wrow[w]
  IN
  /\ wpc[w] = "add"
  /\ IF b = bucket THEN ring' = ring \cup {i} /\ idle' = 0 /\ stray' = stray
                   ELSE UNCHANGED <<ring, idle>> /\ stray' = stray \cup {i}
  /\ queue' = [r \in Readers |-> IF r \in subs[b] /\ Room(r)
                                 THEN Append(queue[r], i) ELSE queue[r]]
  /\ missed' = [r \in Readers |-> IF r \in subs[b] /\ ~Room(r) /\ rpc[r] = "live"
                                  THEN missed[r] \cup {i} ELSE missed[r]]
  /\ buf' = [buf EXCEPT ![w] = @ \cup {i}]
  /\ wpc' = [wpc EXCEPT ![w] =
               IF Cardinality(buf[w] \cup {i}) >= FlushBatch THEN "flush" ELSE "recv"]
  /\ wref' = [wref EXCEPT ![w] = NoBucket]
  /\ wrow' = [wrow EXCEPT ![w] = 0]
  /\ UNCHANGED <<bucket, subs, rowVars, rpc, rref, open, seen,
                 took, live, deaf>>

FlushTick_Full(w) ==
  /\ wpc[w] = "recv" /\ Cardinality(buf[w]) >= FlushBatch
  /\ wpc' = [wpc EXCEPT ![w] = "flush"]
  /\ UNCHANGED <<bucketVars, rowVars, wref, wrow, buf, readerVars, ghosts>>

(* The flush ticker, 250 ms.                                               *)
FlushTick(w) ==
  /\ wpc[w] = "recv" /\ buf[w] # {}
  /\ wpc' = [wpc EXCEPT ![w] = "flush"]
  /\ UNCHANGED <<bucketVars, rowVars, wref, wrow, buf, readerVars, ghosts>>

MarkInserting(w) ==
  /\ wpc[w] = "flush"
  /\ status' = [i \in Row |-> IF i \in buf[w] /\ status[i] = "pending"
                              THEN "inserting" ELSE status[i]]
  /\ wpc' = [wpc EXCEPT ![w] = "insert"]
  /\ UNCHANGED <<bucketVars, rows, age, stored, wref, wrow, buf,
                 readerVars, ghosts>>

(* The INSERT: stored and acknowledged, stored but the answer is lost, or  *)
(* refused.                                                                *)
Insert(w) ==
  /\ wpc[w] = "insert"
  /\ \/ /\ stored' = stored \cup buf[w]
        /\ wpc' = [wpc EXCEPT ![w] = "ok"]
     \/ /\ stored' \in {stored, stored \cup buf[w]}
        /\ wpc' = [wpc EXCEPT ![w] = "failed"]
  /\ UNCHANGED <<bucketVars, rows, age, status, wref, wrow, buf,
                 readerVars, ghosts>>

MarkConfirmed(w) ==
  /\ wpc[w] = "ok"
  /\ status' = [i \in Row |-> IF i \in buf[w] THEN "confirmed" ELSE status[i]]
  /\ buf' = [buf EXCEPT ![w] = {}]
  /\ wpc' = [wpc EXCEPT ![w] = "recv"]
  /\ UNCHANGED <<bucketVars, rows, age, stored, wref, wrow, readerVars,
                 ghosts>>

(* RevertInserting: the rows are pending again, and the batch is dropped.  *)
Revert(w) ==
  /\ wpc[w] = "failed"
  /\ status' = [i \in Row |-> IF i \in buf[w] /\ status[i] = "inserting"
                              THEN "pending" ELSE status[i]]
  /\ buf' = [buf EXCEPT ![w] = {}]
  /\ wpc' = [wpc EXCEPT ![w] = "recv"]
  /\ UNCHANGED <<bucketVars, rows, age, stored, wref, wrow, readerVars,
                 ghosts>>

-----------------------------------------------------------------------------
(* EvictOlderThan, under the shard's and the bucket's mutex.               *)

Kept_Aged == {i \in ring : age[i] <= Window}

Kept == {i \in ring : status[i] # "confirmed" \/ age[i] <= Window}

Unused == Kept = {} /\ subs[bucket] = {} /\ idle > Window

Evict ==
  /\ bucket # NoBucket
  /\ ring' = Kept
  /\ bucket' = IF Unused THEN NoBucket ELSE bucket
  /\ UNCHANGED <<subs, idle, rowVars, writerVars, readerVars, ghosts>>

-----------------------------------------------------------------------------
(* The timeseries handler.                                                 *)

Backfilling(r) == rpc[r] \in {"subscribe", "check", "query", "scan"}

(* Subscribe looks the bucket up ...                                       *)
Open(r) ==
  /\ rpc[r] = "idle"
  /\ rpc' = [rpc EXCEPT ![r] = "subscribe"]
  /\ \E b \in Buckets : Lookup(b) /\ rref' = [rref EXCEPT ![r] = b]
  /\ open' = [open EXCEPT ![r] = TRUE]
  /\ UNCHANGED <<rowVars, writerVars, queue, seen, took, live, ghosts>>

(* ... and registers the channel under the bucket's mutex.                 *)
Subscribe(r) ==
  LET b == rref[r] IN
  /\ rpc[r] = "subscribe"
  /\ subs' = [subs EXCEPT ![b] = @ \cup {r}]
  /\ IF b = bucket THEN idle' = 0 /\ deaf' = deaf
                   ELSE UNCHANGED idle /\ deaf' = deaf \cup {r}
  /\ rpc' = [rpc EXCEPT ![r] = "check"]
  /\ UNCHANGED <<bucket, ring, rowVars, writerVars, rref, queue, open, seen,
                 took, live, missed, stray>>

(* isStreamLive, which a request for a window that is past overrides.      *)
CheckLive(r) ==
  /\ rpc[r] = "check"
  /\ \E b \in Buckets, past \in BOOLEAN :
       /\ Lookup(b)
       /\ live' = [live EXCEPT ![r] =
                     /\ ~past
                     /\ idle' = Never \/ idle' < LiveWindow]
  /\ rpc' = [rpc EXCEPT ![r] = "query"]
  /\ UNCHANGED <<rowVars, writerVars, rref, queue, open, seen, took, ghosts>>

PrintsOf(S) == {PrintOf[i] : i \in S}

(* The rows ClickHouse has, then those of the ring that are in the window. *)
QueryStored(r) ==
  /\ rpc[r] = "query"
  /\ seen' = [seen EXCEPT ![r] = @ \cup PrintsOf(stored)]
  /\ rpc' = [rpc EXCEPT ![r] = "scan"]
  /\ UNCHANGED <<bucketVars, rowVars, writerVars, rref, queue, open, took,
                 live, ghosts>>

Scanned_Unconfirmed ==
  {i \in ring : status[i] # "confirmed" /\ age[i] <= Window}

Scanned == {i \in ring : age[i] <= Window}

ScanRing(r) ==
  /\ rpc[r] = "scan"
  /\ \E b \in Buckets : Lookup(b)
  /\ seen' = [seen EXCEPT ![r] = @ \cup
                IF bucket = NoBucket THEN {} ELSE PrintsOf(Scanned)]
  /\ rpc' = [rpc EXCEPT ![r] = IF live[r] THEN "live" ELSE "complete"]
  /\ took' = [took EXCEPT ![r] = 0]
  /\ live' = [live EXCEPT ![r] = FALSE]
  /\ UNCHANGED <<rowVars, writerVars, rref, queue, open, ghosts>>

(* streamLiveDeltas: the next entry of the channel, unless already sent.   *)
Deliver(r) ==
  /\ rpc[r] = "live" /\ queue[r] # << >>
  /\ seen' = [seen EXCEPT ![r] = @ \cup {PrintOf[Head(queue[r])]}]
  /\ queue' = [queue EXCEPT ![r] = Tail(@)]
  /\ UNCHANGED <<bucketVars, rowVars, writerVars, rpc, rref, open, took, live,
                 ghosts>>

Cancel_CloseFirst(r) ==
  /\ rpc[r] \in {"check", "query", "scan", "live", "complete"}
  /\ open' = [open EXCEPT ![r] = FALSE]
  /\ rpc' = [rpc EXCEPT ![r] = "close"]
  /\ UNCHANGED <<bucketVars, rowVars, writerVars, rref, queue, seen, took,
                 live, ghosts>>

(* cancelSub: after complete, when the client is gone, or when the         *)
(* backfill failed.  The channel leaves the list before it is closed; what *)
(* else the handler holds dies with it.                                    *)
Cancel(r) ==
  /\ rpc[r] \in {"check", "query", "scan", "live", "complete"}
  /\ subs' = [subs EXCEPT ![rref[r]] = @ \ {r}]
  /\ rpc' = [rpc EXCEPT ![r] = "close"]
  /\ UNCHANGED <<bucket, ring, idle, rowVars, writerVars, rref, queue, open,
                 seen, took, live, ghosts>>

Close(r) ==
  /\ rpc[r] = "close"
  /\ open' = [open EXCEPT ![r] = FALSE]
  /\ rpc' = [rpc EXCEPT ![r] = "idle"]
  /\ rref' = [rref EXCEPT ![r] = NoBucket]
  /\ queue' = [queue EXCEPT ![r] = << >>]
  /\ seen' = [seen EXCEPT ![r] = {}]
  /\ took' = [took EXCEPT ![r] = 0]
  /\ live' = [live EXCEPT ![r] = FALSE]
  /\ missed' = [missed EXCEPT ![r] = {}]
  /\ deaf' = deaf \ {r}
  /\ UNCHANGED <<bucketVars, rowVars, writerVars, stray>>

-----------------------------------------------------------------------------
(* Time, and the restart of the forwarder.                                 *)

Batched(i) == \E w \in Writers : i \in buf[w]
Adding(i) == \E w \in Writers : wpc[w] = "add" /\ wrow[w] = i
InFlight(i) == Batched(i) \/ Adding(i)

(* Time passes, unless an insert or a backfill would then be too slow.     *)
Tick ==
  /\ \A i \in Row : InFlight(i) => age[i] < InsertTime
  /\ \A r \in Readers : Backfilling(r) => took[r] < BackfillTime
  /\ age' = [i \in Row |-> IF i <= rows THEN Younger(age[i]) ELSE 0]
  /\ idle' = Younger(idle)
  /\ took' = [r \in Readers |-> IF Backfilling(r) THEN took[r] + 1 ELSE took[r]]
  /\ UNCHANGED <<bucket, ring, subs, rows, status, stored, writerVars,
                 rpc, rref, queue, open, seen, live, ghosts>>

(* The process ends and starts again: the ring, the batches and the        *)
(* connections are gone, ClickHouse is not.                                *)
Restart ==
  /\ bucket' = NoBucket
  /\ ring' = {}
  /\ idle' = Never
  /\ subs' = [b \in Buckets |-> {}]
  /\ status' = [i \in Row |-> IF i <= rows THEN "gone" ELSE "none"]
  /\ wpc' = [w \in Writers |-> "recv"]
  /\ wref' = [w \in Writers |-> NoBucket]
  /\ wrow' = [w \in Writers |-> 0]
  /\ buf' = [w \in Writers |-> {}]
  /\ rpc' = [r \in Readers |-> "idle"]
  /\ rref' = [r \in Readers |-> NoBucket]
  /\ queue' = [r \in Readers |-> << >>]
  /\ open' = [r \in Readers |-> FALSE]
  /\ seen' = [r \in Readers |-> {}]
  /\ took' = [r \in Readers |-> 0]
  /\ live' = [r \in Readers |-> FALSE]
  /\ missed' = [r \in Readers |-> {}]
  /\ deaf' = {}
  /\ UNCHANGED <<rows, age, stored, stray>>

WriterStep(w) ==
  \/ Add(w) \/ FlushTick(w) \/ MarkInserting(w) \/ Insert(w)
  \/ MarkConfirmed(w) \/ Revert(w)

ReaderStep(r) ==
  \/ Subscribe(r) \/ CheckLive(r) \/ QueryStored(r) \/ ScanRing(r)
  \/ Deliver(r) \/ Close(r)

Next ==
  \/ \E w \in Writers : Arrive(w) \/ WriterStep(w)
  \/ \E r \in Readers : Open(r) \/ ReaderStep(r) \/ Cancel(r)
  \/ Evict
  \/ Tick
  \/ Restart

Spec == Init /\ [][Next]_vars

FairSpec ==
  /\ Spec
  /\ \A w \in Writers : WF_vars(WriterStep(w))
  /\ \A r \in Readers : WF_vars(ReaderStep(r))
  /\ WF_vars(Evict)
  /\ WF_vars(Tick)

-----------------------------------------------------------------------------
(* Properties.                                                             *)

(* Row i was added to the ring by this process, or stored by an earlier    *)
(* one.                                                                    *)
Added(i) == i <= rows /\ ~Adding(i) /\ (status[i] = "gone" => i \in stored)

(* The INSERT of row i was refused, or its answer lost: no batch has it.   *)
WrittenOff(i) == status[i] = "pending" /\ ~InFlight(i)

(* A row is always readable: until ClickHouse has it, the ring does.  The  *)
(* evictor runs between any two steps of an INSERT, whose answer may be    *)
(* lost; the exception is a row whose bucket left the map between the      *)
(* lookup and the append (stray).                                          *)
ReadableSomewhere ==
  \A i \in Row : Added(i) /\ i \notin stray => i \in stored \cup ring

(* Add never sends on a channel that cancelSub closed, which would panic,  *)
(* and a channel is on the list of one bucket only.                        *)
NoSendOnClosed ==
  \A b \in Buckets : \A r \in subs[b] : open[r] /\ rref[r] = b

Queued(r, i) == \E k \in DOMAIN queue[r] : PrintOf[queue[r][k]] = PrintOf[i]

(* A client that follows the live tail has been sent every row, from       *)
(* ClickHouse, from the ring or from its channel, or has it in the         *)
(* channel.  The exceptions are the rows its full channel lost after the   *)
(* scan (missed), those of a failed INSERT that were older than the window *)
(* when the ring was scanned, and those of the lookup race on either side  *)
(* (stray, deaf).                                                          *)
LiveComplete ==
  \A r \in Readers \ deaf, i \in Row :
    rpc[r] = "live" /\ Added(i) /\ i \notin stray
      => \/ PrintOf[i] \in seen[r] \/ Queued(r, i)
         \/ i \in missed[r]
         \/ (WrittenOff(i) /\ age[i] > Window)

(* Every row that arrives is in the end stored and out of memory, or       *)
(* written off with its batch, or lost with the process.                   *)
RowsSettle ==
  \A i \in Row : (i <= rows) ~> \/ i \in stored \ ring
                                \/ WrittenOff(i)
                                \/ status[i] = "gone"

-----------------------------------------------------------------------------
(* The inductive invariant: why the safety properties hold.                *)

Attached(r) == rpc[r] \in {"check", "query", "scan", "live", "complete"}

RowInv ==
  \A i \in Row :
    /\ i > rows => status[i] = "none" /\ age[i] = 0
    /\ i \in stored \cup ring => i <= rows
    /\ status[i] = "none" => i > rows
    /\ status[i] = "confirmed" => i \in stored
    /\ status[i] = "inserting" => Batched(i)
    /\ InFlight(i) => age[i] <= InsertTime

WriterInv ==
  \A w \in Writers :
    /\ wpc[w] = "add" => wrow[w] \in Row /\ wref[w] \in Buckets
    /\ wpc[w] = "ok" => buf[w] \subseteq stored
    /\ \A i \in Row : i \in buf[w] \/ (wpc[w] = "add" /\ wrow[w] = i)
         => i <= rows /\ status[i] \in {"pending", "inserting", "confirmed"}

ReaderInv ==
  \A r \in Readers :
    /\ rpc[r] # "idle" => open[r] /\ rref[r] \in Buckets
    /\ Attached(r) => r \in subs[rref[r]]
    /\ Attached(r) /\ r \notin deaf => rref[r] = bucket

SubsInv ==
  \A b \in Buckets : \A r \in subs[b] : Attached(r) /\ rref[r] = b

BucketInv == bucket = NoBucket => ring = {}

(* Between the query and the scan, a row the query has not returned is in  *)
(* the ring and young enough to be scanned, unless its INSERT failed.      *)
ScanInv ==
  \A r \in Readers \ deaf, i \in Row :
    rpc[r] = "scan" /\ Added(i) /\ i \notin stray
      => \/ PrintOf[i] \in seen[r]
         \/ (i \in ring /\ (age[i] <= InsertTime + took[r] \/ WrittenOff(i)))

IInv ==
  /\ TypeOK
  /\ RowInv /\ WriterInv
  /\ ReaderInv /\ SubsInv /\ BucketInv
  /\ ReadableSomewhere
  /\ ScanInv
  /\ LiveComplete

-----------------------------------------------------------------------------
(* What the comments of the code say and its steps do not keep.            *)

(* "Active subscribers keep it alive even if entries have all been         *)
(* evicted": ring.go:333.  Subscribe uses the bucket after the lookup.     *)
SubscribersKeepBucket == \A b \in Buckets : subs[b] # {} => b = bucket

(* isStreamLive "returns true if the (player, play) appears to still be    *)
(* actively producing rows": timeseries.go:274.  The handler's own         *)
(* Subscribe has just renewed lastActivityMs.                              *)
LiveMeansActive ==
  [][\A r \in Readers : live'[r] /\ ~live[r] /\ rows > 0
       => \E i \in 1 .. rows : age[i] <= LiveWindow]_vars

(* "Caller retries the batch": ring.go:228.                                *)
FailedBatchRetried ==
  \A i \in Row : WrittenOff(i) ~> (i \in stored \/ status[i] = "gone")
=============================================================================
