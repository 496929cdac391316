-------------------------- MODULE IngestRingProofs --------------------------
(***************************************************************************)
(* Proofs about IngestRing, for any inserters and readers, any number of   *)
(* rows and any batch, channel and window, provided that an INSERT and a   *)
(* backfill together take no longer than the window.                       *)
(***************************************************************************)
EXTENDS IngestRing, TLAPS

LEMMA Constants ==
    /\ MaxRows \in Nat /\ SubBuf \in Nat /\ FlushBatch \in Nat
    /\ LiveWindow \in Nat /\ InsertTime \in Nat /\ BackfillTime \in Nat
    /\ Window \in Nat /\ Window # 0
    /\ InsertTime + BackfillTime <= Window
    /\ Old = Window + 1 /\ Never = Window + 2
    /\ NoBucket \notin Buckets
BY IngestAssumption DEF Old, Never, NoBucket, Buckets

(* What the map holds after a lookup. *)
LEMMA LookedUp ==
    ASSUME NEW b \in Buckets, Lookup(b)
    PROVE  /\ bucket' = b /\ subs' = subs
           /\ bucket # NoBucket => bucket' = bucket /\ ring' = ring /\ idle' = idle
           /\ bucket = NoBucket => ring' = {} /\ idle' = Never
BY Constants DEF Lookup, Created, bucketVars

LEMMA TypeLookup ==
    ASSUME TypeOK, NEW b \in Buckets, Lookup(b)
    PROVE  /\ bucket' \in Buckets \cup {NoBucket} /\ ring' \subseteq Row
           /\ idle' \in 0 .. Never
           /\ subs' \in [Buckets -> SUBSET Readers]
BY LookedUp, Constants DEF TypeOK, TypeRows

LEMMA PrintsOfRows ==
    ASSUME NEW S, S \subseteq Row
    PROVE  PrintsOf(S) \subseteq Prints /\ \A i \in S : PrintOf[i] \in PrintsOf(S)
BY DEF PrintsOf, Prints

(***************************************************************************)
(* Types.                                                                  *)
(***************************************************************************)
LEMMA TypeWriterSteps ==
    ASSUME TypeOK, WriterInv, NEW w \in Writers, Arrive(w) \/ WriterStep(w)
    PROVE  TypeOK'
<1> USE Constants
<1>0. TypeRows /\ TypeWriters /\ TypeReaders
    BY DEF TypeOK
<1>1. CASE Arrive(w)
    <2>1. PICK b \in Buckets : Lookup(b) /\ wref' = [wref EXCEPT ![w] = b]
        BY <1>1 DEF Arrive
    <2>2. rows + 1 \in Row /\ rows + 1 \in 0 .. MaxRows
        BY <1>0, <1>1 DEF Arrive, TypeRows, Row
    <2>3. TypeRows'
        BY <1>0, <1>1, <2>1, <2>2, TypeLookup DEF Arrive, TypeRows
    <2>4. TypeWriters'
        BY <1>0, <1>1, <2>1, <2>2 DEF Arrive, TypeWriters
    <2>5. TypeReaders'
        BY <1>0, <1>1 DEF Arrive, TypeReaders, readerVars, ghosts
    <2> QED BY <2>3, <2>4, <2>5 DEF TypeOK
<1>2. CASE Add(w)
    <2> DEFINE i == wrow[w]
    <2>1. i \in Row /\ wref[w] \in Buckets
        BY <1>2 DEF Add, WriterInv
    <2>2. TypeRows'
        BY <1>0, <1>2, <2>1 DEF Add, TypeRows, rowVars
    <2>3. TypeWriters'
        BY <1>0, <1>2, <2>1 DEF Add, TypeWriters
    <2>4. queue' \in [Readers -> Seq(Row)]
        BY <1>0, <1>2, <2>1 DEF Add, TypeReaders
    <2>5. missed' \in [Readers -> SUBSET Row] /\ stray' \subseteq Row
        BY <1>0, <1>2, <2>1 DEF Add, TypeReaders
    <2>6. TypeReaders'
        BY <1>0, <1>2, <2>4, <2>5 DEF Add, TypeReaders
    <2> QED BY <2>2, <2>3, <2>6 DEF TypeOK
<1>3. CASE FlushTick(w)
    BY <1>0, <1>3 DEF FlushTick, TypeOK, TypeRows, TypeWriters, TypeReaders, bucketVars, rowVars,
       readerVars, ghosts
<1>4. CASE MarkInserting(w)
    BY <1>0, <1>4 DEF MarkInserting, TypeOK, TypeRows, TypeWriters, TypeReaders, bucketVars,
       readerVars, ghosts
<1>5. CASE Insert(w)
    BY <1>0, <1>5 DEF Insert, TypeOK, TypeRows, TypeWriters, TypeReaders, bucketVars,
       readerVars, ghosts
<1>6. CASE MarkConfirmed(w)
    BY <1>0, <1>6 DEF MarkConfirmed, TypeOK, TypeRows, TypeWriters, TypeReaders, bucketVars,
       readerVars, ghosts
<1>7. CASE Revert(w)
    BY <1>0, <1>7 DEF Revert, TypeOK, TypeRows, TypeWriters, TypeReaders, bucketVars,
       readerVars, ghosts
<1> QED BY <1>1, <1>2, <1>3, <1>4, <1>5, <1>6, <1>7 DEF WriterStep

LEMMA TypeReaderSteps ==
    ASSUME TypeOK, NEW r \in Readers, Open(r) \/ ReaderStep(r) \/ Cancel(r)
    PROVE  TypeOK'
<1> USE Constants
<1>0. TypeRows /\ TypeWriters /\ TypeReaders
    BY DEF TypeOK
<1>1. CASE Open(r)
    <2>1. PICK b \in Buckets : Lookup(b) /\ rref' = [rref EXCEPT ![r] = b]
        BY <1>1 DEF Open
    <2>2. TypeRows'
        BY <1>0, <1>1, <2>1, TypeLookup DEF Open, TypeRows, rowVars
    <2>3. TypeWriters' /\ TypeReaders'
        BY <1>0, <1>1, <2>1 DEF Open, TypeWriters, TypeReaders, writerVars, ghosts
    <2> QED BY <2>2, <2>3 DEF TypeOK
<1>2. CASE Subscribe(r)
    <2>1. subs' \in [Buckets -> SUBSET Readers]
        BY <1>0, <1>2 DEF Subscribe, TypeRows
    <2>2. idle' \in 0 .. Never /\ deaf' \subseteq Readers
        BY <1>0, <1>2 DEF Subscribe, TypeRows, TypeReaders
    <2>3. TypeRows'
        BY <1>0, <1>2, <2>1, <2>2 DEF Subscribe, TypeRows, rowVars
    <2>4. TypeWriters' /\ TypeReaders'
        BY <1>0, <1>2, <2>2 DEF Subscribe, TypeWriters, TypeReaders, writerVars
    <2> QED BY <2>3, <2>4 DEF TypeOK
<1>3. CASE CheckLive(r)
    <2>1. PICK b \in Buckets, past \in BOOLEAN :
              /\ Lookup(b)
              /\ live' = [live EXCEPT ![r] =
                            /\ ~past
                            /\ idle' = Never \/ idle' < LiveWindow]
        BY <1>3 DEF CheckLive
    <2>2. TypeRows'
        BY <1>0, <1>3, <2>1, TypeLookup DEF CheckLive, TypeRows, rowVars
    <2>3. live' \in [Readers -> BOOLEAN]
        BY <1>0, <2>1 DEF TypeReaders
    <2>4. TypeWriters' /\ TypeReaders'
        BY <1>0, <1>3, <2>3 DEF CheckLive, TypeWriters, TypeReaders, writerVars, ghosts
    <2> QED BY <2>2, <2>4 DEF TypeOK
<1>4. CASE QueryStored(r)
    <2>1. PrintsOf(stored) \subseteq Prints
        BY <1>0, PrintsOfRows DEF TypeRows
    <2>2. TypeRows' /\ TypeWriters' /\ TypeReaders'
        BY <1>0, <1>4, <2>1 DEF QueryStored, TypeRows, TypeWriters, TypeReaders,
           bucketVars, rowVars, writerVars, ghosts
    <2> QED BY <2>2 DEF TypeOK
<1>5. CASE ScanRing(r)
    <2>1. PICK b \in Buckets : Lookup(b)
        BY <1>5 DEF ScanRing
    <2>2. TypeRows'
        BY <1>0, <1>5, <2>1, TypeLookup DEF ScanRing, TypeRows, rowVars
    <2>3. PrintsOf(Scanned) \subseteq Prints
        BY <1>0, PrintsOfRows DEF TypeRows, Scanned
    <2>4. TypeWriters' /\ TypeReaders'
        BY <1>0, <1>5, <2>3 DEF ScanRing, TypeWriters, TypeReaders, writerVars, ghosts
    <2> QED BY <2>2, <2>4 DEF TypeOK
<1>6. CASE Deliver(r)
    <2>1. queue[r] \in Seq(Row) /\ queue[r] # << >>
        BY <1>0, <1>6 DEF Deliver, TypeReaders
    <2>2. Head(queue[r]) \in Row /\ Tail(queue[r]) \in Seq(Row)
        BY <2>1
    <2>3. PrintOf[Head(queue[r])] \in Prints
        BY <2>2 DEF Prints
    <2>4. TypeRows' /\ TypeWriters' /\ TypeReaders'
        BY <1>0, <1>6, <2>2, <2>3 DEF Deliver, TypeRows, TypeWriters, TypeReaders,
           bucketVars, rowVars, writerVars, ghosts
    <2> QED BY <2>4 DEF TypeOK
<1>7. CASE Close(r)
    <2>1. << >> \in Seq(Row)
        OBVIOUS
    <2>2. TypeRows' /\ TypeWriters' /\ TypeReaders'
        BY <1>0, <1>7, <2>1 DEF Close, TypeRows, TypeWriters, TypeReaders,
           bucketVars, rowVars, writerVars
    <2> QED BY <2>2 DEF TypeOK
<1>8. CASE Cancel(r)
    <2>1. TypeRows' /\ TypeWriters' /\ TypeReaders'
        BY <1>0, <1>8 DEF Cancel, TypeRows, TypeWriters, TypeReaders,
           rowVars, writerVars, ghosts
    <2> QED BY <2>1 DEF TypeOK
<1> QED BY <1>1, <1>2, <1>3, <1>4, <1>5, <1>6, <1>7, <1>8 DEF ReaderStep

LEMMA Aging ==
    ASSUME NEW a \in 0 .. Old
    PROVE  /\ Younger(a) \in 0 .. Old /\ a <= Younger(a) /\ Younger(a) <= a + 1
           /\ (a > Window => Younger(a) > Window)
BY Constants DEF Younger

LEMMA TypeOthers ==
    ASSUME TypeOK, Evict \/ Tick \/ Restart
    PROVE  TypeOK'
<1> USE Constants
<1>0. TypeRows /\ TypeWriters /\ TypeReaders
    BY DEF TypeOK
<1>1. CASE Evict
    BY <1>0, <1>1 DEF Evict, Kept, TypeOK, TypeRows, TypeWriters, TypeReaders,
       rowVars, writerVars, readerVars, ghosts
<1>2. CASE Tick
    <2>1. age' \in [Row -> 0 .. Old]
        BY <1>0, <1>2, Aging DEF Tick, TypeRows
    <2>2. idle' \in 0 .. Never
        BY <1>0, <1>2 DEF Tick, TypeRows, Younger
    <2>3. took' \in [Readers -> 0 .. BackfillTime]
        BY <1>0, <1>2 DEF Tick, TypeReaders
    <2>4. TypeRows' /\ TypeWriters' /\ TypeReaders'
        BY <1>0, <1>2, <2>1, <2>2, <2>3 DEF Tick, TypeRows, TypeWriters, TypeReaders,
           writerVars, ghosts
    <2> QED BY <2>4 DEF TypeOK
<1>3. CASE Restart
    <2>1. queue' \in [Readers -> Seq(Row)]
        BY <1>3 DEF Restart
    <2>2. TypeRows'
        BY <1>0, <1>3 DEF Restart, TypeRows
    <2>3. TypeWriters' /\ TypeReaders'
        BY <1>0, <1>3, <2>1 DEF Restart, TypeWriters, TypeReaders
    <2> QED BY <2>2, <2>3 DEF TypeOK
<1> QED BY <1>1, <1>2, <1>3

(***************************************************************************)
(* Rows and inserters.                                                     *)
(***************************************************************************)

(* A row in flight stays so until its batch is answered, and only a new    *)
(* row takes off.                                                          *)
LEMMA Flights ==
    ASSUME TypeOK, WriterInv, NEW w \in Writers, WriterStep(w), NEW i \in Row
    PROVE  /\ InFlight(i)' => InFlight(i)
           /\ Adding(i) => Adding(i)' \/ (Add(w) /\ i = wrow[w])
           /\ Batched(i) => Batched(i)' \/ (i \in buf[w] /\ (MarkConfirmed(w) \/ Revert(w)))
<1>0. TypeWriters
    BY DEF TypeOK
<1>1. CASE Add(w)
    BY <1>0, <1>1 DEF Add, TypeWriters, InFlight, Batched, Adding
<1>2. CASE FlushTick(w)
    BY <1>0, <1>2 DEF FlushTick, TypeWriters, InFlight, Batched, Adding
<1>3. CASE MarkInserting(w)
    BY <1>0, <1>3 DEF MarkInserting, TypeWriters, InFlight, Batched, Adding
<1>4. CASE Insert(w)
    BY <1>0, <1>4 DEF Insert, TypeWriters, InFlight, Batched, Adding
<1>5. CASE MarkConfirmed(w)
    BY <1>0, <1>5 DEF MarkConfirmed, TypeWriters, InFlight, Batched, Adding
<1>6. CASE Revert(w)
    BY <1>0, <1>6 DEF Revert, TypeWriters, InFlight, Batched, Adding
<1> QED BY <1>1, <1>2, <1>3, <1>4, <1>5, <1>6 DEF WriterStep

LEMMA Arrivals ==
    ASSUME TypeOK, WriterInv, NEW w \in Writers, Arrive(w), NEW i \in Row
    PROVE  /\ rows' = rows + 1 /\ rows \in Nat
           /\ InFlight(i)' => InFlight(i) \/ i = rows + 1
           /\ Adding(i) => Adding(i)'
           /\ \E v \in Writers : wpc'[v] = "add" /\ wrow'[v] = rows'
           /\ Batched(i)' <=> Batched(i)
           /\ i # rows + 1 => status'[i] = status[i]
           /\ status'[rows + 1] = "pending"
<1>1. rows + 1 \in Row /\ rows \in Nat
    BY Constants DEF Arrive, TypeOK, TypeRows, Row
<1>2. /\ rows' = rows + 1
      /\ status' = [status EXCEPT ![rows + 1] = "pending"]
      /\ wpc[w] = "recv" /\ wpc' = [wpc EXCEPT ![w] = "add"]
      /\ wrow' = [wrow EXCEPT ![w] = rows + 1] /\ buf' = buf
    BY DEF Arrive
<1>3. /\ status \in [Row -> {"none", "pending", "inserting", "confirmed", "gone"}]
      /\ DOMAIN wpc = Writers /\ DOMAIN wrow = Writers
    BY DEF TypeOK, TypeRows, TypeWriters
<1>4. /\ i # rows + 1 => status'[i] = status[i]
      /\ status'[rows + 1] = "pending"
    BY <1>1, <1>2, <1>3
<1>5. Batched(i)' <=> Batched(i)
    BY <1>2 DEF Batched
<1>6. /\ wpc'[w] = "add" /\ wrow'[w] = rows + 1
      /\ \A v \in Writers \ {w} : wpc'[v] = wpc[v] /\ wrow'[v] = wrow[v]
    BY <1>2, <1>3
<1>7. Adding(i)' => Adding(i) \/ i = rows + 1
    BY <1>6 DEF Adding
<1>8. Adding(i) => Adding(i)'
    <2>1. \A v \in Writers : wpc[v] = "add" => v # w
        BY <1>2
    <2> QED BY <1>6, <2>1 DEF Adding
<1>9. \E v \in Writers : wpc'[v] = "add" /\ wrow'[v] = rows'
    BY <1>2, <1>6
<1> QED BY <1>1, <1>2, <1>4, <1>5, <1>7, <1>8, <1>9 DEF InFlight

LEMMA RingLooked ==
    ASSUME TypeOK, BucketInv, NEW b \in Buckets, Lookup(b)
    PROVE  ring' = ring /\ bucket' \in Buckets
BY LookedUp DEF BucketInv

(* RowInv, kept by each step. *)
LEMMA RowWriterSteps ==
    ASSUME IInv, NEW w \in Writers, Arrive(w) \/ WriterStep(w)
    PROVE  RowInv'
<1> USE Constants
<1>0. TypeRows /\ TypeWriters /\ TypeOK /\ RowInv /\ WriterInv /\ BucketInv
    BY DEF IInv, TypeOK
<1> SUFFICES ASSUME NEW i \in Row
             PROVE  /\ i > rows' => status'[i] = "none" /\ age'[i] = 0
                    /\ i \in stored' \cup ring' => i <= rows'
                    /\ status'[i] = "none" => i > rows'
                    /\ status'[i] = "confirmed" => i \in stored'
                    /\ status'[i] = "inserting" => Batched(i)'
                    /\ InFlight(i)' => age'[i] <= InsertTime
    BY DEF RowInv
<1>a. /\ i > rows => status[i] = "none" /\ age[i] = 0
      /\ i \in stored \cup ring => i <= rows
      /\ status[i] = "none" => i > rows
      /\ status[i] = "confirmed" => i \in stored
      /\ status[i] = "inserting" => Batched(i)
      /\ InFlight(i) => age[i] <= InsertTime
    BY <1>0 DEF RowInv
<1>b. i \in buf[w] => i <= rows
    BY <1>0 DEF WriterInv
<1>c. i \in Nat /\ rows \in Nat
    BY <1>0 DEF TypeRows, Row
<1>1. CASE Arrive(w)
    <2>1. ring' = ring /\ stored' = stored /\ age' = age
        BY <1>0, <1>1, RingLooked DEF Arrive
    <2> QED BY <1>0, <1>a, <1>c, <1>1, <2>1, Arrivals
<1>2. CASE Add(w)
    <2>1. /\ rows' = rows /\ age' = age /\ status' = status /\ stored' = stored
          /\ ring' \subseteq ring \cup {wrow[w]}
        BY <1>2 DEF Add, rowVars
    <2>2. i = wrow[w] => i <= rows
        BY <1>0, <1>2 DEF WriterInv, Add
    <2>3. InFlight(i)' => InFlight(i)
        BY <1>0, <1>2, Flights DEF WriterStep
    <2>4. Batched(i) => Batched(i)'
        BY <1>0, <1>2 DEF Add, TypeWriters, Batched
    <2> QED BY <1>a, <1>c, <2>1, <2>2, <2>3, <2>4
<1>3. CASE FlushTick(w)
    <2>1. UNCHANGED <<rows, age, status, stored, ring, buf>>
        BY <1>3 DEF FlushTick, rowVars, bucketVars
    <2>2. InFlight(i)' => InFlight(i)
        BY <1>0, <1>3, Flights DEF WriterStep
    <2> QED BY <1>a, <2>1, <2>2 DEF Batched
<1>4. CASE MarkInserting(w)
    <2>1. UNCHANGED <<rows, age, stored, ring, buf>>
        BY <1>4 DEF MarkInserting, bucketVars
    <2>2. InFlight(i)' => InFlight(i)
        BY <1>0, <1>4, Flights DEF WriterStep
    <2>3. status'[i] = IF i \in buf[w] /\ status[i] = "pending"
                       THEN "inserting" ELSE status[i]
        BY <1>4 DEF MarkInserting
    <2> QED BY <1>a, <1>b, <1>c, <2>1, <2>2, <2>3 DEF Batched
<1>5. CASE Insert(w)
    <2>1. UNCHANGED <<rows, age, status, ring, buf>>
        BY <1>5 DEF Insert, bucketVars
    <2>2. InFlight(i)' => InFlight(i)
        BY <1>0, <1>5, Flights DEF WriterStep
    <2>3. stored \subseteq stored' /\ stored' \subseteq stored \cup buf[w]
        BY <1>5 DEF Insert
    <2> QED BY <1>a, <1>b, <1>c, <2>1, <2>2, <2>3 DEF Batched
<1>6. CASE MarkConfirmed(w)
    <2>1. UNCHANGED <<rows, age, stored, ring>> /\ buf[w] \subseteq stored
        BY <1>0, <1>6 DEF MarkConfirmed, bucketVars, WriterInv
    <2>2. InFlight(i)' => InFlight(i)
        BY <1>0, <1>6, Flights DEF WriterStep
    <2>3. status'[i] = IF i \in buf[w] THEN "confirmed" ELSE status[i]
        BY <1>6 DEF MarkConfirmed
    <2>4. Batched(i) => Batched(i)' \/ i \in buf[w]
        BY <1>0, <1>6, Flights DEF WriterStep
    <2> QED BY <1>a, <1>b, <1>c, <2>1, <2>2, <2>3, <2>4
<1>7. CASE Revert(w)
    <2>1. UNCHANGED <<rows, age, stored, ring>>
        BY <1>7 DEF Revert, bucketVars
    <2>2. InFlight(i)' => InFlight(i)
        BY <1>0, <1>7, Flights DEF WriterStep
    <2>3. status'[i] = IF i \in buf[w] /\ status[i] = "inserting"
                       THEN "pending" ELSE status[i]
        BY <1>7 DEF Revert
    <2>4. Batched(i) => Batched(i)' \/ i \in buf[w]
        BY <1>0, <1>7, Flights DEF WriterStep
    <2> QED BY <1>a, <1>b, <1>c, <2>1, <2>2, <2>3, <2>4
<1> QED BY <1>1, <1>2, <1>3, <1>4, <1>5, <1>6, <1>7 DEF WriterStep

(* What a handler leaves alone. *)
LEMMA Handlers ==
    ASSUME TypeOK, BucketInv, NEW r \in Readers, Open(r) \/ ReaderStep(r) \/ Cancel(r)
    PROVE  /\ ring' = ring /\ UNCHANGED <<rowVars, writerVars, stray>>
           /\ bucket # NoBucket => bucket' = bucket
           /\ bucket' = NoBucket => bucket = NoBucket
<1>1. CASE Open(r) \/ CheckLive(r) \/ ScanRing(r)
    <2>1. PICK b \in Buckets : Lookup(b)
        BY <1>1 DEF Open, CheckLive, ScanRing
    <2>2. UNCHANGED <<rowVars, writerVars, stray>>
        BY <1>1 DEF Open, CheckLive, ScanRing, ghosts
    <2> QED BY <2>1, <2>2, RingLooked, LookedUp, Constants
<1>2. CASE Subscribe(r) \/ QueryStored(r) \/ Deliver(r) \/ Close(r) \/ Cancel(r)
    BY <1>2 DEF Subscribe, QueryStored, Deliver, Close, Cancel, bucketVars, ghosts
<1> QED BY <1>1, <1>2 DEF ReaderStep

LEMMA RowOtherSteps ==
    ASSUME IInv, (\E r \in Readers : Open(r) \/ ReaderStep(r) \/ Cancel(r))
                 \/ Evict \/ Tick \/ Restart
    PROVE  RowInv' /\ WriterInv'
<1> USE Constants
<1>0. TypeRows /\ TypeWriters /\ TypeOK /\ RowInv /\ WriterInv /\ BucketInv
    BY DEF IInv, TypeOK
<1>1. CASE \E r \in Readers : Open(r) \/ ReaderStep(r) \/ Cancel(r)
    <2>1. ring' = ring /\ UNCHANGED <<rowVars, writerVars>>
        BY <1>0, <1>1, Handlers
    <2> QED BY <1>0, <2>1 DEF RowInv, WriterInv, rowVars, writerVars, InFlight, Batched, Adding
<1>2. CASE Evict
    <2>1. ring' \subseteq ring /\ UNCHANGED <<rowVars, writerVars>>
        BY <1>2 DEF Evict, Kept
    <2> QED BY <1>0, <2>1 DEF RowInv, WriterInv, rowVars, writerVars, InFlight, Batched, Adding
<1>3. CASE Tick
    <2>1. UNCHANGED <<ring, rows, status, stored, writerVars>>
        BY <1>3 DEF Tick
    <2>2. ASSUME NEW i \in Row
          PROVE  /\ i > rows => age'[i] = 0
                 /\ InFlight(i) => age'[i] <= InsertTime
        <3>1. age'[i] = IF i <= rows THEN Younger(age[i]) ELSE 0
            BY <1>3 DEF Tick
        <3>2. InFlight(i) => age[i] < InsertTime
            BY <1>3 DEF Tick
        <3>3. age[i] \in 0 .. Old /\ i \in Nat /\ rows \in Nat
            BY <1>0 DEF TypeRows, Row
        <3>4. Younger(age[i]) \in 0 .. Old /\ Younger(age[i]) <= age[i] + 1
            BY <3>3, Aging
        <3> QED BY <3>1, <3>2, <3>3, <3>4
    <2>3. RowInv'
        BY <1>0, <2>1, <2>2 DEF RowInv, writerVars, InFlight, Batched, Adding
    <2>4. WriterInv'
        BY <1>0, <2>1 DEF WriterInv, writerVars
    <2> QED BY <2>3, <2>4
<1>4. CASE Restart
    <2>1. /\ \A i \in Row : ~(InFlight(i)') /\ ~(Batched(i)')
          /\ \A w \in Writers : wpc'[w] = "recv" /\ buf'[w] = {}
        BY <1>4 DEF Restart, InFlight, Batched, Adding
    <2>2. \A i \in Row : status'[i] = IF i <= rows THEN "gone" ELSE "none"
        BY <1>4 DEF Restart
    <2>3. UNCHANGED <<rows, age, stored>> /\ ring' = {}
        BY <1>4 DEF Restart
    <2>4. rows \in Nat /\ \A i \in Row : i \in Nat
        BY <1>0 DEF TypeRows, Row
    <2>5. RowInv'
        BY <1>0, <2>1, <2>2, <2>3, <2>4 DEF RowInv
    <2>6. WriterInv'
        BY <2>1 DEF WriterInv
    <2> QED BY <2>5, <2>6
<1> QED BY <1>1, <1>2, <1>3, <1>4

LEMMA WriterWriterSteps ==
    ASSUME IInv, NEW w \in Writers, Arrive(w) \/ WriterStep(w)
    PROVE  WriterInv'
<1> USE Constants
<1>0. TypeRows /\ TypeWriters /\ TypeOK /\ WriterInv
    BY DEF IInv, TypeOK
<1> SUFFICES ASSUME NEW v \in Writers
             PROVE  /\ wpc'[v] = "add" => wrow'[v] \in Row /\ wref'[v] \in Buckets
                    /\ wpc'[v] = "ok" => buf'[v] \subseteq stored'
                    /\ \A i \in Row : i \in buf'[v] \/ (wpc'[v] = "add" /\ wrow'[v] = i)
                         => i <= rows' /\ status'[i] \in {"pending", "inserting", "confirmed"}
    BY DEF WriterInv
<1>a. /\ wpc[v] = "add" => wrow[v] \in Row /\ wref[v] \in Buckets
      /\ wpc[v] = "ok" => buf[v] \subseteq stored
      /\ \A i \in Row : i \in buf[v] \/ (wpc[v] = "add" /\ wrow[v] = i)
           => i <= rows /\ status[i] \in {"pending", "inserting", "confirmed"}
    BY <1>0 DEF WriterInv
<1>b. \A i \in Row : i \in Nat
    BY DEF Row
<1>c. rows \in Nat /\ buf[v] \subseteq Row
    BY <1>0 DEF TypeRows, TypeWriters
<1>1. CASE Arrive(w)
    <2>1. PICK b \in Buckets : Lookup(b) /\ wref' = [wref EXCEPT ![w] = b]
        BY <1>1 DEF Arrive
    <2>2. rows + 1 \in Row /\ stored' = stored /\ buf' = buf /\ rows' = rows + 1
        BY <1>0, <1>1 DEF Arrive, TypeRows, Row
    <2>3. /\ v # w => wpc'[v] = wpc[v] /\ wrow'[v] = wrow[v] /\ wref'[v] = wref[v]
          /\ v = w => wpc'[v] = "add" /\ wrow'[v] = rows + 1 /\ wref'[v] = b
        BY <1>0, <1>1, <2>1 DEF Arrive, TypeWriters
    <2>4. /\ status'[rows + 1] = "pending"
          /\ \A i \in Row : i # rows + 1 => status'[i] = status[i]
        BY <1>0, <1>1, <2>2, Arrivals
    <2> QED BY <1>a, <1>b, <1>c, <2>2, <2>3, <2>4
<1>2. CASE Add(w)
    <2>1. UNCHANGED <<rows, status, stored>>
        BY <1>2 DEF Add, rowVars
    <2>2. /\ v # w => wpc'[v] = wpc[v] /\ wrow'[v] = wrow[v] /\ wref'[v] = wref[v]
                     /\ buf'[v] = buf[v]
          /\ v = w => wpc'[v] \in {"flush", "recv"} /\ buf'[v] = buf[v] \cup {wrow[v]}
                     /\ wpc[v] = "add"
        BY <1>0, <1>2 DEF Add, TypeWriters
    <2> QED BY <1>a, <2>1, <2>2
<1>3. CASE FlushTick(w)
    <2>1. UNCHANGED <<rows, status, stored, buf, wrow, wref>>
        BY <1>3 DEF FlushTick, rowVars
    <2>2. /\ v # w => wpc'[v] = wpc[v]
          /\ v = w => wpc'[v] = "flush"
        BY <1>0, <1>3 DEF FlushTick, TypeWriters
    <2> QED BY <1>a, <2>1, <2>2
<1>4. CASE MarkInserting(w)
    <2>1. UNCHANGED <<rows, stored, buf, wrow, wref>>
        BY <1>4 DEF MarkInserting
    <2>2. /\ v # w => wpc'[v] = wpc[v]
          /\ v = w => wpc'[v] = "insert"
        BY <1>0, <1>4 DEF MarkInserting, TypeWriters
    <2>3. \A i \in Row : status'[i] = status[i] \/ status'[i] = "inserting"
        BY <1>4 DEF MarkInserting
    <2> QED BY <1>a, <2>1, <2>2, <2>3
<1>5. CASE Insert(w)
    <2>1. UNCHANGED <<rows, status, buf, wrow, wref>> /\ stored \subseteq stored'
        BY <1>5 DEF Insert
    <2>2. /\ v # w => wpc'[v] = wpc[v]
          /\ v = w => \/ wpc'[v] = "ok" /\ buf[v] \subseteq stored'
                      \/ wpc'[v] = "failed"
        BY <1>0, <1>5 DEF Insert, TypeWriters
    <2> QED BY <1>a, <2>1, <2>2
<1>6. CASE MarkConfirmed(w)
    <2>1. UNCHANGED <<rows, stored, wrow, wref>>
        BY <1>6 DEF MarkConfirmed
    <2>2. /\ v # w => wpc'[v] = wpc[v] /\ buf'[v] = buf[v]
          /\ v = w => wpc'[v] = "recv" /\ buf'[v] = {}
        BY <1>0, <1>6 DEF MarkConfirmed, TypeWriters
    <2>3. \A i \in Row : status'[i] = status[i] \/ status'[i] = "confirmed"
        BY <1>6 DEF MarkConfirmed
    <2> QED BY <1>a, <2>1, <2>2, <2>3
<1>7. CASE Revert(w)
    <2>1. UNCHANGED <<rows, stored, wrow, wref>>
        BY <1>7 DEF Revert
    <2>2. /\ v # w => wpc'[v] = wpc[v] /\ buf'[v] = buf[v]
          /\ v = w => wpc'[v] = "recv" /\ buf'[v] = {}
        BY <1>0, <1>7 DEF Revert, TypeWriters
    <2>3. \A i \in Row : status'[i] = status[i] \/ status'[i] = "pending"
        BY <1>7 DEF Revert
    <2> QED BY <1>a, <2>1, <2>2, <2>3
<1> QED BY <1>1, <1>2, <1>3, <1>4, <1>5, <1>6, <1>7 DEF WriterStep

(***************************************************************************)
(* Buckets and subscribers.                                                *)
(***************************************************************************)
LEMMA SubsWriterSteps ==
    ASSUME IInv, NEW w \in Writers, Arrive(w) \/ WriterStep(w)
    PROVE  ReaderInv' /\ SubsInv' /\ BucketInv'
<1> USE Constants
<1>0. TypeOK /\ WriterInv /\ ReaderInv /\ SubsInv /\ BucketInv
    BY DEF IInv
<1>1. UNCHANGED <<subs, rpc, rref, open, deaf>>
    <2>1. CASE Arrive(w)
        <3>1. PICK b \in Buckets : Lookup(b)
            BY <2>1 DEF Arrive
        <3> QED BY <2>1, <3>1, LookedUp DEF Arrive, readerVars, ghosts
    <2>2. CASE Add(w)
        BY <2>2 DEF Add
    <2>3. CASE FlushTick(w) \/ MarkInserting(w) \/ Insert(w) \/ MarkConfirmed(w) \/ Revert(w)
        BY <2>3 DEF FlushTick, MarkInserting, Insert, MarkConfirmed, Revert, bucketVars,
           readerVars, ghosts
    <2> QED BY <2>1, <2>2, <2>3 DEF WriterStep
<1>2. /\ bucket # NoBucket => bucket' = bucket
      /\ bucket' = NoBucket => ring' = {}
    <2>1. CASE Arrive(w)
        <3>1. PICK b \in Buckets : Lookup(b)
            BY <2>1 DEF Arrive
        <3> QED BY <3>1, LookedUp
    <2>2. CASE Add(w)
        BY <1>0, <2>2 DEF Add, BucketInv, WriterInv
    <2>3. CASE FlushTick(w) \/ MarkInserting(w) \/ Insert(w) \/ MarkConfirmed(w) \/ Revert(w)
        BY <1>0, <2>3 DEF FlushTick, MarkInserting, Insert, MarkConfirmed, Revert, bucketVars,
           BucketInv
    <2> QED BY <2>1, <2>2, <2>3 DEF WriterStep
<1>3. ReaderInv'
    BY <1>0, <1>1, <1>2 DEF ReaderInv, Attached
<1>4. SubsInv'
    BY <1>0, <1>1 DEF SubsInv, Attached
<1> QED BY <1>2, <1>3, <1>4 DEF BucketInv

LEMMA SubsReaderSteps ==
    ASSUME IInv, NEW r \in Readers, Open(r) \/ ReaderStep(r) \/ Cancel(r)
    PROVE  ReaderInv' /\ SubsInv' /\ BucketInv'
<1> USE Constants
<1>0. /\ TypeOK /\ TypeRows /\ TypeReaders
      /\ ReaderInv /\ SubsInv /\ BucketInv
    BY DEF IInv, TypeOK
<1>1. /\ ring' = ring
      /\ bucket # NoBucket => bucket' = bucket
      /\ bucket' = NoBucket => bucket = NoBucket
    BY <1>0, Handlers
<1>2. BucketInv'
    BY <1>0, <1>1 DEF BucketInv
<1>3. CASE Open(r)
    <2>1. PICK b \in Buckets : Lookup(b) /\ rref' = [rref EXCEPT ![r] = b]
        BY <1>3 DEF Open
    <2>2. /\ subs' = subs /\ deaf' = deaf /\ rpc[r] = "idle"
          /\ rpc' = [rpc EXCEPT ![r] = "subscribe"]
          /\ open' = [open EXCEPT ![r] = TRUE]
        BY <1>3, <2>1, LookedUp DEF Open, ghosts
    <2>3. ReaderInv'
        BY <1>0, <1>1, <2>1, <2>2 DEF ReaderInv, Attached, TypeReaders
    <2>4. SubsInv'
        BY <1>0, <2>1, <2>2 DEF SubsInv, Attached, TypeReaders, TypeRows
    <2> QED BY <1>2, <2>3, <2>4
<1>4. CASE Subscribe(r)
    <2>1. /\ subs' = [subs EXCEPT ![rref[r]] = @ \cup {r}]
          /\ rpc[r] = "subscribe" /\ rpc' = [rpc EXCEPT ![r] = "check"]
          /\ UNCHANGED <<open, rref, bucket>>
          /\ IF rref[r] = bucket THEN deaf' = deaf ELSE deaf' = deaf \cup {r}
        BY <1>4 DEF Subscribe
    <2>2. rref[r] \in Buckets
        BY <1>0, <2>1 DEF ReaderInv
    <2>3. /\ subs'[rref[r]] = subs[rref[r]] \cup {r}
          /\ \A b \in Buckets \ {rref[r]} : subs'[b] = subs[b]
        BY <1>0, <2>1, <2>2 DEF TypeRows
    <2>4. /\ rpc'[r] = "check"
          /\ \A q \in Readers \ {r} : rpc'[q] = rpc[q]
        BY <1>0, <2>1 DEF TypeReaders
    <2>5. ReaderInv'
        BY <1>0, <2>1, <2>2, <2>3, <2>4 DEF ReaderInv, Attached
    <2>6. SubsInv'
        BY <1>0, <2>1, <2>2, <2>3, <2>4 DEF SubsInv, Attached
    <2> QED BY <1>2, <2>5, <2>6
<1>5. CASE CheckLive(r) \/ QueryStored(r) \/ ScanRing(r) \/ Deliver(r)
    <2>1. /\ UNCHANGED <<open, rref, deaf>>
          /\ \A q \in Readers : Attached(q)' <=> Attached(q)
          /\ \A q \in Readers : rpc'[q] # "idle" => rpc[q] # "idle"
        <3>1. CASE CheckLive(r)
            BY <1>0, <3>1 DEF CheckLive, ghosts, Attached, TypeReaders
        <3>2. CASE QueryStored(r)
            BY <1>0, <3>2 DEF QueryStored, ghosts, Attached, TypeReaders
        <3>3. CASE ScanRing(r)
            BY <1>0, <3>3 DEF ScanRing, ghosts, Attached, TypeReaders
        <3>4. CASE Deliver(r)
            BY <1>0, <3>4 DEF Deliver, ghosts, Attached, TypeReaders
        <3> QED BY <1>5, <3>1, <3>2, <3>3, <3>4
    <2>2. subs' = subs
        <3>1. CASE CheckLive(r) \/ ScanRing(r)
            <4>1. PICK b \in Buckets : Lookup(b)
                BY <3>1 DEF CheckLive, ScanRing
            <4> QED BY <4>1, LookedUp
        <3>2. CASE QueryStored(r) \/ Deliver(r)
            BY <3>2 DEF QueryStored, Deliver, bucketVars
        <3> QED BY <1>5, <3>1, <3>2
    <2>3. ASSUME NEW q \in Readers
          PROVE  /\ rpc'[q] # "idle" => open'[q] /\ rref'[q] \in Buckets
                 /\ Attached(q)' => q \in subs'[rref'[q]]
                 /\ Attached(q)' /\ q \notin deaf' => rref'[q] = bucket'
        <3>1. /\ rpc[q] # "idle" => open[q] /\ rref[q] \in Buckets
              /\ Attached(q) => q \in subs[rref[q]] /\ rpc[q] # "idle"
              /\ Attached(q) /\ q \notin deaf => rref[q] = bucket
            BY <1>0 DEF ReaderInv, Attached
        <3> QED BY <1>1, <2>1, <2>2, <3>1, Constants
    <2>4. ReaderInv'
        BY <2>3 DEF ReaderInv
    <2>5. ASSUME NEW b \in Buckets, NEW q \in subs'[b]
          PROVE  Attached(q)' /\ rref'[q] = b
        <3>1. Attached(q) /\ rref[q] = b /\ q \in Readers
            BY <1>0, <2>2, <2>5 DEF SubsInv, TypeRows
        <3> QED BY <2>1, <3>1
    <2>6. SubsInv'
        BY <2>5 DEF SubsInv
    <2> QED BY <1>2, <2>4, <2>6
<1>6. CASE Close(r)
    <2>1. /\ UNCHANGED <<subs, bucket>> /\ deaf' = deaf \ {r} /\ rpc[r] = "close"
          /\ rpc' = [rpc EXCEPT ![r] = "idle"] /\ rref' = [rref EXCEPT ![r] = NoBucket]
          /\ open' = [open EXCEPT ![r] = FALSE]
        BY <1>6 DEF Close, bucketVars
    <2>2. /\ rpc'[r] = "idle"
          /\ \A q \in Readers \ {r} :
               rpc'[q] = rpc[q] /\ rref'[q] = rref[q] /\ open'[q] = open[q]
        BY <1>0, <2>1 DEF TypeReaders
    <2>3. ReaderInv'
        BY <1>0, <2>1, <2>2 DEF ReaderInv, Attached
    <2>4. \A b \in Buckets : \A q \in subs[b] : q \in Readers \ {r}
        BY <1>0, <2>1 DEF SubsInv, Attached, TypeRows
    <2>5. SubsInv'
        BY <1>0, <2>1, <2>2, <2>4 DEF SubsInv, Attached
    <2> QED BY <1>2, <2>3, <2>5
<1>7. CASE Cancel(r)
    <2>1. /\ subs' = [subs EXCEPT ![rref[r]] = @ \ {r}] /\ Attached(r)
          /\ rpc' = [rpc EXCEPT ![r] = "close"]
          /\ UNCHANGED <<open, rref, bucket, deaf>>
        BY <1>7 DEF Cancel, ghosts, Attached
    <2>2. rref[r] \in Buckets
        BY <1>0, <2>1 DEF ReaderInv, Attached
    <2>3. /\ subs'[rref[r]] = subs[rref[r]] \ {r}
          /\ \A b \in Buckets \ {rref[r]} : subs'[b] = subs[b]
        BY <1>0, <2>1, <2>2 DEF TypeRows
    <2>4. /\ rpc'[r] = "close" /\ rpc[r] # "idle"
          /\ \A q \in Readers \ {r} : rpc'[q] = rpc[q]
        BY <1>0, <2>1 DEF TypeReaders, Attached
    <2>5. ReaderInv'
        BY <1>0, <2>1, <2>2, <2>3, <2>4 DEF ReaderInv, Attached
    <2>6. \A b \in Buckets : \A q \in subs'[b] : q \in Readers \ {r} /\ q \in subs[b]
        BY <1>0, <2>1, <2>3 DEF SubsInv, TypeRows
    <2>7. SubsInv'
        BY <1>0, <2>1, <2>4, <2>6 DEF SubsInv, Attached
    <2> QED BY <1>2, <2>5, <2>7
<1> QED BY <1>3, <1>4, <1>5, <1>6, <1>7 DEF ReaderStep

LEMMA SubsOtherSteps ==
    ASSUME IInv, Evict \/ Tick \/ Restart
    PROVE  ReaderInv' /\ SubsInv' /\ BucketInv'
<1>0. TypeOK /\ TypeReaders /\ ReaderInv /\ SubsInv /\ BucketInv
    BY DEF IInv, TypeOK
<1>1. CASE Evict
    <2>1. /\ UNCHANGED <<subs, rpc, rref, open, deaf>> /\ ring' = Kept
          /\ bucket' = IF Unused THEN NoBucket ELSE bucket
          /\ bucket # NoBucket
        BY <1>1 DEF Evict, readerVars, ghosts
    <2>2. \A q \in Readers \ deaf : Attached(q) => ~Unused
        BY <1>0 DEF ReaderInv, Unused
    <2>3. ReaderInv'
        BY <1>0, <2>1, <2>2 DEF ReaderInv, Attached
    <2>4. SubsInv'
        BY <1>0, <2>1 DEF SubsInv, Attached
    <2>5. BucketInv'
        BY <2>1 DEF BucketInv, Unused
    <2> QED BY <2>3, <2>4, <2>5
<1>2. CASE Tick
    <2>1. UNCHANGED <<bucket, ring, subs, rpc, rref, open, deaf>>
        BY <1>2 DEF Tick, ghosts
    <2> QED BY <1>0, <2>1 DEF ReaderInv, SubsInv, BucketInv, Attached
<1>3. CASE Restart
    <2>1. /\ ring' = {} /\ \A b \in Buckets : subs'[b] = {}
          /\ \A r \in Readers : rpc'[r] = "idle"
        BY <1>3 DEF Restart
    <2> QED BY <2>1 DEF ReaderInv, SubsInv, BucketInv, Attached
<1> QED BY <1>1, <1>2, <1>3

(***************************************************************************)
(* Where a row can be read.                                                *)
(***************************************************************************)

(* What a step of an inserter does to a row it is not just adding. *)
LEMMA RowsStay ==
    ASSUME IInv, NEW w \in Writers, Arrive(w) \/ WriterStep(w), NEW i \in Row,
           ~(Add(w) /\ i = wrow[w])
    PROVE  /\ Added(i)' => Added(i)
           /\ i \in stored \cup ring => i \in stored' \cup ring'
           /\ i \in ring => i \in ring'
           /\ stray \subseteq stray'
           /\ age' = age
           /\ WrittenOff(i) => WrittenOff(i)'
<1> USE Constants
<1>0. TypeOK /\ TypeRows /\ TypeWriters /\ RowInv /\ WriterInv /\ BucketInv
    BY DEF IInv, TypeOK
<1>a. /\ i > rows => status[i] = "none"
      /\ i \in Nat /\ rows \in Nat
    BY <1>0 DEF RowInv, TypeRows, Row
<1>1. CASE Arrive(w)
    <2>1. ring' = ring
        BY <1>0, <1>1, RingLooked DEF Arrive
    <2>2. UNCHANGED <<age, stored, stray>>
        BY <1>1 DEF Arrive, ghosts
    <2>3. /\ rows' = rows + 1
          /\ InFlight(i)' => InFlight(i) \/ i = rows + 1
          /\ Adding(i) => Adding(i)'
          /\ i = rows + 1 => Adding(i)'
          /\ i # rows + 1 => status'[i] = status[i]
        BY <1>0, <1>1, Arrivals DEF Adding
    <2>4. WrittenOff(i) => i # rows + 1
        BY <1>a DEF WrittenOff
    <2> QED BY <1>a, <2>1, <2>2, <2>3, <2>4 DEF Added, WrittenOff
<1>2. CASE WriterStep(w)
    <2>1. /\ InFlight(i)' => InFlight(i)
          /\ Adding(i) => Adding(i)'
          /\ rows' = rows /\ age' = age
        <3>1. rows' = rows /\ age' = age
            BY <1>2 DEF WriterStep, Add, FlushTick, MarkInserting, Insert, MarkConfirmed,
               Revert, rowVars
        <3> QED BY <1>0, <1>2, <3>1, Flights
    <2>2. /\ status'[i] = "gone" <=> status[i] = "gone"
          /\ WrittenOff(i) => status'[i] = "pending"
        <3>1. CASE MarkInserting(w)
            BY <1>0, <3>1 DEF MarkInserting, TypeRows, WrittenOff, InFlight, Batched
        <3>2. CASE MarkConfirmed(w)
            <4>1. i \in buf[w] => status[i] \in {"pending", "inserting", "confirmed"}
                BY <1>0 DEF WriterInv
            <4> QED BY <4>1, <3>2 DEF MarkConfirmed, WrittenOff, InFlight, Batched
        <3>3. CASE Revert(w)
            <4>1. i \in buf[w] => status[i] \in {"pending", "inserting", "confirmed"}
                BY <1>0 DEF WriterInv
            <4> QED BY <4>1, <3>3 DEF Revert, WrittenOff, InFlight, Batched
        <3>4. CASE Add(w) \/ FlushTick(w) \/ Insert(w)
            BY <3>4 DEF Add, FlushTick, Insert, rowVars, WrittenOff
        <3> QED BY <1>2, <3>1, <3>2, <3>3, <3>4 DEF WriterStep
    <2>3. stored \subseteq stored' /\ ring \subseteq ring' /\ stray \subseteq stray'
        BY <1>2 DEF WriterStep, Add, FlushTick, MarkInserting, Insert, MarkConfirmed,
           Revert, rowVars, bucketVars, ghosts
    <2>4. i \in stored' => (i \in stored \/ status[i] # "gone")
        <3>1. stored' \subseteq stored \cup buf[w]
            BY <1>2 DEF WriterStep, Add, FlushTick, MarkInserting, Insert, MarkConfirmed,
               Revert, rowVars
        <3> QED BY <1>0, <3>1 DEF WriterInv
    <2> QED BY <2>1, <2>2, <2>3, <2>4 DEF Added, WrittenOff
<1> QED BY <1>1, <1>2

(* The row that is being added. *)
LEMMA RowAdded ==
    ASSUME IInv, NEW w \in Writers, Add(w)
    PROVE  /\ wrow[w] \in Row /\ InFlight(wrow[w]) /\ age[wrow[w]] <= InsertTime
           /\ age' = age
           /\ wref[w] # bucket => wrow[w] \in stray'
           /\ wref[w] = bucket => wrow[w] \in ring'
<1>1. WriterInv /\ RowInv
    BY DEF IInv
<1>2. wrow[w] \in Row /\ InFlight(wrow[w])
    BY <1>1 DEF WriterInv, Add, InFlight, Adding
<1> QED BY <1>1, <1>2 DEF RowInv, Add, rowVars

LEMMA ReadableSteps ==
    ASSUME IInv, Next
    PROVE  ReadableSomewhere'
<1> USE Constants
<1>0. TypeOK /\ RowInv /\ BucketInv /\ ReadableSomewhere
    BY DEF IInv
<1> SUFFICES ASSUME NEW i \in Row, Added(i)', i \notin stray'
             PROVE  i \in stored' \cup ring'
    BY DEF ReadableSomewhere
<1>a. Added(i) /\ i \notin stray => i \in stored \cup ring
    BY <1>0 DEF ReadableSomewhere
<1>1. ASSUME NEW w \in Writers, Arrive(w) \/ WriterStep(w)
      PROVE  i \in stored' \cup ring'
    <2>1. CASE Add(w) /\ i = wrow[w]
        BY <2>1, RowAdded
    <2>2. CASE ~(Add(w) /\ i = wrow[w])
        BY <1>a, <1>1, <2>2, RowsStay
    <2> QED BY <2>1, <2>2
<1>2. ASSUME NEW r \in Readers, Open(r) \/ ReaderStep(r) \/ Cancel(r)
      PROVE  i \in stored' \cup ring'
    BY <1>0, <1>a, <1>2, Handlers DEF Added, Adding, rowVars, writerVars
<1>3. CASE Evict
    <2>1. status[i] = "confirmed" => i \in stored
        BY <1>0 DEF RowInv
    <2> QED BY <1>a, <1>3, <2>1 DEF Evict, Kept, Added, Adding, rowVars, writerVars, ghosts
<1>4. CASE Tick
    BY <1>a, <1>4 DEF Tick, Added, Adding, writerVars, ghosts
<1>5. CASE Restart
    BY <1>5 DEF Restart, Added
<1> QED BY <1>1, <1>2, <1>3, <1>4, <1>5 DEF Next

(* Between two steps of others, what a backfilling or a following client   *)
(* has is kept.                                                            *)
LEMMA ScanWriterSteps ==
    ASSUME IInv, NEW w \in Writers, Arrive(w) \/ WriterStep(w)
    PROVE  ScanInv'
<1> USE Constants
<1>0. TypeReaders /\ ScanInv
    BY DEF IInv, TypeOK
<1> SUFFICES ASSUME NEW r \in Readers \ deaf', NEW i \in Row,
                    rpc'[r] = "scan", Added(i)', i \notin stray'
             PROVE  \/ PrintOf[i] \in seen'[r]
                    \/ (i \in ring' /\ (age'[i] <= InsertTime + took'[r] \/ WrittenOff(i)'))
    BY DEF ScanInv
<1>1. UNCHANGED <<rpc, seen, took, deaf>>
    BY DEF Arrive, WriterStep, Add, FlushTick, MarkInserting, Insert, MarkConfirmed, Revert,
       readerVars, ghosts
<1>2. CASE Add(w) /\ i = wrow[w]
    <2>1. took[r] \in Nat /\ age[i] \in Int
        BY <1>0 DEF TypeReaders, IInv, TypeOK, TypeRows
    <2> QED BY <1>1, <1>2, <2>1, RowAdded
<1>3. CASE ~(Add(w) /\ i = wrow[w])
    <2>1. \/ PrintOf[i] \in seen[r]
          \/ (i \in ring /\ (age[i] <= InsertTime + took[r] \/ WrittenOff(i)))
        BY <1>0, <1>1, <1>3, RowsStay DEF ScanInv
    <2> QED BY <1>1, <1>3, <2>1, RowsStay
<1> QED BY <1>2, <1>3

LEMMA ScanReaderSteps ==
    ASSUME IInv, NEW q \in Readers, Open(q) \/ ReaderStep(q) \/ Cancel(q)
    PROVE  ScanInv'
<1> USE Constants
<1>0. /\ TypeOK /\ TypeReaders /\ TypeRows /\ ScanInv /\ RowInv /\ BucketInv
      /\ ReadableSomewhere
    BY DEF IInv, TypeOK
<1> SUFFICES ASSUME NEW r \in Readers \ deaf', NEW i \in Row,
                    rpc'[r] = "scan", Added(i)', i \notin stray'
             PROVE  \/ PrintOf[i] \in seen'[r]
                    \/ (i \in ring' /\ (age'[i] <= InsertTime + took'[r] \/ WrittenOff(i)'))
    BY DEF ScanInv
<1>1. /\ ring' = ring /\ UNCHANGED <<rowVars, writerVars, stray>>
      /\ Added(i) /\ i \notin stray /\ age' = age
      /\ WrittenOff(i)' <=> WrittenOff(i)
    BY <1>0, Handlers DEF Added, Adding, WrittenOff, InFlight, Batched, rowVars, writerVars
<1>2. CASE r = q
    <2>1. QueryStored(q)
        BY <1>0, <1>2 DEF ReaderStep, TypeReaders, Open, Subscribe, CheckLive, ScanRing, Deliver,
           Close, Cancel
    <2>2. /\ seen'[r] = seen[r] \cup PrintsOf(stored)
          /\ took' = took
        BY <1>0, <1>2, <2>1 DEF QueryStored, TypeReaders
    <2>3. i \in stored => PrintOf[i] \in seen'[r]
        BY <1>0, <2>2, PrintsOfRows DEF TypeRows
    <2>4. i \in stored \cup ring
        BY <1>0, <1>1 DEF ReadableSomewhere
    <2>5. ASSUME i \notin stored
          PROVE  age[i] <= InsertTime \/ WrittenOff(i)
        <3>1. CASE InFlight(i)
            BY <1>0, <3>1 DEF RowInv
        <3>2. CASE ~InFlight(i)
            <4>1. status[i] \in {"none", "pending", "inserting", "confirmed", "gone"}
                BY <1>0 DEF TypeRows
            <4>2. /\ i <= rows /\ (status[i] = "gone" => i \in stored)
                  /\ i \in Nat /\ rows \in Nat
                BY <1>0, <1>1 DEF Added, TypeRows, Row
            <4>3. /\ status[i] = "none" => i > rows
                  /\ status[i] = "confirmed" => i \in stored
                  /\ status[i] = "inserting" => Batched(i)
                BY <1>0 DEF RowInv
            <4> QED BY <2>5, <3>2, <4>1, <4>2, <4>3 DEF WrittenOff, InFlight
        <3> QED BY <3>1, <3>2
    <2>6. took[r] \in Nat /\ age[i] \in Int
        BY <1>0 DEF TypeReaders, TypeRows
    <2> QED BY <1>1, <2>2, <2>3, <2>4, <2>5, <2>6
<1>3. CASE r # q
    <2>1. /\ rpc'[r] = rpc[r] /\ took'[r] = took[r] /\ seen'[r] = seen[r]
          /\ r \notin deaf
        BY <1>0, <1>3 DEF ReaderStep, TypeReaders, Open, Subscribe, CheckLive, QueryStored,
           ScanRing, Deliver, Close, Cancel, ghosts
    <2> QED BY <1>0, <1>1, <2>1 DEF ScanInv
<1> QED BY <1>2, <1>3

(* A row that is young, or that no INSERT confirmed, is not evicted.       *)
LEMMA ScanOtherSteps ==
    ASSUME IInv, Evict \/ Tick \/ Restart
    PROVE  ScanInv'
<1> USE Constants
<1>0. TypeReaders /\ TypeRows /\ ScanInv
    BY DEF IInv, TypeOK
<1> SUFFICES ASSUME NEW r \in Readers \ deaf', NEW i \in Row,
                    rpc'[r] = "scan", Added(i)', i \notin stray'
             PROVE  \/ PrintOf[i] \in seen'[r]
                    \/ (i \in ring' /\ (age'[i] <= InsertTime + took'[r] \/ WrittenOff(i)'))
    BY DEF ScanInv
<1>a. took[r] \in 0 .. BackfillTime /\ age[i] \in 0 .. Old
    BY <1>0 DEF TypeReaders, TypeRows
<1>1. CASE Evict
    <2>1. /\ UNCHANGED <<rowVars, writerVars, readerVars, ghosts>> /\ ring' = Kept
          /\ age' = age /\ took' = took /\ seen' = seen /\ rpc' = rpc
          /\ Added(i) /\ i \notin stray /\ r \in Readers \ deaf
          /\ WrittenOff(i)' <=> WrittenOff(i)
        BY <1>1 DEF Evict, Added, Adding, WrittenOff, InFlight, Batched, rowVars, writerVars,
           readerVars, ghosts
    <2>2. \/ PrintOf[i] \in seen[r]
          \/ (i \in ring /\ (age[i] <= InsertTime + took[r] \/ WrittenOff(i)))
        BY <1>0, <2>1 DEF ScanInv
    <2>3. age[i] <= InsertTime + took[r] => age[i] <= Window
        BY <1>a
    <2>4. WrittenOff(i) => status[i] # "confirmed"
        BY DEF WrittenOff
    <2> QED BY <2>1, <2>2, <2>3, <2>4 DEF Kept
<1>2. CASE Tick
    <2>1. /\ UNCHANGED <<ring, rows, status, stored, writerVars, rpc, seen, ghosts>>
          /\ took'[r] = IF Backfilling(r) THEN took[r] + 1 ELSE took[r]
          /\ age'[i] = IF i <= rows THEN Younger(age[i]) ELSE 0
        BY <1>2 DEF Tick
    <2>2. /\ Added(i) /\ i \notin stray /\ r \in Readers \ deaf
          /\ WrittenOff(i)' <=> WrittenOff(i)
          /\ i <= rows /\ Backfilling(r)
        BY <2>1 DEF Added, Adding, WrittenOff, InFlight, Batched, writerVars, ghosts,
           Backfilling
    <2>3. \/ PrintOf[i] \in seen[r]
          \/ (i \in ring /\ (age[i] <= InsertTime + took[r] \/ WrittenOff(i)))
        BY <1>0, <2>1, <2>2 DEF ScanInv
    <2>4. age'[i] <= age[i] + 1 /\ age'[i] \in Int
        BY <1>a, <2>1, <2>2, Aging
    <2> QED BY <1>a, <2>1, <2>2, <2>3, <2>4
<1>3. CASE Restart
    BY <1>3 DEF Restart
<1> QED BY <1>1, <1>2, <1>3

(***************************************************************************)
(* What a client that follows the live tail has.                           *)
(***************************************************************************)

(* A channel only loses what its client is sent. *)
LEMMA LiveWriterSteps ==
    ASSUME IInv, NEW w \in Writers, Arrive(w) \/ WriterStep(w)
    PROVE  LiveComplete'
<1> USE Constants
<1>0. /\ TypeReaders /\ TypeRows /\ LiveComplete /\ ReaderInv
    BY DEF IInv, TypeOK
<1> SUFFICES ASSUME NEW r \in Readers \ deaf', NEW i \in Row,
                    rpc'[r] = "live", Added(i)', i \notin stray'
             PROVE  \/ PrintOf[i] \in seen'[r] \/ Queued(r, i)'
                    \/ i \in missed'[r]
                    \/ (WrittenOff(i)' /\ age'[i] > Window)
    BY DEF LiveComplete
<1>1. UNCHANGED <<rpc, seen, deaf>>
    BY DEF Arrive, WriterStep, Add, FlushTick, MarkInserting, Insert, MarkConfirmed, Revert,
       readerVars, ghosts
<1>2. /\ Queued(r, i) => Queued(r, i)'
      /\ missed[r] \subseteq missed'[r]
    <2>1. CASE Add(w)
        <3>1. queue[r] \in Seq(Row) /\ wrow[w] \in Row
            BY <1>0, <2>1, RowAdded DEF TypeReaders
        <3>2. queue'[r] = queue[r] \/ queue'[r] = Append(queue[r], wrow[w])
            BY <2>1 DEF Add
        <3>3. ASSUME NEW k \in DOMAIN queue[r]
              PROVE  k \in DOMAIN queue'[r] /\ queue'[r][k] = queue[r][k]
            BY <3>1, <3>2
        <3>4. missed[r] \subseteq missed'[r]
            BY <2>1 DEF Add
        <3> QED BY <3>3, <3>4 DEF Queued
    <2>2. CASE ~Add(w)
        <3>1. queue' = queue /\ missed' = missed
            BY <2>2 DEF Arrive, WriterStep, FlushTick, MarkInserting, Insert, MarkConfirmed,
               Revert, readerVars, ghosts
        <3> QED BY <3>1 DEF Queued
    <2> QED BY <2>1, <2>2
<1>3. CASE Add(w) /\ i = wrow[w]
    <2>1. wref[w] = bucket
        BY <1>3, RowAdded
    <2>2. r \in subs[bucket]
        BY <1>0, <1>1 DEF ReaderInv, Attached
    <2>3. CASE Room(r)
        <3>1. queue'[r] = Append(queue[r], i) /\ queue[r] \in Seq(Row) /\ i \in Row
            BY <1>0, <1>3, <2>1, <2>2, <2>3 DEF Add, TypeReaders
        <3>2. Len(queue[r]) + 1 \in DOMAIN queue'[r] /\ queue'[r][Len(queue[r]) + 1] = i
            BY <3>1
        <3> QED BY <3>2 DEF Queued
    <2>4. CASE ~Room(r)
        BY <1>1, <1>3, <2>1, <2>2, <2>4 DEF Add
    <2> QED BY <2>3, <2>4
<1>4. CASE ~(Add(w) /\ i = wrow[w])
    <2>1. /\ Added(i) /\ i \notin stray /\ age' = age
          /\ WrittenOff(i) => WrittenOff(i)'
        BY <1>4, RowsStay
    <2>2. \/ PrintOf[i] \in seen[r] \/ Queued(r, i)
          \/ i \in missed[r]
          \/ (WrittenOff(i) /\ age[i] > Window)
        BY <1>0, <1>1, <2>1 DEF LiveComplete
    <2> QED BY <1>1, <1>2, <2>1, <2>2
<1> QED BY <1>3, <1>4

LEMMA LiveReaderSteps ==
    ASSUME IInv, NEW q \in Readers, Open(q) \/ ReaderStep(q) \/ Cancel(q)
    PROVE  LiveComplete'
<1> USE Constants
<1>0. /\ TypeOK /\ TypeReaders /\ TypeRows /\ LiveComplete /\ ScanInv /\ BucketInv
    BY DEF IInv, TypeOK
<1> SUFFICES ASSUME NEW r \in Readers \ deaf', NEW i \in Row,
                    rpc'[r] = "live", Added(i)', i \notin stray'
             PROVE  \/ PrintOf[i] \in seen'[r] \/ Queued(r, i)'
                    \/ i \in missed'[r]
                    \/ (WrittenOff(i)' /\ age'[i] > Window)
    BY DEF LiveComplete
<1>1. /\ UNCHANGED <<rowVars, writerVars, stray>>
      /\ Added(i) /\ i \notin stray /\ age' = age
      /\ WrittenOff(i)' <=> WrittenOff(i)
    BY <1>0, Handlers DEF Added, Adding, WrittenOff, InFlight, Batched, rowVars, writerVars
<1>2. CASE r = q /\ rpc[r] # "live"
    <2>1. ScanRing(q)
        BY <1>0, <1>2 DEF ReaderStep, TypeReaders, Open, Subscribe, CheckLive, QueryStored,
           Deliver, Close, Cancel
    <2>2. /\ rpc[r] = "scan" /\ deaf' = deaf
          /\ bucket # NoBucket => seen'[r] = seen[r] \cup PrintsOf(Scanned)
          /\ bucket = NoBucket => seen'[r] = seen[r]
        BY <1>0, <1>2, <2>1 DEF ScanRing, ghosts, TypeReaders
    <2>3. \/ PrintOf[i] \in seen[r]
          \/ (i \in ring /\ (age[i] <= InsertTime + took[r] \/ WrittenOff(i)))
        BY <1>0, <1>1, <2>2 DEF ScanInv
    <2>4. took[r] \in 0 .. BackfillTime /\ age[i] \in 0 .. Old
        BY <1>0 DEF TypeReaders, TypeRows
    <2>5. i \in ring => bucket # NoBucket
        BY <1>0 DEF BucketInv
    <2>6. i \in ring /\ age[i] <= Window => PrintOf[i] \in PrintsOf(Scanned)
        BY <1>0, PrintsOfRows DEF Scanned, TypeRows
    <2>7. age[i] <= InsertTime + took[r] => age[i] <= Window
        BY <2>4
    <2>8. age[i] <= Window \/ age[i] > Window
        BY <2>4
    <2> QED BY <1>1, <2>2, <2>3, <2>5, <2>6, <2>7, <2>8
<1>3. CASE r = q /\ rpc[r] = "live"
    <2>1. Deliver(q)
        BY <1>0, <1>3 DEF ReaderStep, TypeReaders, Open, Subscribe, CheckLive, QueryStored,
           ScanRing, Close, Cancel
    <2>2. /\ queue[r] \in Seq(Row) /\ queue[r] # << >>
          /\ seen'[r] = seen[r] \cup {PrintOf[Head(queue[r])]}
          /\ queue'[r] = Tail(queue[r]) /\ UNCHANGED <<missed, deaf>>
        BY <1>0, <1>3, <2>1 DEF Deliver, TypeReaders, ghosts
    <2>3. ASSUME NEW k \in DOMAIN queue[r], PrintOf[queue[r][k]] = PrintOf[i]
          PROVE  PrintOf[i] \in seen'[r] \/ Queued(r, i)'
        <3>1. CASE k = 1
            BY <2>2, <2>3, <3>1
        <3>2. CASE k # 1
            <4>1. k - 1 \in DOMAIN queue'[r] /\ queue'[r][k - 1] = queue[r][k]
                BY <2>2, <3>2
            <4> QED BY <2>3, <4>1 DEF Queued
        <3> QED BY <3>1, <3>2
    <2>4. Queued(r, i) => PrintOf[i] \in seen'[r] \/ Queued(r, i)'
        BY <2>3 DEF Queued
    <2> QED BY <1>0, <1>1, <1>3, <2>2, <2>4 DEF LiveComplete
<1>4. CASE r # q
    <2>1. /\ rpc'[r] = rpc[r] /\ seen'[r] = seen[r] /\ queue'[r] = queue[r]
          /\ missed'[r] = missed[r] /\ r \notin deaf
        BY <1>0, <1>4 DEF ReaderStep, TypeReaders, Open, Subscribe, CheckLive, QueryStored,
           ScanRing, Deliver, Close, Cancel, ghosts
    <2>2. \/ PrintOf[i] \in seen[r] \/ Queued(r, i)
          \/ i \in missed[r]
          \/ (WrittenOff(i) /\ age[i] > Window)
        BY <1>0, <1>1, <2>1 DEF LiveComplete
    <2>3. Queued(r, i) => Queued(r, i)'
        BY <2>1 DEF Queued
    <2> QED BY <1>1, <2>1, <2>2, <2>3
<1> QED BY <1>2, <1>3, <1>4

LEMMA LiveOtherSteps ==
    ASSUME IInv, Evict \/ Tick \/ Restart
    PROVE  LiveComplete'
<1> USE Constants
<1>0. TypeRows /\ LiveComplete
    BY DEF IInv, TypeOK
<1> SUFFICES ASSUME NEW r \in Readers \ deaf', NEW i \in Row,
                    rpc'[r] = "live", Added(i)', i \notin stray'
             PROVE  \/ PrintOf[i] \in seen'[r] \/ Queued(r, i)'
                    \/ i \in missed'[r]
                    \/ (WrittenOff(i)' /\ age'[i] > Window)
    BY DEF LiveComplete
<1>1. CASE Restart
    BY <1>1 DEF Restart
<1>2. CASE Evict \/ Tick
    <2>1. /\ UNCHANGED <<rows, status, stored, writerVars, rpc, seen, queue, ghosts>>
          /\ age'[i] = age[i] \/ age'[i] = IF i <= rows THEN Younger(age[i]) ELSE 0
        BY <1>2 DEF Evict, Tick, rowVars, readerVars
    <2>2. /\ Added(i) /\ i \notin stray /\ r \in Readers \ deaf /\ i <= rows
          /\ WrittenOff(i) => WrittenOff(i)'
          /\ Queued(r, i) => Queued(r, i)'
        BY <2>1 DEF Added, Adding, WrittenOff, InFlight, Batched, writerVars, ghosts, Queued
    <2>3. age[i] > Window => age'[i] > Window
        BY <1>0, <2>1, <2>2, Aging DEF TypeRows
    <2>4. \/ PrintOf[i] \in seen[r] \/ Queued(r, i)
          \/ i \in missed[r]
          \/ (WrittenOff(i) /\ age[i] > Window)
        BY <1>0, <2>1, <2>2 DEF LiveComplete
    <2> QED BY <2>1, <2>2, <2>3, <2>4 DEF ghosts
<1> QED BY <1>1, <1>2

(***************************************************************************)
(* The inductive invariant, and what follows.                              *)
(***************************************************************************)
LEMMA IInvInit ==
    ASSUME Init
    PROVE  IInv
<1> USE Constants
<1>1. TypeRows /\ TypeWriters
    BY DEF Init, TypeRows, TypeWriters
<1>2. TypeReaders
    <2>1. << >> \in Seq(Row)
        OBVIOUS
    <2> QED BY <2>1 DEF Init, TypeReaders
<1>3. \A i \in Row : i \in Nat /\ i > 0
    BY DEF Row
<1>4. \A i \in Row : ~InFlight(i) /\ i > rows
    BY <1>3 DEF Init, InFlight, Batched, Adding
<1>5. RowInv /\ WriterInv /\ ReaderInv /\ SubsInv /\ BucketInv
    BY <1>4 DEF Init, RowInv, WriterInv, ReaderInv, SubsInv, BucketInv, Attached
<1>6. ReadableSomewhere /\ ScanInv /\ LiveComplete
    BY <1>3, <1>4 DEF Init, ReadableSomewhere, ScanInv, LiveComplete, Added
<1> QED BY <1>1, <1>2, <1>5, <1>6 DEF IInv, TypeOK

LEMMA IInvStep ==
    ASSUME IInv, [Next]_vars
    PROVE  IInv'
<1>0. TypeOK /\ WriterInv
    BY DEF IInv
<1>1. ASSUME NEW w \in Writers, Arrive(w) \/ WriterStep(w)
      PROVE  IInv'
    <2>1. ReadableSomewhere'
        BY <1>1, ReadableSteps DEF Next
    <2> QED BY <1>0, <1>1, <2>1, TypeWriterSteps, RowWriterSteps, WriterWriterSteps,
              SubsWriterSteps, ScanWriterSteps, LiveWriterSteps DEF IInv
<1>2. ASSUME NEW r \in Readers, Open(r) \/ ReaderStep(r) \/ Cancel(r)
      PROVE  IInv'
    <2>1. ReadableSomewhere'
        BY <1>2, ReadableSteps DEF Next
    <2> QED BY <1>0, <1>2, <2>1, TypeReaderSteps, RowOtherSteps,
              SubsReaderSteps, ScanReaderSteps, LiveReaderSteps DEF IInv
<1>3. CASE Evict \/ Tick \/ Restart
    <2>1. ReadableSomewhere'
        BY <1>3, ReadableSteps DEF Next
    <2> QED BY <1>0, <1>3, <2>1, TypeOthers, RowOtherSteps,
              SubsOtherSteps, ScanOtherSteps, LiveOtherSteps DEF IInv
<1>4. CASE UNCHANGED vars
    BY <1>4 DEF vars, bucketVars, rowVars, writerVars, readerVars, ghosts, IInv, TypeOK,
       TypeRows, TypeWriters, TypeReaders, RowInv, WriterInv, ReaderInv, SubsInv, BucketInv,
       ReadableSomewhere, ScanInv, LiveComplete, Attached, Added, Adding, InFlight, Batched,
       WrittenOff, Queued
<1> QED BY <1>1, <1>2, <1>3, <1>4 DEF Next

THEOREM Invariance == Spec => []IInv
<1> QED BY IInvInit, IInvStep, PTL DEF Spec

(* Every variable of the forwarder keeps its type. *)
THEOREM TypeCorrect == Spec => []TypeOK
<1>1. IInv => TypeOK
    BY DEF IInv
<1> QED BY <1>1, Invariance, PTL

(* main.go, ring.go: a row can always be read, from ClickHouse or from the *)
(* ring, however INSERTs, lost answers, evictions and restarts interleave. *)
THEOREM AlwaysReadable == Spec => []ReadableSomewhere
<1>1. IInv => ReadableSomewhere
    BY DEF IInv
<1> QED BY <1>1, Invariance, PTL

(* ring.go: Add never sends on a channel that its cancel has closed. *)
THEOREM NeverSendsOnClosed == Spec => []NoSendOnClosed
<1>1. IInv => NoSendOnClosed
    <2> SUFFICES ASSUME IInv, NEW b \in Buckets, NEW r \in subs[b]
                 PROVE  open[r] /\ rref[r] = b
        BY DEF NoSendOnClosed
    <2>1. r \in Readers /\ Attached(r) /\ rref[r] = b
        BY DEF IInv, SubsInv, TypeOK, TypeRows
    <2> QED BY <2>1 DEF IInv, ReaderInv, Attached
<1> QED BY <1>1, Invariance, PTL

(* timeseries.go: the backfill and the live tail leave no gap between them *)
(* but those LiveComplete names.                                           *)
THEOREM NoGapAtTheSeam == Spec => []LiveComplete
<1>1. IInv => LiveComplete
    BY DEF IInv
<1> QED BY <1>1, Invariance, PTL
=============================================================================
