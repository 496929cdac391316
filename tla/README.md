# InfiniteStream: a TLA+ verification project

InfiniteStream is an HLS/DASH test server. A Go proxy (`go-proxy`) gives each player a session with a
port of its own and injects faults into what it proxies: HTTP errors, cut sockets, transport drops, rate
shaping. Behind it `go-live` turns clips into endless live streams and `go-upload` turns uploaded files
into clips; beside it a forwarder writes what players report to ClickHouse and serves it to dashboards.
This directory models the parts where goroutines, requests and processes meet.

Paths below are relative to the repository; `main.go` is `go-proxy/cmd/server/main.go`.

## 1. The system

| Component | State | Operations | Who else touches it | What makes it correct |
|---|---|---|---|---|
| `mutateSessions` (main.go 8962-9012) | `sessionsSnap`, an atomic pointer to an immutable slice; `uiStateVersionSeq` | load, run the caller's closure on a deep clone, stamp, compare-and-swap, retry | every writer of the session list | a call takes effect in one step, on the attempt that won; versions grow; calls return |
| Session list (main.go 6183-6520, 9027-9177, 10064-10162, 10425-10648; `v2_adapter.go`) | the sessions | bootstrap (reserve, build, fill or give back), save of a request's clone, metrics POST, PATCH, DELETE, clear, synthetic creation, reaper | proxied requests, players, operators | slots distinct, reservations come back, no stale clone undoes what is newer |
| v2 field concurrency (`internal/v2/server`: `concurrency.go`, `handlers_mutate.go`, `handlers_fault_rules.go`) | per player a map from path to revision, beside the session | GET with ETag; PATCH, POST, DELETE with If-Match | the session list, through a closure that may be retried | the ETag is a strong tag; disjoint writes never undo each other; 412 means contention |
| HTTP fault rules (`fault_evaluate.go`, `fault_match.go`, main.go 6843-6863, 10830-11030) | per rule a count, two schedules and a done flag, in `_faultrule_state` of the session; `sessionStateMu` | match a request, evaluate, persist, count | overlapping requests, PATCH (which arms rules again), every save | windows as wide and as far apart as asked; a one-shot fires once |
| Transport fault loop (main.go 4795-5208) | per port a cancel function in `faultLoops`, the port's nftables rules, the active flag of its session | stop, clear, arm; the loop arms, counts, disarms, pauses, ends | PATCH, bootstrap, DELETE, reaper | a loop that has ended leaves nothing behind; a stopped one ends |
| Shaping pattern loop and apply state (main.go 4204-4560, 5224-5500, 7829-7950) | one loop per port, an apply-state cache, `tc` | start, step, stop, replace a loop; apply | PATCH, bootstrap, DELETE, reaper | the kernel ends up in the state of the latest settings |
| Groups (main.go 10105-10160, `v2_adapter.go`, `handlers_mutate.go`) | `group_id` of each session | link, unlink, broadcast of a PATCH, removal by the reaper | PATCH, reaper | a group has two members or more; a broadcast reaches all or those there |
| Play overrides (`handlers_plays.go`) | a snapshot of the fields overridden for one play | PATCH of a play, restore when the play rotates | proxied requests, operators | what a play overrides is restored, and nothing else |
| v2 event ring and SSE (`eventring.go`, `handlers_sse.go`) | a ring of frames with sequence numbers, a bounded channel per subscriber, the last id delivered on each connection | publish and evict, fan out, subscribe, resume from Last-Event-ID, drop the oldest | the event source publishes, dashboards and forwarder subscribe | frames in order, a gap is announced, a slow reader never blocks the publisher |
| Event source and v1 hubs (main.go 410-830, `events.go`) | the snapshot before, the current play of each player, bounded queues | turn changes of the session list and requests into frames | all writers of the list | a play that started ends once; frames speak of players there are |
| Request classification and translation (`fault_match.go`, `pkg/v2translate`) | none | pure mappings | | |
| Live playlists (`go-live`: `range_hls.go`, `handlers.go`) | per playlist family the last index and the loop count; the playlists on disk | one iteration every 200 ms: count a loop when the index falls, write the window that ends at the live edge | one worker after another on the same files | the window slides forward over a stable numbering, at the live edge |
| Live workers (`go-live`: `handlers.go`, `stream_tracker.go`, `process_manager.go`) | the Manager's processes, `hlsWorkers`, the tracker's entries, the cache of MPDs | start on demand, track, generate, cache, stop when idle, stop by request | every playlist request, the reaper | one worker per content; a player that stays has one; one that is unused stops |
| Uploads and jobs (`go-upload/internal`) | tables of sources and jobs, files, a bounded queue, one worker | init, chunk, complete, take, encode, cancel, delete, re-encode, scan; requeue at start | browsers, operators, the encoder process, crashes | no job is lost, encoded twice, or encoded from part of a file |
| Analytics forwarder (`analytics/go-forwarder`) | ring of recent rows with an insert status, batches, subscribers' channels | add, insert in batches, confirm or revert, evict; backfill and follow | SSE of the proxy, ClickHouse, dashboards | a row is readable from its arrival; no hole between ClickHouse, ring and channel |
| Rendezvous worker (`cloudflare/pair-rendezvous`) | KV entries with expiry | publish and fetch a pairing code, announce, list | servers, players | a code is delivered to the device that asked |
| Harness CLI (`tools/harness-cli`) | sweep pool, device-farm reservations | claim a cell, run, record, release | several runners on one farm | a device has one holder |
| Players, dashboards, encoder scripts, deployment | | | | outside the server |
| Generated bindings (`pkg/v2oapigen`) | | | | generated |

How they interact. A proxied request first runs the reaper, then clones the list, works on the clone of
its session for as long as the transfer lasts, and saves the clone twice, right after the fault decision
and when the transfer is over. Operators and players write the same sessions meanwhile. All writes meet in
`mutateSessions`; next to it stand `sessionStateMu`, which is meant to make fault decisions exclusive, the
revision trackers, which are shared state outside what is swapped, and the loops of each port, which write
the session and the kernel from goroutines of their own. The event source publishes what changes to the
event ring; the forwarder and dashboards follow it. The forwarder's ring covers the time between the
arrival of a row and its being readable in ClickHouse. `go-live` serves what `go-upload` has encoded: every
playlist request starts the content's worker if there is none.

What is hard, and where (PROJECT.json lists each hazard at its line): closures that run more than once,
clones that are minutes old when they are saved, checks made on one list and used on a later one, maps
shared by reference between a clone and the published list, revisions drawn in one order and published in
another, a save dropped as stale while its caller goes on; goroutines that are told to stop and not waited
for, and clean up what is their successor's by then; one worker known to three records with a mutex each;
the seam of a clip, where indices fall and numbers must not; rows that are in the ring, in ClickHouse, in
both or in flight; a status in a table and a token in a channel that a crash separates.

## 2. Modules

| Module | Models | Main correspondence |
|---|---|---|
| `AtomicStore` | what `mutateSessions` promises | each call is one atomic step |
| `CasStore` | `mutateSessions` | `Load`, `ApplyUnchanged`/`ApplyChanged`, `SwapWins`/`SwapLoses` are the steps of the retry loop; `snap` is `sessionsSnap` |
| `PlayerPatch` | GET, PATCH, POST, DELETE with If-Match on one player and its fault rules | `Conflicts`, `Top`, `Touched` are `FieldRevisions`; the first check, the closure's check, the touch of the tracker and the swap are separate steps |
| `SessionStore` | the session list and all its writers | one action per handler or per part of one between two publications; each `mutateSessions` call is one step, which `CasStore` justifies |
| `Cadence` | the cadence engine, as operators | `After` and `Fails` are `evaluateFaultRules` with `FailureHandler` |
| `FaultCadence` | one armed rule and the sequence of requests it matches | ghosts remember the latest window |
| `FaultState` | overlapping requests on the state of one rule | `Locks`, `Decides`, `SaveLoads`, `Saved` are the locked section; maps live in `heap`, since the code shares one by reference |
| `TransportFault` | the transport fault loops of one port and the handlers that stop and start them | `Stop`, `Clear`, `Report`, `Register` are `armTransportFaultLoop`; `Apply`, `Add`, `Arm`, `Phase`, `Disarm`, `Off`, `Resume`, `Cancelled` the loop; `Unregister`, `Sweep` its deferred function |
| `EventRing` | the ring, its fan-out and the SSE handler of each client | `Publish`, `FanOut`, `Offer`/`FindFull`/`Replace` are the publisher's steps; `Subscribe`, `Since`, `WriteGap`, `WriteReplay`, `WriteLive`, `SkipLive` those of `GetApiV2Events` |
| `IngestRing` | the forwarder's inserters, ring, evictor and timeseries handlers | `Arrive`, `Add`, `MarkInserting`, `Insert`, `MarkConfirmed`, `Revert` are an inserter; `Evict` is `EvictOlderThan`; `Open`, `Subscribe`, `QueryStored`, `ScanRing`, `CheckLive`, `Deliver`, `Cancel`, `Close` a handler |
| `LiveWindow` | what a media playlist promises a player | a window that moves forward over a fixed numbering, by epochs |
| `LiveLoop` | the worker's iterations and the playlists they write | `Iterate` is one turn of `runUnifiedHLSWorker`; `Written` is `generateVariantPlaylistCore`, with `WindowStart`, `LastWritten` and `StartLoop` as its three searches, and `FirstListed` and `LastListed` as the segments it writes first and last |
| `LiveWorkers` | the life of one content's worker | `EnsureForHls`, `EnsureForDash` are `ensureHLSWorker`; `Track`, `Record` the tracker; `ListIdle`, `StopIdle`, `Untrack`, `Forget` the reaper; `Load`, `Generate`, `Store` the worker |
| `UploadJobs` | uploads, sources, jobs, queue and worker across crashes | one action per SQL statement or file operation of each handler, of the worker and of the start-up |
| `MC*` | small instances | constants, symmetry, closures of `CasStore` |
| `*Proofs` | the theorems | one module each, but that `FaultProofs` is about `FaultCadence` and `TransportFault`, and `ContentProofs` about `UploadJobs`, `LiveWorkers` and `LiveLoop` |

`CasStore` refines `AtomicStore` (property `Linearizable`), and `LiveLoop` refines `LiveWindow`
(`SlidingWindow`). `SessionStore` builds on the promise of `AtomicStore`: one step per call.
`FaultState` does not: it keeps loading and swapping apart, because a map of the published slice can be
written in between. `FaultCadence` and `FaultState` share `Cadence`.

### What is abstracted

- A session keeps what its writers compete for. In `SessionStore`, `rules` stands for every key a save
  overlays as it finds it, `shape` for the keys `copySessionControlState` protects; each is named by the
  revision that set it. In `TransportFault` it is there or not, and its fault is active or not; the saves
  of proxied requests are left out, and the session of the port is always that of the same player.
- Revisions are numbers in the order they were drawn. The code takes them from the wall clock
  (`newRevision`), so this holds while the clock is not set back.
- A published slice is immutable in `CasStore`, `PlayerPatch` and `SessionStore`, as the comment at
  main.go 8940-8950 asks. `FaultState` shows the exception (`PublishedFrozen`).
- Copying the shared map is atomic: a copy holds either the old entry or the new. What Go does when it
  detects a concurrent write during an iteration, which is to abort the process, is not modelled.
- The clock of `Cadence` has ticks, and the zone is UTC, as in the containers.
- In `FaultState` whether a request matches the rule is a free choice. A PATCH that arms the rule again
  keeps its mode and numbers. The session is there throughout; `SessionStore` has deletions.
- `PlayerPatch` has one player in no group.
- In `TransportFault` `nft` succeeds, and listing and deleting a port's rules is one step; so is taking a
  cancel function out of the map and calling it. Whether enough packets have come or a timer has run out
  is a free choice. A handler runs once and starts at most one loop, which bears its name.
- In `EventRing` a frame is its id, since one goroutine publishes (`EventSource.run`), and the ring is an
  interval of ids. The age bound is a free choice of how many old frames go at a publication. A connection
  may break between any two frames; a frame written but not received counts as not written. `seen` is a
  ghost: what each client was sent, was told and lost in this life of the server. The deferred cancel is
  part of the break; until it runs, the code serves a channel nobody reads.
- `IngestRing` has one player, that is one key; keys share a shard's mutex only. Ages stop growing past the
  window. An INSERT may be stored and yet answered by an error, or refused. A bucket that has left the map
  keeps its subscribers only, because nothing else of it is read again.
- `LiveLoop` counts in whole ticks, and a variant is the list of where its segments end (`cuts`), the running
  sums of their durations; parts are counted by the segment they belong to. Every write goes to the file or fails; a skipped iteration writes all but
  the low-latency family.
- `LiveWorkers` is one content. The "dash-..." entries of the tracker decide nothing and are left out, and
  so is the iteration a worker finishes after its cancel.
- In `UploadJobs` a file is the sequence of chunks in it, all uploads have the same file name, and the
  several jobs of one upload (one per partial duration) are one.
- In `SessionStore` the reaper is without its part for groups, and the v1 PATCH with `base_revision`,
  `updateSessionsByPort` and the play rotation are not there.

## 3. Runs

Deadlock is checked in `ingest_ring` and `live_workers`, where time always passes on. The other systems
may stop: their goroutines are done, or a bound is reached.

| Run | Instance | What it shows |
|---|---|---|
| `cas_store` | 3 concurrent calls, 2 session ids, counters up to 3, every choice of 7 closures | every call appears atomic (`Linearizable`), a published version is larger than the one before, every call returns. Three calls are needed for one to lose twice to different winners |
| `player_patch` | 2 clients, 2 requests each out of 4 kinds, 1 publication by another writer | a client whose If-Match is the ETag has seen the current fields (`StrongTag`); a field changes only by an accepted write of it; every request is answered |
| `store_slots` | 2 bootstraps, 2 slots, 2 players of which one behind the limited address, 3 registrations, 3 revisions, deletes, clears, synthetic creations, 1 tick so that the reaper takes what is idle | no two sessions share a slot, a placeholder belongs to a bootstrap under way. Three registrations make a slot change hands while a bootstrap still believes it has it |
| `store_saves` | 2 requests, 1 operator, 3 revisions, event times 0-2, sessions deleted and made again | saves of clones of any age never move a session's event time back nor revert shaping settings |
| `fault_cadence` | every rule of frequency 0-3 and consecutive 0-2 in each mode, 7 requests over 9 ticks, 2 ticks a second | windows have exactly the width asked for and are at least a cycle apart; a one-shot has one window. Seven requests hold two full cycles of the longest rule |
| `fault_state` | 2 overlapping requests, a writer that is a metrics POST or a PATCH that arms the rule again, event times 0-2, a one-shot of one fault that is untouched or used up | the rule fires once while no locked save has been dropped and nobody arms it again; the mutex is given back and everybody returns whatever is dropped (`NobodyStuck`) |
| `transport_faults` | 3 handlers of every kind and the loops they start, in each of 3 cadences | a loop that has ended leaves no rule, and the map has the cancel function of a loop that runs (`EndsClean`); a cancelled loop ends (`CancelledEnds`). Three are the fewest in which a dying loop meets a successor and a third handler stops that one |
| `event_ring` | 2 clients, a ring of 2 frames, channels of 1 frame, 3 frames, 1 restart, breaks at every point | the ids a client has passed are each accounted for; nothing is both reported missing and delivered; ids never go back; the fan-out always has a step; a frame offered to a client that keeps reading, or a newer one, reaches it. Three frames are the fewest that make a gap, an overflow and a replay that overlaps the live channel |
| `ingest_ring` | 1 inserter, 1 follower that comes and goes, 2 rows, batches of 2, channels of 1, a window of 2 ticks, INSERTs and backfills of up to 1 tick, restarts | a row that arrived is in a batch, the ring or ClickHouse until it is written off; nothing is sent on a closed channel; a follower misses no row that came after it began, unless its channel was full; every row settles. Two rows make a batch that is flushed by size and one flushed by time, one row in the ring and one in flight |
| `live_loop` | 3 clips cut evenly and unevenly, 2 playlist families, a window of 6 ticks, up to 40 ticks and two workers, iterations up to 2 ticks late, skipped or failing to write | loops are counted exactly (`LoopsCounted`), the playlist ends at the live edge, its window is as long as asked, and it implements `LiveWindow`. Forty ticks are three loops of the longest clip, so that a second worker crosses the seam with the file of the first one there |
| `live_workers` | 1 HLS and 1 DASH player, idle timeout 2, MPD age 1, stall 1, 1 stop by request | a worker is leaked only if one was started while the reaper was clearing (`OneWorker`); a worker in use is listed; MPDs are fresh; a player that stays gets a worker; one that HLS players have used stops when they are gone. Two players are the fewest that start a worker each between the reaper's steps |
| `uploads` | 1 upload of 2 chunks, 1 re-encode, a queue of 1, 3 requests of operators, 2 crashes | a queued job is on its way to the worker (`NoLostJob`), none completes from part of an upload, none is encoded twice, a deleted one does not come back, each queued one gets its turn. Two crashes interrupt the recovery from the first one |

Wider instances, with the same properties or the inductive invariants, in configurations run by hand:

| Configuration | Instance |
|---|---|
| `MCStoreWide.cfg` | 1 request, 1 operator, 2 slots, 2 players, 5 revisions: `ShapeInvariant` |
| `MCEventWide.cfg` | 1 client, a ring of 3, a channel of 2, 6 frames, 2 restarts |
| `MCFaultPatch.cfg` | 2 requests and a writer that is a metrics POST or a PATCH, event times 0-1: `IInv`, `TimesPosted`, and that `CanStep` is ENABLED |
| `MCTransportWide.cfg` | 4 handlers: safety, and that `CanRun` is ENABLED |
| `MCLiveLoopWide.cfg` | a window of 8, up to 3 ticks late, a clip with a short last segment |
| `MCLiveWorkersWide.cfg` | 2 HLS players: safety, and that the guards of the fair steps are ENABLED |
| `MCUploadWide.cfg` | 2 uploads of files of the same name, safety |
| `MCCasLockFree.cfg` | the instance of `cas_store`: `LockFree`, and that `CanStep` is ENABLED |
| `MCPatchLockFree.cfg` | the instance of `player_patch`: `LockFree`, and that `CanHandle` is ENABLED |

### Fairness

- `CasStore` (`Step`) and `PlayerPatch` (`Handle`): each goroutine's step is weakly fair. Go's scheduler runs
  every goroutine that can run. Clients owe nothing: that one sends a request is not fair.
- `TransportFault`: a loop that can go on does. That packets come, a timer runs out or a handler goes on
  is not assumed.
- `EventRing`: the fan-out and the handler of each client. A handler's write ends when its client reads or
  breaks off, so `NewestArrives` promises something to clients that read only; publications are not fair.
- `IngestRing`: inserters, handlers and evictor run, and time passes. `Tick` waits for INSERTs and backfills
  under way, that is: each takes no longer than its constant, and both together less than the window of
  ten minutes. A slower one is not covered.
- `LiveWorkers`: players that stay ask on, the reaper and the worker run, time passes. `Tick` waits likewise:
  a request, a round of the reaper and the loading of a content take less than a tick, of which the idle
  timeout of 60 s is two, and an HLS player that stays asks at least once a tick. The timeout has to be longer
  than a tick: with one of a tick TLC finds a player that loses its worker again and again. Stops by request
  are bounded, since an operator that stops the worker for ever leaves nobody a worker.
- `UploadJobs`: the server's goroutines go on and encoders end; clients and operators owe nothing. Crashes
  are bounded, since nothing is encoded by a server that crashes for ever.
- `SessionStore`, `FaultCadence`, `FaultState` and `LiveLoop` have safety properties only. `NobodyStuck` is one
  as well: each goroutine has returned, can go on, or waits for the mutex of one that can. The runs of
  `FaultState` are finite, so that everybody returns if nobody is stuck.

Some properties restrict what is claimed, not only the size. `ShapeSettingsStick` has one operator at a time
and no bootstrap under way: with two operators, revisions can be published in the opposite order, and a fill
replaces what an operator wrote on a placeholder, by design. `SingleFires` speaks of the time before a locked
save has been dropped as stale and before a PATCH arms the rule again (`Undisturbed`). `SpansWindow` and
`EndsAtLiveEdge` are claimed of evenly cut clips no shorter than the window, since the code takes the mean segment
for each, and `EndsAtLiveEdge` of a window that is a whole number of segments: another has room for the segment on
air at the seam (`OnlyClosedListed`). `SlidingWindow` is proved of the clips the window suits (`WindowFits`), which
all clips of the runs are. `OneWorker`, `ServedIsTracked` and `IdleStops` except a worker started between the
reaper's steps (`raced`).

### Disagreements

Properties that state what a comment, document or test says and that the code does not keep. They stand at
the end of the modules. Put the property in place of the properties of the configuration, as PROPERTY if it is
an action or temporal formula (marked *), as INVARIANT otherwise, and `tlc` prints the steps.

| Configuration | Property | Says | What happens |
|---|---|---|---|
| `MCPlayerPatch` | `RefusedOnlyOnContention`* | `DESIGN.md` 96 | the retry of a request whose swap lost is refused because of its own first attempt |
| `MCPlayerPatch` | `EtagIsTop` | `concurrency.go` 10-12 | two requests on disjoint fields are published in the opposite order of their revisions: the ETag is older than the newest field |
| `MCPlayerPatch` | `NoBlindOverwrite`* | `DESIGN.md` 87-88 | a revision drawn before a client's read and published after it passes the check: the client overwrites what it has not seen |
| `MCStoreSlots` | `OneSessionPerPlayer` | main.go 6344 | two concurrent first requests of a player register twice |
| `MCStoreSlots` | `ClaimsDistinct` | main.go 6337 | a clear during a bootstrap frees its slot, and two bootstraps then fill it |
| `MCStoreSaves` | `RulesStick`* | main.go 8965 | a request's save brings back the fault rules from before a PATCH |
| `MCStoreReaped` (its own) | `OnlyIdleReaped`* | main.go 10065 | the final save of a long transfer brings back an old `last_request`, and a live player is reaped |
| `MCStoreIdentity` (its own) | `PlayerKeepsSlot`* | main.go 9046 | a late save lands on the session another player has been given since |
| `MCFaultCadence` | `FullCycle`* | `PRD.md` 101 | in mode `failures_per_seconds` the frequency counts from the recovery, not from the start |
| `MCFaultCadence` | `EveryRequestFaults`* | `fault_parity_test.go` 161 | one fault every request faults every other request |
| `MCFaultTwice` (its own) | `OneShotFires` | `fault_parity_test.go` 61 | with three overlapping requests, a one-shot of two faults fires three times |
| `MCFaultPatch` | `RearmFresh`* | `translate_faults.go` 28 | a request under way brings the spent state back over a rule armed again |
| `MCFaultState` | `PublishedFrozen`* | main.go 8946-8949 | the evaluator writes the published map in place, with readers of the snapshot under way |
| `MCFaultState` | `FaultsCounted` | main.go 5821 | two overlapping requests count on clones of their own, and one count is lost |
| `MCFaultStatus` (its own) | `FaultsCounted` | `proxy.yaml` 977 | faults answered with a status are counted after the save, on a clone nobody keeps |
| `MCTransportFault` | `Stoppable` | main.go 6423 | the deferred function of an ending loop takes the next loop's cancel function out of the map, and two handlers that arm at once leave one of theirs there: the other loop goes on until its cadence is through, if ever |
| `MCTransportFault` | `ShownAsItIs` | main.go 5493 | a handler's "none" is published after the next handler's loop is armed, or an ending loop clears the next one's rule: the session shows a fault that is not there, or none while packets are dropped |
| `MCEventRing` | `DroppedRecoverable` | `eventring.go` 130-133 | a frame lost to overflow is behind the Last-Event-ID the client sends next: reconnecting does not bring it back |
| `MCEventRing` | `RestartTold`* | `DESIGN.md` 748-750 | ids begin again at 1 after a restart; a client with an old id misses frames, and no `replay.gap` says so |
| `MCIngestRing` | `SubscribersKeepBucket` | `ring.go` 333 | the evictor drops a bucket between its lookup and the subscription: the follower hears nothing more |
| `MCIngestRing` | `LiveMeansActive`* | `timeseries.go` 274 | the handler's own subscription renews the activity it then asks about |
| `MCIngestRing` | `FailedBatchRetried`* | `ring.go` 228 | nobody retries the batch: its rows stay in memory and are never stored |
| `MCLiveLoop` | `NeverRenumbered`* | `range_hls.go` 118-121 | in the first loop of a worker the start loop is held at 0 and numbers jump when the window leaves the seam |
| `MCLiveLoop` | `OnlyClosedListed` | `range_hls.go` 346 | while the first segment of a clip is on air a window with room left lists it |
| `MCLiveLoop` | `PartsFollow` | `range_hls.go` 344 | a segment longer than the mean uses up the window before the live edge, and the parts belong to a later segment than the one a player takes them for |
| `MCLiveWorkers` | `WorkersStop`* | `README.md` 528 | a worker that DASH players alone have started is never listed for the reaper |
| `MCLiveWorkers` | `NoneLeaked` | `handlers.go` 2399-2404 | a request between the reaper's steps starts a worker, which the reaper then forgets |
| `MCLiveWorkers` | `DeadReplaced`* | `TROUBLESHOOTING.md` 66 | a worker whose content could not be loaded ends, but stays known, and none replaces it |
| `MCUploadJobs` | `CancelSticks`* | `docs/API.md` 67 | the next chunk, the worker's turn or the encoder's progress overwrites the status |
| `MCUploadJobs` | `SourceInUse`* | `docs/API.md` 43 | a job created after the count of active jobs loses its source |
| `MCUploadWide` | `OwnFile` | `util/strings.go` 33 | two uploads of a name choose it before either has written its first chunk, and append to one file |

Read on the way, and not stated as properties: `docs/API.md` 59 has uploads validated by their hash, and no
hash is checked; 68 says that deleting a job deletes its source file, and the file stays; a file found
invalid leaves its job at "uploading"; on a clip shorter than the window, or one whose segments differ so much that
the window has room for the second while the first is on air (1, 4, 4, 1, 1 and 1 ticks with a window of 6), the
last segment listed goes back at the seam.

## 4. Proofs

Every theorem holds for all values of the constants, under the assumptions named in the modules
(`CasAssumption`, `PatchAssumption`, `StoreAssumption`, `SecondAssumption`, `CadenceAssumption`,
`FaultAssumption`, `RingAssumption`, `IngestAssumption`, `UploadAssumption`, `WorkersAssumption`,
`LiveAssumption`: types, disjoint sets of goroutines, at least one event time, at most nine sessions, since
`allocateSessionNumber` looks at one digit, INSERT plus backfill within the window, and iterations of a worker that are not so late that the
index it watches comes round again).

| Module | Theorems | Argument |
|---|---|---|
| `CasStoreProofs` | `Invariance`, `UiVersionGrows`, `CasImplementsAtomic`, `CallsAreLockFree` | The invariant says of each attempt that its pointer is not newer than the published one and, where equal, denotes the published list; that its draft is its closure applied to what it loaded; and that stamps not yet published are above the published one. A winning swap is then the atomic step; a call that changes nothing takes effect at its load. Once nothing is published any more, an attempt that is stale loses its swap, loads what is published and wins with it: so a call returns or others publish for ever (`LockFree`). |
| `PlayerPatchProofs` | `Invariance`, `EtagIsStrong`, `FieldsSurvive`, `RequestsAreLockFree` | A revision is in the hands of one request and neither the session nor an If-Match has it before that request is accepted (`RevisionsFresh`); a pointer that compares equal is the session loaded. Without the first, a client could hold the ETag of a session it has not seen. A request is answered once nobody else publishes (`LockFree`), by the same stages as a call of `CasStore`. |
| `SessionStoreProofs` | `Invariance`, `SlotsAreUnique`, `Capacity`, `ReservationsReturn`, `ClaimsAreApart`, `EventTimesGoForward`, `ShapeStays` | Slots stay distinct because the count is compared with `MaxSessions` in the step that picks: with distinct slots, fewer sessions than slots means that one is free. So `UniqueSlots` is needed to preserve itself. What is said of a session before and after a step needs to know which one it is after: registrations are apart (`ClaimsApart`), so that only a save, a report and a write change a filled session (`WhatBecomes`). A save then changes no shape because a clone that is not older than its session has the same one (`ClonesAgree`), and that survives a write because nothing with a revision as new as the write's has any (`WriteIsNewest`). |
| `FaultProofs` (`FaultCadence`) | `Invariance`, `OneShotOnce`, `WindowsExact`, `WindowsApart` | `OpenWindow` and `NextWindow` tie the two schedules to the latest window's first fault; what the engine keeps between requests is enough to find the window's end and its successor. |
| `FaultProofs` (`TransportFault`) | `EndsCleanly`, `CancelledLoopsEnd` | A loop that sweeps has left the map for good, and a handler starts its loop with its last step (`StartsLast`): so the rule that is swept away last is either the loop's own or that of a loop that will sweep in its turn. A loop that is cancelled only goes further (`Further`), one stage at a time, and nothing it meets there can hold it up. |
| `FaultStateProofs` | `Invariance`, `FiresOnce`, `DecisionsExclusive`, `NobodyIsStuck` | After the fault every copy of the rule's state knows of it (`CopiesSpent`), a swap that can still win does not take the map away (`SwapsKeepMap`), and whoever takes the mutex finds a map (`FaultPublished`). So no second request can decide on a fresh state. The mutex is always in the hands of somebody who is between taking it and giving it back (`LockHeld`), and no step there waits for anything: a metrics POST always has an event time not older than the session's, whose own is one (`TimesPosted`). |
| `EventRingProofs` | `IInvHolds`, `NoSilentHole`, `NotToldAndDelivered`, `IdsGoForward` | A channel holds consecutive ids that end with the one offered last (`ChannelEndsWithNewest`), and what is in neither the replay nor the channel was lost to overflow (`ReplayMeetsLive`): so the first live frame after the replay is either its successor or an overlap. `SubscribedInTime` carries this from the subscription to the copy of the ring; without it, a reconnection with nothing to replay would be free to begin anywhere. |
| `IngestRingProofs` | `Invariance`, `TypeCorrect`, `AlwaysReadable`, `NeverSendsOnClosed`, `NoGapAtTheSeam` | A row under way is younger than an INSERT takes, so the evictor cannot have reached it when it is stored (`RowInv`); between the answer of ClickHouse and the scan of the ring a backfill is younger than it may take, so that what the query missed is still in the ring (`ScanInv`), and what the scan misses came after the subscription and is in the channel. `BucketInv` and `SubsInv` say which bucket that is: a follower whose bucket has left the map is the exception (`deaf`). |
| `ContentProofs` (`UploadJobs`) | `JobsTyped`, `DeletedForGood`, `NothingIsLost`, `EncodedAtMostOnce`, `InputsAreWhole` | Nothing is queued, re-encoded or uploaded to before its row is there (`Unqueued`), and `SetStatus` touches no row that is missing or deleted. A job is in one of eight places - its upload, a request, the queue, the requests that wait for room in it, the list of the boot, the one job the boot has reset, the worker, encoded - and there once (`OnePlace`, `QueuedOnce`), and its row fits the place (`Fits`): the boot, which collects jobs by their rows, finds none that is somewhere else or has been encoded. A crash in the middle of an upload breaks it for that job alone (`revived`). An encoder reads a whole upload because the file holds the chunks that were sent and no others of that upload (`FileHoldsSent`), its source is created of all of them (`SourceIsWhole`), and the worker reads a file through a source (`EncoderReadsWhole`); a job's source is set before the worker can have the job (`RowFirst`). |
| `ContentProofs` (`LiveWorkers`) | `WorkersInvariance`, `NoneLeftRunning`, `ReaperCanStop`, `MpdIsFresh`, `PlayersKeepPlaying` | A running worker is known, or there was a race (`RunningIsKnown`), and is not running while the reaper clears what was known of it; who uses it has it listed before it serves (`UsersAreListed`); the stamp hides at most the worker's stall from the cache (`StampedLate`). A player that stays is recorded; from then on its entry is never older than a tick (`JustUsed`), so that the reaper rests and only an operator can take its worker away. |
| `ContentProofs` (`LiveLoop`) | `LoopInvariance`, `CountIsRight`, `NumberingInvariance`, `NumbersStay`, `WindowSlides`, `EvenClipsSlide`, `EdgeIsLive`, `WindowIsSpanned` | The last index and the count of a worker are those of the time of its last iteration (`Counting`); an iteration at most `MaxDelay` later sees the index fall exactly if a loop has ended, since `unit + MaxDelay` is at most a loop. From the count follow the numbers in each file (`Numbered`), by its epoch. Its first and last segment are functions of the time it was written: the first never falls (`LoForward`), nor does the last where the window suits the clip (`HiForward`), and for evenly cut clips they lie less than a segment from the two ends of the window (`ReachesTheBeginning`, `ReachesTheEdge`, `ListsTheEnded`). That this time is the last one due is `UpToDate`. |

Each invariant was tried with TLC before it was proved and is checked again by the wider configurations:
`ShapeInvariant`, `NumberingInvariant`, `WorkersInvariant`, `PortInvariant`, `Unqueued`, `OnceEach` and `WholeInvariant`
stand there beside the properties that follow from them, or in their place. None of the properties is inductive
by itself: that a job is encoded once, say, is lost in one step from a state in which a job is in the queue twice.

`WindowSlides` is the refinement: every step of the worker is a step of `LiveWindow` or changes nothing it sees,
for every clip that satisfies `WindowFits`. That is a property of the clip, which never changes: the window is no
longer than the clip and no shorter than the mean segment, and while the first segment of the clip is on air it
has no room for the second, which `availableIdx` would allow (range_hls.go 162-165). `EvenClipsSlide` says that
evenly cut clips have the last by themselves. Without `WindowFits` the last segment may go back (see above), but the
rest of `LiveWindow` holds: `NumbersStay` proves it as `NumbersKept`, for every clip and window.

Five theorems are about progress. The fairness of the runs is weak fairness (WF_), which is defined by ENABLED, and
the prover does not reason about that. Four of them, `CallsAreLockFree`, `RequestsAreLockFree`, `CancelledLoopsEnd` and
`PlayersKeepPlaying`, therefore spell it out with the guard of the fair action (`RunsOn`, `AsksOn`, `ReapsOn`,
`LoadsOn`: whenever the guard holds for ever, the step is taken again and again). That the guard is ENABLED of the
step is an invariant TLC checks (`CanRunIsEnabled`, `CanStepIsEnabled`, `CanHandleIsEnabled`, `StepsAreEnabled`, in
the configurations above). Each goes through a fixed number of stages, which PTL chains. `PlayersKeepPlaying`
asks for what the run has: an idle timeout longer than a tick, and stops that come to an end. The fifth,
`NobodyIsStuck`, is an invariant.

Only model-checked:

- `EveryCallReturns` and `EveryRequestAnswered`: a call may lose as often as others win, so that one counts what the
  others have left, by induction. The lock-freedom theorems prove what is left when nobody wins any more.
- `NewestArrives`, `RowsSettle` and `QueuedRuns` count what stands before a frame, a row or a job in its queue, and
  `IdleStops` the ticks until the timeout.
- `NeverBlocks` speaks of ENABLED itself: with the guards written out it would no longer say anything of the
  steps (a fan-out that waits for room keeps them).

## 5. Not modelled

- The shaping pattern loop, the apply-state cache against `tc`, and the restoration at boot, which finds no
  session (main.go 5224 says so).
- Groups, play overrides, the event source's grammar and the v1 hubs.
- Request matching, translation, parsing of playlists and MPDs, formatting of what is written: pure code,
  better tested by examples. The DASH timeline (`mpd.go`) and the master rewrite likewise.
- The single-step upload, the resumption of an upload after a reload, the encoder's output parser.
- The forwarder's change and delta caches, its SQL, the classifier and the LLM tools.
- The rendezvous worker, the harness CLI; players, dashboards, scripts, deployment and generated code.
- Kernel calls that fail, HTTP parsing, logging and payloads; the revision strings (`newRevision` is not
  monotonic when the wall clock is set back); time zones other than UTC.

## 6. What is next

1. `PlayScope`: the event source's grammar per player and the play-scoped PATCH it restores.
2. `ShapeLoop`: the pattern loop beside the transport fault loop, and the apply-state cache.
3. `Groups`: link, unlink, broadcast, removal by the reaper.
4. `SessionStore`: v1 PATCH with `base_revision` and play rotation.
5. The sweep pool's claims of the harness, and the change caches of the forwarder.
