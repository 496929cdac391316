---------------------------- MODULE LiveWorkers -----------------------------
(***************************************************************************)
(* The life of go-live's worker for one content: the request handlers that *)
(* start it on demand (ensureHLSWorker), the stream tracker they report    *)
(* to, the reaper that stops it when no request has come for a while, and  *)
(* the cache of live MPDs that worker and handlers both fill.  Contents    *)
(* share no more than mutexes.                                             *)
(*                                                                         *)
(* A worker is known three times over: to the Manager, by its process, to  *)
(* hlsWorkers, and to the tracker, by the id in the entry of its stream;   *)
(* each has a mutex of its own and the reaper clears them one by one.      *)
(*                                                                         *)
(* The "hls-..." entries of the tracker, of which the reaper takes the     *)
(* latest, are one.  The "dash-..." entries decide nothing and are left    *)
(* out, and so is the last iteration a worker finishes after its cancel.   *)
(***************************************************************************)
EXTENDS Naturals, FiniteSets

CONSTANTS
  HlsPlayers, DashPlayers,
  IdleTimeout,   \* in ticks (60 s)
  MaxAge,        \* dashCacheMaxAge
  MaxStall,      \* the longest from an MPD's generation to its storing
  MaxLeaked,     \* bound: leaked workers that are told apart
  MaxStops       \* bound: stops by request

ASSUME WorkersAssumption ==
  /\ {MaxAge, MaxStall, MaxLeaked, MaxStops} \subseteq Nat
  /\ IdleTimeout \in Nat \ {0}
  /\ HlsPlayers \cap DashPlayers = {}

VARIABLES
  master,    \* the content has an HLS master playlist; constant
  running,   \* the Manager has the worker's process
  known,     \* hlsWorkers has the worker
  phase,     \* the goroutine of the process
  fed,       \* its mpdData is set
  stops,     \* how often a request has stopped it
  leaked,    \* workers the Manager has forgotten without a cancel
  entry,     \* the tracker's entry
  rpc,       \* the reaper
  call,        \* each player's request
  cached,    \* the cached MPD: age of its content, age of its time stamp
  making,    \* age of an MPD the worker has generated and not yet stored
  served,    \* age of the MPD served last
  raced,     \* ghost: a worker was started while the reaper was clearing
  users      \* ghost: HLS players whose request is one of the running worker

raceGhosts == <<raced, users>>
processVars == <<running, known, phase, fed, leaked, raceGhosts>>
mpdVars == <<cached, making, served>>
workersVars == <<master, processVars, stops, entry, rpc, call, mpdVars>>

Players == HlsPlayers \cup DashPlayers
Absent == [present |-> FALSE]
Never == IdleTimeout + 1            \* the age of a LastRequest still zero
Old == MaxAge + MaxStall + 1        \* the age at which MPDs stop aging
NotMaking == MaxStall + 1

Entries == [present : {TRUE}, process : BOOLEAN, idle : 0 .. Never]
Cache == [present : {TRUE}, made : 0 .. Old, stamp : 0 .. Old]

WorkersTypeOK ==
  /\ {master, running, known, fed, raced} \subseteq BOOLEAN
  /\ phase \in {"none", "loading", "looping", "failed"}
  /\ leaked \in 0 .. MaxLeaked
  /\ stops \in 0 .. MaxStops
  /\ entry \in Entries \cup {Absent}
  /\ rpc \in {"wait", "stop", "untrack", "forget"}
  /\ call \in [Players -> {"away", "ask", "start", "record", "serve"}]
  /\ cached \in Cache \cup {Absent}
  /\ making \in 0 .. NotMaking
  /\ served \in 0 .. Old
  /\ users \subseteq HlsPlayers

WorkersInit ==
  /\ master \in BOOLEAN
  /\ running = FALSE /\ known = FALSE /\ phase = "none" /\ fed = FALSE
  /\ leaked = 0 /\ stops = 0
  /\ entry = Absent
  /\ rpc = "wait"
  /\ call = [p \in Players |-> "away"]
  /\ cached = Absent /\ making = NotMaking /\ served = 0
  /\ raced = FALSE /\ users = {}

Min2(a, b) == IF a < b THEN a ELSE b

-----------------------------------------------------------------------------
(* Players come, ask for a playlist again and again, and leave.            *)

Join(p) ==
  /\ call[p] = "away"
  /\ p \in HlsPlayers => master
  /\ call' = [call EXCEPT ![p] = "ask"]
  /\ UNCHANGED <<master, stops, processVars, entry, rpc, mpdVars>>

Leave(p) ==
  /\ call[p] = "ask"
  /\ call' = [call EXCEPT ![p] = "away"]
  /\ UNCHANGED <<master, stops, processVars, entry, rpc, mpdVars>>

Alive == phase \in {"loading", "looping"}

NeedsWorker_Untracked == ~known \/ ~running \/ ~entry.present
NeedsWorker_Unknown == ~known
NeedsWorker == ~known \/ ~running

(* A worker's process takes the place of the Manager's, which is not       *)
(* cancelled.                                                              *)
Spawn ==
  /\ NeedsWorker
  /\ running' = TRUE
  /\ known' = TRUE
  /\ phase' = "loading"
  /\ leaked' = IF running /\ Alive THEN Min2(MaxLeaked, leaked + 1) ELSE leaked
  /\ raced' = (raced \/ rpc \in {"untrack", "forget"})

AlreadyRunning ==
  ~NeedsWorker /\ UNCHANGED <<running, known, phase, leaked, raced>>

Uses(P) == users' = IF NeedsWorker THEN P ELSE users \cup P

(* ensureHLSWorker, under hlsWorkerMu; the handler of a new worker then    *)
(* waits half a second.                                                    *)
EnsureForHls(p) ==
  /\ call[p] = "ask" /\ p \in HlsPlayers
  /\ Spawn \/ AlreadyRunning
  /\ Uses({p})
  /\ fed' = ~NeedsWorker
  /\ call' = [call EXCEPT ![p] = "start"]
  /\ UNCHANGED <<master, stops, entry, rpc, mpdVars>>

(* ensureDashWorker, for a content that has an HLS master only.            *)
EnsureForDash(p) ==
  /\ call[p] = "ask" /\ p \in DashPlayers
  /\ IF master THEN (Spawn \/ AlreadyRunning) /\ Uses({}) /\ fed' = TRUE
               ELSE UNCHANGED processVars
  /\ call' = [call EXCEPT ![p] = "serve"]
  /\ UNCHANGED <<master, stops, entry, rpc, mpdVars>>

Track_Existing(p) ==
  /\ call[p] = "start"
  /\ entry' = IF entry.present THEN [entry EXCEPT !.process = TRUE] ELSE entry
  /\ call' = [call EXCEPT ![p] = "record"]
  /\ UNCHANGED <<master, stops, processVars, rpc, mpdVars>>

(* ensureTracked.                                                          *)
Track(p) ==
  /\ call[p] = "start"
  /\ entry' = [present |-> TRUE, process |-> TRUE,
               idle |-> IF entry.present THEN entry.idle ELSE Never]
  /\ call' = [call EXCEPT ![p] = "record"]
  /\ UNCHANGED <<master, stops, processVars, rpc, mpdVars>>

(* trackRequest.                                                           *)
Record(p) ==
  /\ call[p] = "record"
  /\ entry' = [present |-> TRUE, idle |-> 0,
               process |-> entry.present /\ entry.process]
  /\ call' = [call EXCEPT ![p] = "serve"]
  /\ UNCHANGED <<master, stops, processVars, rpc, mpdVars>>

(* The playlist is read from disk.                                         *)
ServeHls(p) ==
  /\ call[p] = "serve" /\ p \in HlsPlayers
  /\ call' = [call EXCEPT ![p] = "ask"]
  /\ users' = users \ {p}
  /\ UNCHANGED <<master, stops, running, known, phase, fed, leaked, raced,
                 entry, rpc, mpdVars>>

Fresh_Any == cached.present
Fresh == cached.present /\ cached.stamp <= MaxAge

(* The cached MPD, or under the same mutex a new one.                      *)
ServeDash(p) ==
  /\ call[p] = "serve" /\ p \in DashPlayers
  /\ IF Fresh
     THEN served' = cached.made /\ UNCHANGED cached
     ELSE served' = 0 /\ cached' = [present |-> TRUE, made |-> 0, stamp |-> 0]
  /\ call' = [call EXCEPT ![p] = "ask"]
  /\ UNCHANGED <<master, stops, processVars, entry, rpc, making>>

-----------------------------------------------------------------------------
(* The worker's goroutine.  One that cannot load its content returns, and  *)
(* stays registered.                                                       *)

Load ==
  /\ phase = "loading"
  /\ phase' \in {"looping", "failed"}
  /\ UNCHANGED <<master, stops, running, known, fed, leaked, raceGhosts, entry,
                 rpc, call, mpdVars>>

Generate ==
  /\ (phase = "looping" /\ fed) \/ leaked > 0
  /\ making = NotMaking
  /\ making' = 0
  /\ UNCHANGED <<master, stops, processVars, entry, rpc, call, cached, served>>

(* The MPD is stored later in the iteration, with the time of storing.     *)
Store ==
  /\ making # NotMaking
  /\ cached' = [present |-> TRUE, made |-> making, stamp |-> 0]
  /\ making' = NotMaking
  /\ UNCHANGED <<master, stops, processVars, entry, rpc, call, served>>

-----------------------------------------------------------------------------
(* StartIdleReaper, and the request that stops a process.                  *)

Idle ==
  /\ entry.present /\ entry.process
  /\ entry.idle # Never /\ entry.idle >= IdleTimeout

ManagerStop ==
  /\ running' = FALSE
  /\ phase' = "none"
  /\ users' = {}
  /\ UNCHANGED <<known, fed, leaked, raced>>

ListIdle ==
  /\ rpc = "wait" /\ Idle
  /\ rpc' = "stop"
  /\ UNCHANGED <<master, stops, processVars, entry, call, mpdVars>>

StopIdle_OtherId ==
  /\ rpc = "stop"
  /\ rpc' = "untrack"
  /\ UNCHANGED <<master, stops, processVars, entry, call, mpdVars>>

StopIdle ==
  /\ rpc = "stop"
  /\ ManagerStop
  /\ rpc' = "untrack"
  /\ UNCHANGED <<master, stops, entry, call, mpdVars>>

Untrack ==
  /\ rpc = "untrack"
  /\ entry' = Absent
  /\ rpc' = "forget"
  /\ UNCHANGED <<master, stops, processVars, call, mpdVars>>

Forget ==
  /\ rpc = "forget"
  /\ known' = FALSE
  /\ rpc' = "wait"
  /\ UNCHANGED <<master, stops, running, phase, fed, leaked, raceGhosts, entry,
                 call, mpdVars>>

Stop ==
  /\ running
  /\ stops < MaxStops /\ stops' = stops + 1
  /\ ManagerStop
  /\ UNCHANGED <<master, entry, rpc, call, mpdVars>>

-----------------------------------------------------------------------------
(* Time passes between the requests of HLS players and between the rounds  *)
(* of the reaper, which take less than a tick, like the loading of a       *)
(* content, and a player that stays asks at least once a tick; an MPD is   *)
(* stored within MaxStall ticks.                                           *)
Tick ==
  /\ phase # "loading" /\ rpc = "wait"
  /\ \A p \in HlsPlayers :
       call[p] = "away" \/ (call[p] = "ask" /\ entry.present /\ entry.idle = 0)
  /\ making # NotMaking => making < MaxStall
  /\ making' = IF making = NotMaking THEN making ELSE making + 1
  /\ entry' = IF entry.present /\ entry.idle < IdleTimeout
              THEN [entry EXCEPT !.idle = @ + 1] ELSE entry
  /\ cached' = IF cached.present
               THEN [cached EXCEPT !.made = Min2(Old, @ + 1),
                                   !.stamp = Min2(Old, @ + 1)]
               ELSE cached
  /\ UNCHANGED <<master, stops, processVars, rpc, call, served>>

PlayerStep(p) ==
  \/ EnsureForHls(p) \/ EnsureForDash(p)
  \/ Track(p) \/ Record(p) \/ ServeHls(p) \/ ServeDash(p)

ReaperStep == ListIdle \/ StopIdle \/ Untrack \/ Forget

WorkersNext ==
  \/ \E p \in Players : Join(p) \/ Leave(p) \/ PlayerStep(p)
  \/ Load \/ Generate \/ Store
  \/ ReaperStep \/ Stop
  \/ Tick

WorkersSpec == WorkersInit /\ [][WorkersNext]_workersVars

(* Players ask on as long as they stay; the reaper and the workers have    *)
(* goroutines of their own, and time passes.                               *)
WorkersFairSpec ==
  /\ WorkersSpec
  /\ \A p \in Players : WF_workersVars(PlayerStep(p))
  /\ WF_workersVars(ReaperStep)
  /\ WF_workersVars(Load) /\ WF_workersVars(Generate) /\ WF_workersVars(Store)
  /\ WF_workersVars(Tick)

-----------------------------------------------------------------------------
(* Properties.                                                             *)

(* Every worker can be stopped: the Manager's is the only one, unless a    *)
(* request came while the reaper was between stopping and forgetting.      *)
OneWorker == leaked = 0 \/ raced

(* A running worker whose playlist is being served is listed for the       *)
(* reaper, so that it can stop some day.                                   *)
ServedIsTracked ==
  \A p \in users :
    call[p] = "serve" /\ ~raced
      => entry.present /\ entry.process /\ entry.idle # Never

(* No MPD is served that was made longer ago than the cache's limit and    *)
(* the worker's stall, whether a worker runs, died or never existed.       *)
ServedFresh == served <= MaxAge + MaxStall

(* Why: a worker that runs is one the handlers know, but for a race, and   *)
(* has been stopped while the reaper clears what was known of it; whoever  *)
(* has found it running has it listed before asking for the playlist.      *)
RunningIsKnown ==
  /\ running => known \/ raced
  /\ rpc \in {"untrack", "forget"} => ~running \/ raced
  /\ users # {} => running

UsersAreListed ==
  \A p \in users :
    /\ call[p] \in {"start", "record", "serve"}
    /\ call[p] \in {"record", "serve"} /\ ~raced
         => entry.present /\ entry.process
    /\ call[p] = "serve" /\ ~raced => entry.idle # Never

(* The stamp hides from the cache no more than the worker's stall.         *)
StampedLate == cached.present => cached.made <= cached.stamp + MaxStall

WorkersInvariant ==
  /\ WorkersTypeOK
  /\ OneWorker /\ RunningIsKnown /\ UsersAreListed
  /\ StampedLate /\ ServedFresh

AllAway == \A p \in Players : call[p] = "away"

(* Weak fairness of players, reaper and worker with ENABLED spelled out,   *)
(* which is the form the proofs use.                                       *)
ReaperCanStep == rpc # "wait" \/ Idle

StepsAreEnabled ==
  /\ \A p \in Players :
       call[p] # "away" <=> ENABLED <<PlayerStep(p)>>_workersVars
  /\ ReaperCanStep <=> ENABLED <<ReaperStep>>_workersVars
  /\ phase = "loading" <=> ENABLED <<Load>>_workersVars

AsksOn(p) == []<>(call[p] = "away") \/ []<><<PlayerStep(p)>>_workersVars
ReapsOn == []<>~ReaperCanStep \/ []<><<ReaperStep>>_workersVars
LoadsOn == []<>(phase # "loading") \/ []<><<Load>>_workersVars

(* A player that goes on asking has a worker in the end, whatever the      *)
(* reaper or an operator stops, unless the content cannot be loaded.       *)
KeepsPlaying ==
  \A p \in HlsPlayers :
    call[p] # "away" ~> \/ phase \in {"looping", "failed"}
                        \/ leaked > 0
                        \/ call[p] = "away"

(* The worker that HLS players have used stops when they are all gone.     *)
IdleStops ==
  (AllAway /\ entry.present /\ entry.process)
    ~> (~running \/ ~AllAway \/ raced)

-----------------------------------------------------------------------------
(* What the documents or comments say and the steps do not keep.           *)

(* "Workers stop after an idle timeout when no requests are active":       *)
(* README.md:528.  One that DASH players started is never listed.          *)
WorkersStop == AllAway ~> (~running \/ ~AllAway)

NoneLeaked == leaked = 0

(* "Refresh the manifest and the worker respawns": TROUBLESHOOTING.md:66.  *)
(* Not one whose content could not be loaded at first.                     *)
DeadReplaced ==
  \A p \in HlsPlayers :
    (phase = "failed" /\ call[p] # "away")
      ~> (phase # "failed" \/ call[p] = "away")

=============================================================================
