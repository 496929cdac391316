----------------------------- MODULE FaultState -----------------------------
(***************************************************************************)
(* One fault rule of one session and the proxied requests that are served  *)
(* at once (go-proxy: handleProxy's fault decision, App.sessionsSnap).     *)
(* Each request works on a clone of the session.  For its decision it      *)
(* takes sessionStateMu, refreshes the rule's state from the published     *)
(* session, evaluates the rule and saves its clone before it unlocks.      *)
(*                                                                         *)
(* The rule's state is a Go map, _faultrule_state.  Cloning copies it; the *)
(* refresh and the save only copy its address, so the map the evaluator    *)
(* writes in place may be the published one.  A map is its place in        *)
(* "heap", 0 stands for none, and places are not used twice.               *)
(*                                                                         *)
(* The rule counts in requests: no clock.  A writer loads and clones, then *)
(* compares and swaps, as in CasStore.                                     *)
(***************************************************************************)
EXTENDS Cadence, Sequences, FiniteSets

CONSTANTS
    Requests,       \* goroutines of a proxied request
    Posts,          \* goroutines of a metrics POST
    Patches,        \* goroutines of a PATCH that arms the rule again; one of
                    \* Posts as well is either
    None,
    Rule,           \* the rule
    IsStatus,       \* its type is an HTTP status, not a socket fault
    EventTimes,     \* player_metrics_event_time, 0 for none
    Starts          \* what the rule has done before: "untouched", "used up"

ASSUME FaultAssumption ==
    /\ Rule \in Rules
    /\ Rule.mode = "requests"
    /\ IsStatus \in BOOLEAN
    /\ EventTimes \subseteq Nat
    /\ EventTimes # {}
    /\ Requests \cap (Posts \cup Patches) = {}
    /\ None \notin Requests \cup Patches

Writers == Posts \cup Patches
Goroutines == Requests \cup Writers

\* A session, published or cloned: "ver" stands for the pointer of the slice
\* it is in or comes from, "arm" for its _v2_fault_rules, by the PATCH that
\* set them (None: those it started with).
Arms == Patches \cup {None}
Sessions == [ver : Nat, arm : Arms, map : Nat, et : Nat, tally : Nat]

VARIABLES
    snap,       \* the published session
    heap,       \* the maps
    lock,       \* sessionStateMu
    pc,         \* where each goroutine is
    draft,      \* a request's clone of the session
    next,       \* what a goroutine's swap would publish
    verdict,    \* ghost: "none", "passed" or "faulted", of a matching request
    fired,      \* ghost: faults decided, by arming
    dropped     \* ghost: a locked save has been dropped as stale

vars == <<snap, heap, lock, pc, draft, next, verdict, fired, dropped>>

RequestPCs == {"arrive", "arriving", "look", "lock", "decide", "save", "saving",
               "count", "final", "finishing", "done"}
WriterPCs == {"load", "swap", "done"}
Locked == {"decide", "save", "saving"}

-----------------------------------------------------------------------------
\* cloneSession: the map is copied, to the place the next one gets.
Place == Len(heap) + 1
Cloned(s) == [s EXCEPT !.map = IF @ = 0 THEN 0 ELSE Place]
HeapWithClone(s) == IF s.map = 0 THEN heap ELSE Append(heap, heap[s.map])

Latest(a, b) == IF a >= b THEN a ELSE b

\* isStalePlayerMetricsUpdate
Stale(s, d) == 0 < d.et /\ d.et < s.et

\* saveSessionByIDReturning: the draft's keys over the clone of s; the map is
\* the draft's own.  A draft without an event time gets the present one, t.
Merged(s, d, t) ==
    [Cloned(s) EXCEPT !.arm = d.arm, !.tally = d.tally,
                      !.map = IF d.map = 0 THEN @ ELSE d.map,
                      !.et = IF d.et = 0 THEN Latest(@, t) ELSE d.et]

Initial == [ver |-> 0, arm |-> None, map |-> 0, et |-> 0, tally |-> 0]

\* A rule of one fault, frequency 0.
Single == Rule.frequency = 0 /\ Rule.consecutive = 1

\* The session as it is before these requests: no request has matched the rule
\* yet, or earlier ones have used up a rule of one fault.
Untouched ==
    /\ "untouched" \in Starts
    /\ snap = Initial
    /\ heap = <<>>
    /\ fired = [a \in Arms |-> 0]
UsedUp ==
    /\ "used up" \in Starts
    /\ Single
    /\ snap = [Initial EXCEPT !.map = 1]
    /\ heap = <<Retired(2)>>
    /\ fired = [a \in Arms |-> IF a = None THEN 1 ELSE 0]

Init ==
    /\ Untouched \/ UsedUp
    /\ lock = None
    /\ pc = [g \in Goroutines |-> IF g \in Requests THEN "arrive" ELSE "load"]
    /\ draft = [r \in Requests |-> Initial]
    /\ next = [g \in Goroutines |-> Initial]
    /\ verdict = [r \in Requests |-> "none"]
    /\ dropped = FALSE

-----------------------------------------------------------------------------
(* mutateSessions *)

Goto(g, label) == pc' = [pc EXCEPT ![g] = label]

\* The attempt publishes s, whose version is that of the slice loaded.
Attempt(g, s) == next' = [next EXCEPT ![g] = s]

Swaps(g) ==
    /\ next[g].ver = snap.ver
    /\ snap' = [next[g] EXCEPT !.ver = @ + 1]

SwapLoses(g, label, again) ==
    /\ pc[g] = label
    /\ next[g].ver # snap.ver
    /\ Goto(g, again)
    /\ UNCHANGED <<snap, heap, lock, draft, next, verdict, fired, dropped>>

-----------------------------------------------------------------------------
(* handleProxy *)

\* removeInactiveSessions publishes a clone of the whole list, whether or not
\* it removes anything.
Arrives(r) ==
    /\ pc[r] = "arrive"
    /\ Attempt(r, Cloned(snap))
    /\ heap' = HeapWithClone(snap)
    /\ Goto(r, "arriving")
    /\ UNCHANGED <<snap, lock, draft, verdict, fired, dropped>>

Arrived(r) ==
    /\ pc[r] = "arriving"
    /\ Swaps(r)
    /\ Goto(r, "look")
    /\ UNCHANGED <<heap, lock, draft, next, verdict, fired, dropped>>

\* getSessionList
Looks(r) ==
    /\ pc[r] = "look"
    /\ draft' = [draft EXCEPT ![r] = Cloned(snap)]
    /\ heap' = HeapWithClone(snap)
    /\ Goto(r, "lock")
    /\ UNCHANGED <<snap, lock, next, verdict, fired, dropped>>

\* Mutant: the decision is made on the clone taken on arrival.
Locks_NoRefresh(r) ==
    /\ pc[r] = "lock"
    /\ lock = None
    /\ lock' = r
    /\ Goto(r, "decide")
    /\ UNCHANGED <<snap, heap, draft, next, verdict, fired, dropped>>

\* sessionStateMu.Lock and refreshFailureStateFromLatest: the address of the
\* published map; if there is none the clone keeps its own.
Locks(r) ==
    /\ pc[r] = "lock"
    /\ lock = None
    /\ lock' = r
    /\ draft' = [draft EXCEPT ![r].map = IF snap.map = 0 THEN @ ELSE snap.map]
    /\ Goto(r, "decide")
    /\ UNCHANGED <<snap, heap, next, verdict, fired, dropped>>

StateOf(s) == IF s.map = 0 THEN Fresh ELSE heap[s.map]

\* evaluateFaultRules, no rule matches.
Unmatched(r) ==
    /\ pc[r] = "decide"
    /\ Goto(r, "save")
    /\ UNCHANGED <<snap, heap, lock, draft, next, verdict, fired, dropped>>

\* The rule has had its only window: nothing is written.
Spent(r) ==
    /\ pc[r] = "decide"
    /\ StateOf(draft[r]).done
    /\ verdict' = [verdict EXCEPT ![r] = "passed"]
    /\ Goto(r, "save")
    /\ UNCHANGED <<snap, heap, lock, draft, next, fired, dropped>>

\* The rule is evaluated and setRuleState writes the map in place, or a new
\* one if the clone has none.
Decides(r) ==
    LET st == StateOf(draft[r])
        fails == Fails(Rule, st, 0, 0)
        after == After(Rule, st, 0, 0)
    IN  /\ pc[r] = "decide"
        /\ ~st.done
        /\ IF draft[r].map = 0
           THEN /\ heap' = Append(heap, after)
                /\ draft' = [draft EXCEPT ![r].map = Place]
           ELSE /\ heap' = [heap EXCEPT ![draft[r].map] = after]
                /\ UNCHANGED draft
        /\ verdict' = [verdict EXCEPT ![r] = IF fails THEN "faulted" ELSE "passed"]
        /\ fired' = [fired EXCEPT ![draft[r].arm] = IF fails THEN @ + 1 ELSE @]
        /\ Goto(r, "save")
        /\ UNCHANGED <<snap, lock, next, dropped>>

\* saveSessionByID, under the lock or, at the end of the request, without.
SaveLoads(r) ==
    /\ pc[r] \in {"save", "final"}
    /\ ~Stale(snap, draft[r])
    /\ \E t \in EventTimes : Attempt(r, Merged(snap, draft[r], t))
    /\ heap' = IF draft[r].map = 0 THEN HeapWithClone(snap) ELSE heap
    /\ Goto(r, IF pc[r] = "save" THEN "saving" ELSE "finishing")
    /\ UNCHANGED <<snap, lock, draft, verdict, fired, dropped>>

\* What follows the unlock: a request that is not faulted is proxied and
\* saved; a socket fault is counted and saved; a status is saved, then
\* counted.
AfterUnlock(r) ==
    IF verdict[r] = "faulted" /\ ~IsStatus THEN "count" ELSE "final"

\* Mutant: the early return of a stale save leaves the mutex locked.
SaveDropped_KeepsLock(r) ==
    /\ pc[r] = "save"
    /\ Stale(snap, draft[r])
    /\ dropped' = TRUE
    /\ Goto(r, AfterUnlock(r))
    /\ UNCHANGED <<snap, heap, lock, draft, next, verdict, fired>>

\* The merge is dropped; the request goes on.
SaveDropped(r) ==
    /\ pc[r] = "save"
    /\ Stale(snap, draft[r])
    /\ dropped' = TRUE
    /\ lock' = None
    /\ Goto(r, AfterUnlock(r))
    /\ UNCHANGED <<snap, heap, draft, next, verdict, fired>>

Saved(r) ==
    /\ pc[r] = "saving"
    /\ Swaps(r)
    /\ lock' = None
    /\ Goto(r, AfterUnlock(r))
    /\ UNCHANGED <<heap, draft, next, verdict, fired, dropped>>

\* bumpFaultCounter, on the request's clone.
Counts(r) ==
    /\ pc[r] = "count"
    /\ lock = None
    /\ draft' = [draft EXCEPT ![r].tally = @ + 1]
    /\ Goto(r, IF IsStatus THEN "done" ELSE "final")
    /\ UNCHANGED <<snap, heap, lock, next, verdict, fired, dropped>>

AfterFinal(r) == IF verdict[r] = "faulted" /\ IsStatus THEN "count" ELSE "done"

FinalDropped(r) ==
    /\ pc[r] = "final"
    /\ Stale(snap, draft[r])
    /\ Goto(r, AfterFinal(r))
    /\ UNCHANGED <<snap, heap, lock, draft, next, verdict, fired, dropped>>

Finishes(r) ==
    /\ pc[r] = "finishing"
    /\ Swaps(r)
    /\ Goto(r, AfterFinal(r))
    /\ UNCHANGED <<heap, lock, draft, next, verdict, fired, dropped>>

-----------------------------------------------------------------------------
(* the control API *)

\* handlePostSessionMetrics: an event time, never an older one.
PostLoads(w) ==
    /\ pc[w] = "load"
    /\ \E t \in EventTimes :
        /\ t >= snap.et
        /\ Attempt(w, [Cloned(snap) EXCEPT !.et = t])
    /\ heap' = HeapWithClone(snap)
    /\ Goto(w, "swap")
    /\ UNCHANGED <<snap, lock, draft, verdict, fired, dropped>>

\* translateFaultRules: the rule is set and the rule state is deleted.
PatchLoads(w) ==
    /\ pc[w] = "load"
    /\ Attempt(w, [snap EXCEPT !.arm = w, !.map = 0])
    /\ Goto(w, "swap")
    /\ UNCHANGED <<snap, heap, lock, draft, verdict, fired, dropped>>

WriterSwaps(w) ==
    /\ pc[w] = "swap"
    /\ Swaps(w)
    /\ Goto(w, "done")
    /\ UNCHANGED <<heap, lock, draft, next, verdict, fired, dropped>>

-----------------------------------------------------------------------------
Handle(r) ==
    \/ Arrives(r)
    \/ Arrived(r)
    \/ SwapLoses(r, "arriving", "arrive")
    \/ Looks(r)
    \/ Locks(r)
    \/ Unmatched(r)
    \/ Spent(r)
    \/ Decides(r)
    \/ SaveLoads(r)
    \/ SaveDropped(r)
    \/ Saved(r)
    \/ SwapLoses(r, "saving", "save")
    \/ Counts(r)
    \/ FinalDropped(r)
    \/ Finishes(r)
    \/ SwapLoses(r, "finishing", "final")

Write(w) ==
    \/ w \in Posts /\ PostLoads(w)
    \/ w \in Patches /\ PatchLoads(w)
    \/ WriterSwaps(w)
    \/ SwapLoses(w, "swap", "load")

Next == (\E r \in Requests : Handle(r)) \/ (\E w \in Writers : Write(w))

Spec == Init /\ [][Next]_vars

-----------------------------------------------------------------------------
TypeOK ==
    /\ snap \in Sessions
    /\ heap \in Seq(RuleStates)
    /\ lock \in Requests \cup {None}
    /\ pc \in [Goroutines -> RequestPCs \cup WriterPCs]
    /\ \A r \in Requests : pc[r] \in RequestPCs
    /\ \A w \in Writers : pc[w] \in WriterPCs
    /\ draft \in [Requests -> Sessions]
    /\ next \in [Goroutines -> Sessions]
    /\ verdict \in [Requests -> {"none", "passed", "faulted"}]
    /\ fired \in [Arms -> Nat]
    /\ dropped \in BOOLEAN

\* sessionStateMu is held from the refresh to the end of the locked save.
LockHeld == \A r \in Requests : lock = r <=> pc[r] \in Locked

\* Every map a session names is in the heap.
MapsExist ==
    /\ snap.map <= Len(heap)
    /\ \A r \in Requests : draft[r].map <= Len(heap)
    /\ \A g \in Goroutines : next[g].map <= Len(heap)

\* A swap that can still win does not take the map away, unless it arms the
\* rule again; the swap of a locked save publishes the map just evaluated.
Pending(g) == pc[g] \in {"arriving", "saving", "finishing", "swap"}

SwapsKeepMap ==
    /\ \A g \in Goroutines : Pending(g) => next[g].ver <= snap.ver
    /\ \A g \in Goroutines \ Patches :
        (Pending(g) /\ next[g].ver = snap.ver /\ next[g].map = 0) => snap.map = 0
    /\ \A r \in Requests :
        (pc[r] = "saving" /\ draft[r].map # 0) => next[r].map = draft[r].map

\* What is said of a rule of one fault speaks of the time before it is armed
\* again and before a locked save has been dropped.
Undisturbed == ~dropped /\ \A w \in Patches : pc[w] # "done"

Once == [count |-> 1, at |-> 1, recover |-> 2, done |-> FALSE]

\* Every copy of its state, published or not, knows of the fault.
CopiesSpent ==
    Single => \A i \in 1..Len(heap) : heap[i] \in {Once, Retired(2)}

\* Whoever takes the mutex after the fault finds a map.
FaultPublished ==
    (Single /\ Undisturbed) =>
        /\ snap.arm = None
        /\ \A r \in Requests : draft[r].arm = None
        /\ \A g \in Goroutines \ Patches : next[g].arm = None
        /\ fired[None] = 0 => snap.map = 0 /\ heap = <<>>
        /\ (fired[None] > 0 /\ snap.map = 0) =>
                \E r \in Requests : pc[r] \in {"save", "saving"} /\ draft[r].map # 0
        /\ \A r \in Requests :
                (pc[r] = "decide" /\ draft[r].map = 0) => fired[None] = 0

\* "Can't double-fire concurrent requests": a rule of one fault fires once,
\* however requests overlap and whoever else publishes the session.
SingleFires == (Single /\ Undisturbed) => fired[None] <= 1

IInv ==
    /\ TypeOK
    /\ LockHeld
    /\ MapsExist
    /\ SwapsKeepMap
    /\ CopiesSpent
    /\ FaultPublished
    /\ SingleFires

\* The event times there are: the posted ones, and none.
TimesPosted ==
    /\ snap.et \in EventTimes \cup {0}
    /\ \A r \in Requests : draft[r].et \in EventTimes \cup {0}
    /\ \A g \in Goroutines : next[g].et \in EventTimes \cup {0}

\* When the next step of a goroutine can be taken, ENABLED spelled out.
CanStep(g) ==
    /\ pc[g] # "done"
    /\ pc[g] \in {"lock", "count"} => lock = None
    /\ pc[g] = "load" => g \in Patches \/ \E t \in EventTimes : t >= snap.et

CanStepIsEnabled ==
    /\ \A r \in Requests : CanStep(r) <=> ENABLED Handle(r)
    /\ \A w \in Writers : CanStep(w) <=> ENABLED Write(w)

\* Every request is served and every write of the control API returns: the
\* mutex is given back whichever way a locked save ends, and whoever waits
\* for it waits for a request that can go on.  A goroutine makes finitely
\* many steps, since a swap is lost to one that was won.
NobodyStuck ==
    \A g \in Goroutines :
        \/ pc[g] = "done"
        \/ CanStep(g)
        \/ lock # None /\ CanStep(lock)

-----------------------------------------------------------------------------
\* What the comments say that the code does not do.

\* A one-shot "fires exactly `consec` times".
OneShotFires ==
    (Rule.frequency = 0 /\ ~Continuous(Rule)) =>
        \A a \in Arms : fired[a] <= Consecutive(Rule)

\* "A re-armed rule opens a FRESH window": the first matching request served
\* under a rule is faulted.
RearmFresh ==
    [][\A r \in Requests :
        verdict[r] = "none" /\ verdict'[r] = "passed" => fired[draft[r].arm] > 0]_vars

\* "The snapshot a caller borrows is frozen for its lifetime".
PublishedFrozen ==
    [][snap'.ver = snap.ver /\ snap.map # 0 => heap'[snap.map] = heap[snap.map]]_vars

\* "Per-device fault hit counters": when all is over every fault is counted.
FaultsCounted ==
    (\A r \in Requests : pc[r] = "done") =>
        snap.tally = Cardinality({r \in Requests : verdict[r] = "faulted"})
=============================================================================
