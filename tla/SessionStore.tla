---------------------------- MODULE SessionStore ----------------------------
(***************************************************************************)
(* The in-memory session list of go-proxy and everything that writes it:   *)
(* the bootstrap of a new player (reserve, build, fill or give back), the  *)
(* proxied request that works on a clone of its session and saves it at    *)
(* the end, the player's metrics POST, the operator's PATCH, DELETE, clear *)
(* and synthetic creation, and the reaper that every request runs first.   *)
(* Each call of mutateSessions is one step here: CasStore shows that it    *)
(* takes effect in one step.                                               *)
(*                                                                         *)
(* A session keeps what the writers compete for.  The list is a set: where *)
(* the code takes the first match, any match may be taken.  "rules" stands *)
(* for the settings a save merges as it finds them (fault rules, labels,   *)
(* content) and "shape" for those that copySessionControlState protects;   *)
(* both are named by the revision that set them, and 0 means no such key.  *)
(* "claim" and "filled" are ghosts: the registration the session comes     *)
(* from, and whether its bootstrap has filled it.                          *)
(***************************************************************************)
EXTENDS Naturals, FiniteSets

CONSTANTS
    Players,
    External,       \* the players behind one WAN address
    Connects,       \* goroutines of a first request to the base port
    Requests,       \* goroutines of a request to a session's port
    Operators,      \* goroutines of control API writes
    MaxSessions,    \* App.maxSessions
    WanLimit,       \* externalWANSessionLimit
    Window,         \* inactiveWindow, in ticks
    EventTimes,     \* the event times players report, 0 for none
    MaxClock,       \* bound: the last tick
    MaxRevs,        \* bound: revisions drawn
    MaxClaims       \* bound: registrations

\* allocateSessionNumber looks at the last digit of a session id.
ASSUME StoreAssumption ==
    /\ External \subseteq Players
    /\ MaxSessions \in 1..9
    /\ WanLimit \in Nat
    /\ Window \in Nat \ {0}
    /\ EventTimes \subseteq Nat
    /\ MaxClock \in Nat
    /\ MaxRevs \in Nat
    /\ MaxClaims \in Nat

Slots == 1..MaxSessions

Sessions ==
    [id : Slots, player : Players, claim : Nat, filled : BOOLEAN,
     origin : BOOLEAN,      \* player_ip is known
     last : Nat,            \* last_request
     et : Nat,              \* player_metrics_event_time
     rules : Nat, shape : Nat,
     crev : Nat]            \* control_revision

VARIABLES
    sessions,   \* *sessionsSnap
    clock,
    revs,       \* revisions drawn so far: a revision is a time
    claims,     \* registrations so far
    connect,    \* the bootstraps
    request,    \* the proxied requests
    operator,   \* the control API writes
    heard       \* ghost: the latest arrival, by slot, of a request that saved

vars == <<sessions, clock, revs, claims, connect, request, operator, heard>>

ConnectRecords ==
    [pc : {"arrive", "look", "reserve", "reserved", "built", "done"},
     player : Players, slot : Slots, claim : Nat, at : Nat, rev : Nat,
     config : BOOLEAN]
RequestRecords ==
    [pc : {"arrive", "look", "locked", "final", "done"}, draft : Sessions]
OperatorRecords ==
    [pc : {"idle", "apply"}, player : Players, rev : Nat]

-----------------------------------------------------------------------------
At(id) == {s \in sessions : s.id = id}
Of(p) == {s \in sessions : s.player = p}
Latest(a, b) == IF a >= b THEN a ELSE b

\* allocateSessionNumber: the first number no session ends in, or 1.
Used == {s.id % 10 : s \in sessions}
Allocated ==
    IF Slots \subseteq Used THEN 1
    ELSE CHOOSE i \in Slots \ Used : \A j \in Slots \ Used : i <= j

\* removeInactiveSessions (without groups)
Active == {s \in sessions : clock < s.last + Window}

\* isStalePlayerMetricsUpdate
Stale(s, d) == 0 < d.et /\ d.et < s.et

\* A key the draft does not carry leaves the session's.
Overlay(old, new) == IF new = 0 THEN old ELSE new

\* Mutant: without copySessionControlState.
Merged_NoControlGuard(s, d) ==
    [s EXCEPT !.player = d.player, !.origin = s.origin \/ d.origin,
              !.last = d.last, !.rules = Overlay(s.rules, d.rules),
              !.shape = Overlay(s.shape, d.shape), !.crev = Overlay(s.crev, d.crev),
              !.et = IF d.et = 0 THEN Latest(s.et, clock) ELSE d.et]

\* saveSessionByIDReturning: the draft over the session, but the shaping
\* settings of a newer control_revision stay, and a draft without an event
\* time gets the present one, never an older.
Merged(s, d) ==
    LET newer == s.crev > d.crev
    IN  [s EXCEPT !.player = d.player, !.origin = s.origin \/ d.origin,
                  !.last = d.last, !.rules = Overlay(s.rules, d.rules),
                  !.shape = IF newer THEN s.shape ELSE Overlay(s.shape, d.shape),
                  !.crev = IF newer THEN s.crev ELSE d.crev,
                  !.et = IF d.et = 0 THEN Latest(s.et, clock) ELSE d.et]

\* Mutant: the save is not dropped when it is stale.
Saved_KeepStale(d) ==
    {IF s.id = d.id THEN Merged(s, d) ELSE s : s \in sessions}

Saved(d) ==
    {IF s.id = d.id /\ ~Stale(s, d) THEN Merged(s, d) ELSE s : s \in sessions}

\* The placeholder of a bootstrap, and the session it is filled with.
Placeholder(id, p, c) ==
    [id |-> id, player |-> p, claim |-> c, filled |-> FALSE, origin |-> FALSE,
     last |-> clock, et |-> 0, rules |-> 0, shape |-> 0, crev |-> 0]

Full(k) ==
    [id |-> k.slot, player |-> k.player, claim |-> k.claim, filled |-> TRUE,
     origin |-> TRUE, last |-> k.at, et |-> 0,
     rules |-> IF k.config THEN k.rev ELSE 0,
     shape |-> IF k.config THEN k.rev ELSE 0,
     crev |-> k.rev]

Init ==
    \E p \in Players, s \in Slots :
        /\ sessions = {}
        /\ clock = 0
        /\ revs = 0
        /\ claims = 0
        /\ connect = [c \in Connects |->
            [pc |-> "arrive", player |-> p, slot |-> s, claim |-> 0, at |-> 0,
             rev |-> 0, config |-> FALSE]]
        /\ request = [r \in Requests |->
            [pc |-> "arrive", draft |-> Placeholder(s, p, 0)]]
        /\ operator = [o \in Operators |-> [pc |-> "idle", player |-> p, rev |-> 0]]
        /\ heard = [i \in Slots |-> 0]

-----------------------------------------------------------------------------
(* handleProxy, base port *)

ConnectArrives(c) ==
    /\ connect[c].pc = "arrive"
    /\ sessions' = Active
    /\ \E p \in Players, config \in BOOLEAN :
        connect' = [connect EXCEPT ![c].pc = "look", ![c].player = p,
                                   ![c].config = config]
    /\ UNCHANGED <<clock, revs, claims, request, operator, heard>>

WanFull(p) ==
    /\ p \in External
    /\ Cardinality({s \in sessions : s.origin /\ s.player \in External}) >= WanLimit

\* The list is cloned: a known player is redirected to its port, malformed
\* arguments are a 400 and a WAN address at its limit a 429.
ConnectLooks(c) ==
    /\ connect[c].pc = "look"
    /\ connect' = [connect EXCEPT ![c].pc =
            IF Of(connect[c].player) # {} \/ WanFull(connect[c].player)
            THEN "done" ELSE "reserve"]
    /\ UNCHANGED <<sessions, clock, revs, claims, request, operator, heard>>

\* 503
ConnectFindsNoSlot(c) ==
    /\ connect[c].pc = "reserve"
    /\ Cardinality(sessions) >= MaxSessions
    /\ connect' = [connect EXCEPT ![c].pc = "done"]
    /\ UNCHANGED <<sessions, clock, revs, claims, request, operator, heard>>

\* The reserve closure: counts, picks and appends on the list it publishes.
ConnectReserves(c) ==
    /\ connect[c].pc = "reserve"
    /\ Cardinality(sessions) < MaxSessions
    /\ claims' = claims + 1
    /\ sessions' = sessions \cup {Placeholder(Allocated, connect[c].player, claims')}
    /\ heard' = [heard EXCEPT ![Allocated] = clock]
    /\ connect' = [connect EXCEPT ![c].pc = "reserved", ![c].slot = Allocated,
                                  ![c].claim = claims', ![c].at = clock]
    /\ UNCHANGED <<clock, revs, request, operator>>

\* The full session is built, with a fresh control_revision.
ConnectBuilds(c) ==
    /\ connect[c].pc = "reserved"
    /\ revs < MaxRevs
    /\ revs' = revs + 1
    /\ connect' = [connect EXCEPT ![c].pc = "built", ![c].rev = revs']
    /\ UNCHANGED <<sessions, clock, claims, request, operator, heard>>

\* Mutant: the 400 leaves the placeholder.
ConnectRejected_Leaks(c) ==
    /\ connect[c].pc = "built"
    /\ connect[c].config
    /\ connect' = [connect EXCEPT ![c].pc = "done"]
    /\ UNCHANGED <<sessions, clock, revs, claims, request, operator, heard>>

\* ApplyConfigPatch fails: removeReservedSession, by the slot's id.
ConnectRejected(c) ==
    /\ connect[c].pc = "built"
    /\ connect[c].config
    /\ sessions' = sessions \ At(connect[c].slot)
    /\ connect' = [connect EXCEPT ![c].pc = "done"]
    /\ UNCHANGED <<clock, revs, claims, request, operator, heard>>

\* Mutant: the full session is appended beside the placeholder.
ConnectFills_AppendOnly(c) ==
    /\ connect[c].pc = "built"
    /\ sessions' = sessions \cup {Full(connect[c])}
    /\ connect' = [connect EXCEPT ![c].pc = "done"]
    /\ UNCHANGED <<clock, revs, claims, request, operator, heard>>

\* fillReservedSession: whatever is at the slot is replaced; if nothing is,
\* the session is appended.
ConnectFills(c) ==
    /\ connect[c].pc = "built"
    /\ sessions' = (sessions \ At(connect[c].slot)) \cup {Full(connect[c])}
    /\ connect' = [connect EXCEPT ![c].pc = "done"]
    /\ UNCHANGED <<clock, revs, claims, request, operator, heard>>

-----------------------------------------------------------------------------
(* handleProxy, a session's port *)

RequestArrives(r) ==
    /\ request[r].pc = "arrive"
    /\ sessions' = Active
    /\ request' = [request EXCEPT ![r].pc = "look"]
    /\ UNCHANGED <<clock, revs, claims, connect, operator, heard>>

\* The list is cloned; last_request and the origin are stamped on the clone.
\* A port without a session is a 404.
RequestLooks(r) ==
    /\ request[r].pc = "look"
    /\ \E i \in Slots :
        \/ /\ At(i) = {}
           /\ request' = [request EXCEPT ![r].pc = "done"]
        \/ \E s \in At(i) :
           /\ request' = [request EXCEPT ![r] =
                [pc |-> "locked", draft |-> [s EXCEPT !.last = clock, !.origin = TRUE]]]
    /\ UNCHANGED <<sessions, clock, revs, claims, connect, operator, heard>>

\* The save after the fault decision, and the one when the transfer is over,
\* both of the clone taken on arrival.
RequestSaves(r) ==
    /\ request[r].pc \in {"locked", "final"}
    /\ LET d == request[r].draft
       IN  /\ sessions' = Saved(d)
           /\ heard' = IF At(d.id) = {} THEN heard
                       ELSE [heard EXCEPT ![d.id] = Latest(@, d.last)]
    /\ request' = [request EXCEPT ![r].pc = IF @ = "locked" THEN "final" ELSE "done"]
    /\ UNCHANGED <<clock, revs, claims, connect, operator>>

-----------------------------------------------------------------------------
(* the control API *)

\* handlePostSessionMetrics: an overlay of observations, whose event time is
\* the player's own clock, or absent.
PostMetrics(i, t) ==
    /\ At(i) # {}
    /\ sessions' = {IF s.id = i /\ ~(0 < t /\ t < s.et)
                    THEN [s EXCEPT !.et = IF t = 0 THEN Latest(s.et, clock) ELSE t]
                    ELSE s : s \in sessions}
    /\ UNCHANGED <<clock, revs, claims, connect, request, operator, heard>>

\* The handler finds the player and draws its revision (see PlayerPatch).
OperatorDraws(o) ==
    /\ operator[o].pc = "idle"
    /\ revs < MaxRevs
    /\ revs' = revs + 1
    /\ \E p \in Players :
        /\ Of(p) # {}
        /\ operator' = [operator EXCEPT ![o] =
                [pc |-> "apply", player |-> p, rev |-> revs']]
    /\ UNCHANGED <<sessions, clock, claims, connect, request, heard>>

\* MutatePlayer: settings and control_revision of the player's session, or a
\* 404 if it has gone.
OperatorApplies(o) ==
    LET p == operator[o].player
        n == operator[o].rev
    IN  /\ operator[o].pc = "apply"
        /\ \/ Of(p) = {} /\ UNCHANGED sessions
           \/ \E s \in Of(p) :
                \E t \in {[s EXCEPT !.rules = n, !.crev = n],
                          [s EXCEPT !.shape = n, !.crev = n]} :
                    sessions' = (sessions \ {s}) \cup {t}
        /\ operator' = [operator EXCEPT ![o].pc = "idle"]
        /\ UNCHANGED <<clock, revs, claims, connect, request, heard>>

\* DELETE of a session (v1, by id) or of a player (v2).
Delete ==
    /\ \E s \in sessions : sessions' = sessions \ {s}
    /\ UNCHANGED <<clock, revs, claims, connect, request, operator, heard>>

\* handleClearSessions, ClearAllPlayers
Clear ==
    /\ sessions # {}
    /\ sessions' = {}
    /\ UNCHANGED <<clock, revs, claims, connect, request, operator, heard>>

\* CreateSyntheticPlayer: check, allocation and append in one closure.
CreateSynthetic(p) ==
    /\ Of(p) = {}
    /\ Cardinality(sessions) < MaxSessions
    /\ claims < MaxClaims
    /\ revs < MaxRevs
    /\ claims' = claims + 1
    /\ revs' = revs + 1
    /\ sessions' = sessions \cup
            {[Placeholder(Allocated, p, claims') EXCEPT !.filled = TRUE, !.crev = revs']}
    /\ heard' = [heard EXCEPT ![Allocated] = clock]
    /\ UNCHANGED <<clock, connect, request, operator>>

Tick ==
    /\ clock < MaxClock
    /\ clock' = clock + 1
    /\ UNCHANGED <<sessions, revs, claims, connect, request, operator, heard>>

Next ==
    \/ \E c \in Connects :
        \/ ConnectArrives(c)
        \/ ConnectLooks(c)
        \/ ConnectFindsNoSlot(c)
        \/ ConnectReserves(c)
        \/ ConnectBuilds(c)
        \/ ConnectRejected(c)
        \/ ConnectFills(c)
    \/ \E r \in Requests :
        \/ RequestArrives(r)
        \/ RequestLooks(r)
        \/ RequestSaves(r)
    \/ \E i \in Slots, t \in EventTimes : PostMetrics(i, t)
    \/ \E o \in Operators : OperatorDraws(o) \/ OperatorApplies(o)
    \/ Delete
    \/ Clear
    \/ \E p \in Players : CreateSynthetic(p)
    \/ Tick

Spec == Init /\ [][Next]_vars

-----------------------------------------------------------------------------
TypeOK ==
    /\ sessions \subseteq Sessions
    /\ clock \in Nat
    /\ revs \in Nat
    /\ claims \in Nat
    /\ connect \in [Connects -> ConnectRecords]
    /\ request \in [Requests -> RequestRecords]
    /\ operator \in [Operators -> OperatorRecords]
    /\ heard \in [Slots -> Nat]

\* "Two concurrent bootstraps can never claim the same slot": no two sessions
\* of the list share one, however fills, saves and reservations interleave.
UniqueSlots == \A s, t \in sessions : s.id = t.id => s = t

InProgress(c) == connect[c].pc \in {"reserved", "built"}

\* "A rejected config leaks no slot": a placeholder is at the slot of a
\* bootstrap still under way, which will fill it or take it away.
NoLeakedReservation ==
    \A s \in sessions : ~s.filled =>
        \E c \in Connects : InProgress(c) /\ connect[c].slot = s.id

IInv == TypeOK /\ UniqueSlots /\ NoLeakedReservation

\* A session and what the step makes of it: the same registration before and
\* after, already filled.
SameSession(s, t) == s.claim = t.claim /\ s.filled

\* "Never regress past an existing event_time": charts never jump back.
EventTimeForward ==
    [][\A s \in sessions, t \in sessions' : SameSession(s, t) => s.et <= t.et]_vars

\* The shaping settings an operator sets stay until an operator changes them:
\* no save of a stale clone brings older ones back.
ShapeSettingsStick ==
    [][\A s \in sessions, t \in sessions' :
        SameSession(s, t) /\ s.shape # t.shape =>
            \E o \in Operators : operator[o].pc = "apply" /\ operator'[o].pc = "idle"]_vars

-----------------------------------------------------------------------------
\* Why they hold: the inductive invariants.

\* A registration is one session's, and that of a bootstrap under way is its
\* own: the placeholder at its slot, which nobody has filled, if it is there.
ClaimsApart ==
    /\ \A s, t \in sessions : s.claim = t.claim => s = t
    /\ \A s \in sessions : s.claim <= claims
    /\ \A c \in Connects : InProgress(c) =>
        /\ connect[c].claim <= claims
        /\ \A s \in sessions :
            s.claim = connect[c].claim => ~s.filled /\ s.id = connect[c].slot
        /\ \A d \in Connects :
            InProgress(d) /\ connect[d].claim = connect[c].claim => c = d

ClaimsInvariant == IInv /\ ClaimsApart

\* One control plane, which needs no bootstrap to make sessions.
OneOperator == Connects = {} /\ \A o, p \in Operators : o = p

Holds(r) == request[r].pc \in {"locked", "final"}

\* A clone with the control_revision of the session it is saved to, or a newer
\* one, has no other shaping settings.
ClonesAgree ==
    \A r \in Requests, s \in sessions :
        LET d == request[r].draft
        IN  Holds(r) /\ d.id = s.id /\ s.crev <= d.crev /\ d.shape # 0
                => d.shape = s.shape

\* What has a newer revision than a write under way was created meanwhile: it
\* has no shaping settings, and its clones have a session as new to go to.
WriteIsNewest ==
    \A o \in Operators : operator[o].pc = "apply" =>
        LET n == operator[o].rev
        IN  /\ \A s \in sessions : n <= s.crev => s.shape = 0
            /\ \A r \in Requests : Holds(r) /\ n <= request[r].draft.crev =>
                /\ request[r].draft.shape = 0
                /\ \A s \in At(request[r].draft.id) : n <= s.crev

RevisionsDrawn ==
    /\ \A s \in sessions : s.crev <= revs
    /\ \A r \in Requests : Holds(r) => request[r].draft.crev <= revs
    /\ \A o \in Operators : operator[o].pc = "apply" => operator[o].rev <= revs

ShapeInvariant ==
    /\ ClaimsInvariant
    /\ OneOperator => RevisionsDrawn /\ ClonesAgree /\ WriteIsNewest

-----------------------------------------------------------------------------
\* What the comments say that the code does not do.

\* The placeholder carries a player_id "so a concurrent same-player reattach
\* still de-dupes".
OneSessionPerPlayer == \A s, t \in sessions : s.player = t.player => s = t

\* Two bootstraps under way never have the same slot.
ClaimsDistinct ==
    \A c, d \in Connects :
        c # d /\ InProgress(c) /\ InProgress(d) => connect[c].slot # connect[d].slot

\* "No concurrent writer's update is lost": fault rules change by a write of
\* an operator only.
RulesStick ==
    [][\A s \in sessions, t \in sessions' :
        SameSession(s, t) /\ s.rules # t.rules =>
            \E o \in Operators : operator[o].pc = "apply" /\ operator'[o].pc = "idle"]_vars

\* "A player that makes no request for this long is treated as gone": one
\* whose request has come and saved within the window is not.
OnlyIdleReaped ==
    [][\A s \in sessions :
        /\ \E c \in Connects : connect[c].pc = "arrive" /\ connect'[c].pc = "look"
        /\ s \notin sessions'
        => clock >= heard[s.id] + Window]_vars

\* A registration keeps the player it was made for.
PlayerKeepsSlot ==
    [][\A s \in sessions, t \in sessions' :
        SameSession(s, t) => s.player = t.player]_vars
=============================================================================
