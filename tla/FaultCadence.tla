---------------------------- MODULE FaultCadence ----------------------------
(***************************************************************************)
(* One fault rule, from the moment it is armed, and the requests it        *)
(* matches, one after the other (FaultState has them at once): when they   *)
(* are faulted.  "open" and "total" are ghosts that remember what the rule *)
(* has done, the engine keeps no such record.                              *)
(***************************************************************************)
EXTENDS Cadence

CONSTANTS
    Armed,      \* the rules that may be armed
    MaxCount,   \* bound: matching requests
    MaxTime     \* bound: ticks

ASSUME CadenceAssumption ==
    /\ Armed \subseteq Rules
    /\ MaxCount \in Nat
    /\ MaxTime \in Nat

VARIABLES
    rule,       \* the rule, as the operator armed it
    st,         \* its entry of _faultrule_state
    now,        \* the clock
    open,       \* the latest window: its first request and time, its faults,
                \* and the requests that were faulted or let through since
    total       \* requests faulted so far

vars == <<rule, st, now, open, total>>

Windows == [from : Nat, since : Nat, hits : Nat]
NoWindow == [from |-> 0, since |-> 0, hits |-> 0]

Init ==
    /\ rule \in Armed
    /\ st = Fresh
    /\ now = 0
    /\ open = NoWindow
    /\ total = 0

\* A matching request arrives; nowISO() may already be in the next tick.
Request(begin) ==
    /\ st.count < MaxCount
    /\ begin \in {now, now + 1}
    /\ st' = After(rule, st, now, begin)
    /\ UNCHANGED <<rule, now>>

\* The window opens with this request.
FaultOpens(begin) ==
    /\ Opens(rule, st, now, begin)
    /\ Request(begin)
    /\ open' = [from |-> st.count + 1, since |-> now, hits |-> 1]
    /\ total' = total + 1

FaultContinues(begin) ==
    /\ Within(rule, st, now, begin)
    /\ Request(begin)
    /\ open' = [open EXCEPT !.hits = @ + 1]
    /\ total' = total + 1

FaultAlways(begin) ==
    /\ ~st.done
    /\ Continuous(rule)
    /\ Request(begin)
    /\ total' = total + 1
    /\ UNCHANGED open

Passes(begin) ==
    /\ ~Fails(rule, st, now, begin)
    /\ Request(begin)
    /\ UNCHANGED <<open, total>>

Tick ==
    /\ now < MaxTime
    /\ now' = now + 1
    /\ UNCHANGED <<rule, st, open, total>>

Next ==
    \/ \E begin \in {now, now + 1} :
        \/ FaultOpens(begin)
        \/ FaultContinues(begin)
        \/ FaultAlways(begin)
        \/ Passes(begin)
    \/ Tick

Spec == Init /\ [][Next]_vars

-----------------------------------------------------------------------------
TypeOK ==
    /\ rule \in Armed
    /\ st \in RuleStates
    /\ now \in Nat
    /\ open \in Windows
    /\ total \in Nat

IsOpen == st.recover # Nil
HasFired == open.hits > 0

\* The shortest cycle, start to start: a window that leaves no gap is still
\* followed by the request that closes it.
Cycle ==
    LET longer == IF rule.frequency > Consecutive(rule)
                  THEN rule.frequency ELSE Consecutive(rule)
    IN  CASE rule.mode = "requests" -> longer
          [] rule.mode = "seconds" -> longer * Second
          [] rule.mode = "failures_per_seconds" -> rule.frequency * Second

\* An open window ends where its first fault and the rule's width say, and
\* every matching request since its first has been faulted.
OpenWindow ==
    IsOpen =>
        /\ HasFired
        /\ ~st.done
        /\ st.at # Nil
        /\ st.at <= Position(rule, open.from, open.since)
        /\ st.recover = Progress(rule, open.from, open.since) + Width(rule)
        /\ rule.mode # "seconds" =>
            /\ open.hits = st.count - open.from + 1
            /\ st.count < st.recover

\* Between two windows the next is scheduled a whole cycle after the start of
\* the latest, and never further ahead than the gap.
NextWindow ==
    (HasFired /\ ~IsOpen /\ ~st.done) =>
        /\ rule.frequency > 0
        /\ st.at # Nil
        /\ st.at >= Position(rule, open.from, open.since) + Cycle
        /\ st.at <= Position(rule, st.count, now) + Gap(rule)

\* A one-shot has one window: it "fires exactly `consec` times then reverts
\* to none forever".
OneShot ==
    (rule.frequency = 0 /\ ~Continuous(rule)) =>
        /\ total = open.hits
        /\ rule.mode # "seconds" => total <= Consecutive(rule)

IInv ==
    /\ TypeOK
    /\ open.from <= st.count
    /\ open.since <= now
    /\ Continuous(rule) => ~HasFired /\ ~IsOpen /\ ~st.done
    /\ (~HasFired /\ ~IsOpen) => ~st.done
    /\ st.done => HasFired /\ ~IsOpen /\ rule.frequency = 0
    /\ OpenWindow
    /\ NextWindow
    /\ OneShot

\* A window is as wide as the rule says: it closes after exactly so many
\* faults, or on the first request so many seconds after its first fault,
\* and no fault of it comes later than that.
WindowExact ==
    [][/\ (IsOpen /\ ~IsOpen') =>
            IF rule.mode = "seconds" THEN now >= open.since + Width(rule)
            ELSE open.hits = Consecutive(rule)
       /\ (total' # total /\ ~Continuous(rule)) =>
            IF rule.mode = "seconds" THEN now < open'.since + Width(rule)
            ELSE open'.hits <= Consecutive(rule)]_vars

\* Windows are at least a cycle apart, start to start, however the requests
\* come.
WindowsSpaced ==
    [][(IsOpen' /\ ~IsOpen /\ HasFired) =>
        Position(rule, st'.count, now) >=
            Position(rule, open.from, open.since) + Cycle]_vars

-----------------------------------------------------------------------------
\* What the documents say that the code does not do.

\* "Frequency semantics: full cycle length (fault start -> next fault start),
\* not gap-after-recovery": a request that comes a frequency after a window's
\* start, with no window in between, opens the next one.
FullCycle ==
    [][(~IsOpen /\ HasFired /\ ~st.done /\ st'.count # st.count
        /\ Position(rule, st'.count, now) >=
                Position(rule, open.from, open.since) +
                    rule.frequency * (IF rule.mode = "requests" THEN 1 ELSE Second))
       => IsOpen']_vars

\* A rule of 1 fault every 1 request: "every matching request faults".
EveryRequestFaults == [][st'.count # st.count => total' = total + 1]_vars
=============================================================================
