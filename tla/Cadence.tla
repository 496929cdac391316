------------------------------ MODULE Cadence ------------------------------
(***************************************************************************)
(* The cadence engine of an HTTP fault rule (go-proxy/cmd/server:          *)
(* evaluateFaultRules and FailureHandler): what the rule's state and the   *)
(* arrival time of a matching request make of the request and of the       *)
(* state.  A time is a number of ticks; the engine keeps milliseconds.     *)
(* The engine's fourth combination of units, a window in seconds spaced in *)
(* requests, cannot be asked for: unitsForMode never returns it.           *)
(***************************************************************************)
EXTENDS Integers

CONSTANT Second     \* ticks in a second

ASSUME SecondAssumption == Second \in Nat \ {0}

Modes == {"requests", "seconds", "failures_per_seconds"}
Rules == [mode : Modes, frequency : Nat, consecutive : Nat]

Nil == -1
Schedules == Nat \cup {Nil}
RuleStates ==
    [count : Nat,           \* matching requests seen
     at : Schedules,        \* failureAt: when the next window opens
     recover : Schedules,   \* failureRecoverAt: when the open window closes
     done : BOOLEAN]        \* a one-shot that has had its window
Fresh == [count |-> 0, at |-> Nil, recover |-> Nil, done |-> FALSE]

\* consecutive 0 and frequency 0: fault every matching request.
Continuous(rule) == rule.consecutive = 0 /\ rule.frequency = 0

Consecutive(rule) == IF rule.consecutive = 0 THEN 1 ELSE rule.consecutive

\* unitsForMode: windows open at a request or at a time, and last for a
\* number of requests or of ticks.
Position(rule, count, now) == IF rule.mode = "requests" THEN count ELSE now
Progress(rule, count, now) == IF rule.mode = "seconds" THEN now ELSE count
Width(rule) ==
    IF rule.mode = "seconds" THEN Consecutive(rule) * Second ELSE Consecutive(rule)

\* Mutant: requests subtracted from seconds.
Gap_MixedUnits(rule) ==
    LET rest == IF rule.frequency > Consecutive(rule)
                THEN rule.frequency - Consecutive(rule) ELSE 0
    IN  IF rule.mode = "requests" THEN rest ELSE rest * Second

\* From a recovery to the next window: the frequency less the window, but
\* the whole frequency when the two are in different units.
Gap(rule) ==
    LET rest == IF rule.frequency > Consecutive(rule)
                THEN rule.frequency - Consecutive(rule) ELSE 0
    IN  CASE rule.mode = "requests" -> rest
          [] rule.mode = "seconds" -> rest * Second
          [] rule.mode = "failures_per_seconds" -> rule.frequency * Second

-----------------------------------------------------------------------------
(* A request: "now" is when the handler read the clock for it, "begin" what *)
(* nowISO() returns, read a little later, if there is no schedule yet.      *)

Opening(rule, st, begin) ==
    CASE st.at # Nil -> st.at
      [] st.at = Nil /\ rule.mode = "requests" -> st.count + 1
      [] st.at = Nil /\ rule.mode # "requests" -> begin

Counted(rule, st) == ~st.done /\ ~Continuous(rule)

TooEarly(rule, st, now, begin) ==
    /\ Counted(rule, st)
    /\ Position(rule, st.count + 1, now) < Opening(rule, st, begin)

Due(rule, st, now, begin) ==
    /\ Counted(rule, st)
    /\ Position(rule, st.count + 1, now) >= Opening(rule, st, begin)

Opens(rule, st, now, begin) ==
    Due(rule, st, now, begin) /\ st.recover = Nil

\* Mutant: the request at the boundary is faulted as well.
Within_Inclusive(rule, st, now, begin) ==
    /\ Due(rule, st, now, begin)
    /\ st.recover # Nil
    /\ Progress(rule, st.count + 1, now) <= st.recover

Within(rule, st, now, begin) ==
    /\ Due(rule, st, now, begin)
    /\ st.recover # Nil
    /\ Progress(rule, st.count + 1, now) < st.recover

Over(rule, st, now, begin) ==
    /\ Due(rule, st, now, begin)
    /\ st.recover # Nil
    /\ ~Within(rule, st, now, begin)

Fails(rule, st, now, begin) ==
    \/ ~st.done /\ Continuous(rule)
    \/ Opens(rule, st, now, begin)
    \/ Within(rule, st, now, begin)

\* Mutant: the schedule is cleared and the rule left armed.
Retired_StillArmed(count) ==
    [count |-> count, at |-> Nil, recover |-> Nil, done |-> FALSE]

\* A one-shot after its window.
Retired(count) == [count |-> count, at |-> Nil, recover |-> Nil, done |-> TRUE]

\* The rule's state after the request.
After(rule, st, now, begin) ==
    LET count == st.count + 1
        opening == Opening(rule, st, begin)
        scheduled(at, recover) ==
            [count |-> count, at |-> at, recover |-> recover, done |-> FALSE]
    IN  CASE st.done -> st
          [] ~st.done /\ Continuous(rule) -> [st EXCEPT !.count = count]
          [] TooEarly(rule, st, now, begin) -> scheduled(opening, st.recover)
          [] Opens(rule, st, now, begin) ->
                scheduled(opening, Progress(rule, count, now) + Width(rule))
          [] Within(rule, st, now, begin) -> scheduled(opening, st.recover)
          [] Over(rule, st, now, begin) /\ rule.frequency > 0 ->
                scheduled(Position(rule, count, now) + Gap(rule), Nil)
          [] Over(rule, st, now, begin) /\ rule.frequency = 0 -> Retired(count)
============================================================================
