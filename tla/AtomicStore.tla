---------------------------- MODULE AtomicStore ----------------------------
(***************************************************************************)
(* What App.mutateSessions promises its callers (go-proxy/cmd/server/      *)
(* main.go, issue #740): the session list is a value that each call reads, *)
(* transforms and replaces in one indivisible step, and the caller is told *)
(* whether it changed anything together with what its closure captured     *)
(* while doing so.  CasStore refines this specification.                   *)
(***************************************************************************)
CONSTANTS
    Writers,       \* the goroutines that call mutateSessions
    Lists,         \* the values the session list can have
    Items,         \* what a closure may capture (sessions to tear down, codes)
    Fns,           \* the closures: pure functions of the list
    InitialList    \* Fns \subseteq [Lists -> Outcomes], as CasAssumption states

Outcomes == [next : Lists, changed : BOOLEAN, captured : SUBSET Items]

NoResult == [ok |-> FALSE, captured |-> {}]
Results == [ok : BOOLEAN, captured : SUBSET Items]

VARIABLES
    list,       \* the published session list
    status,     \* "calling" until the call has taken effect, then "done"
    fn,         \* the closure each writer passed
    result      \* what the call returned

vars == <<list, status, fn, result>>

Init ==
    /\ list = InitialList
    /\ status = [w \in Writers |-> "calling"]
    /\ fn \in [Writers -> Fns]
    /\ result = [w \in Writers |-> NoResult]

\* The whole call: one reading, one application, one replacement.
Mutate(w) ==
    LET outcome == fn[w][list]
    IN  /\ status[w] = "calling"
        /\ status' = [status EXCEPT ![w] = "done"]
        /\ list' = IF outcome.changed THEN outcome.next ELSE list
        /\ result' = [result EXCEPT ![w] =
                        [ok |-> outcome.changed, captured |-> outcome.captured]]
        /\ UNCHANGED fn

Next == \E w \in Writers : Mutate(w)

Spec == Init /\ [][Next]_vars
============================================================================
