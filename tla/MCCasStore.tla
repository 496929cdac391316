---------------------------- MODULE MCCasStore ----------------------------
(***************************************************************************)
(* Two session ids and a counter per id: 0 is absent, n > 0 counts the     *)
(* updates the session has received.  The closures are the shapes the      *)
(* writers have: append, read-modify-write, remove-and-capture (DELETE),   *)
(* and clear.                                                              *)
(***************************************************************************)
EXTENDS CasStore, FiniteSets

CONSTANTS Ids, MaxCount

MCLists == [Ids -> 0..MaxCount]
MCInitialList == [i \in Ids |-> 1]

Unchanged(l, c) == [next |-> l, changed |-> FALSE, captured |-> c]
Changed(l, c) == [next |-> l, changed |-> TRUE, captured |-> c]

\* bootstrap: append when there is none (reserve), else no change
AppendFn(i) == [l \in MCLists |->
    IF l[i] = 0 THEN Changed([l EXCEPT ![i] = 1], {i}) ELSE Unchanged(l, {})]

\* MutatePlayer, updateSessionsByPort: change it when found
BumpFn(i) == [l \in MCLists |->
    IF l[i] \in 1..(MaxCount - 1)
    THEN Changed([l EXCEPT ![i] = @ + 1], {i}) ELSE Unchanged(l, {})]

\* DELETE: remove it and capture it for the teardown
RemoveFn(i) == [l \in MCLists |->
    IF l[i] # 0 THEN Changed([l EXCEPT ![i] = 0], {i}) ELSE Unchanged(l, {})]

\* clear-sessions: capture everything, always publish
ClearFn == [l \in MCLists |->
    Changed([i \in Ids |-> 0], {i \in Ids : l[i] # 0})]

MCFns == {AppendFn(i) : i \in Ids} \cup {BumpFn(i) : i \in Ids}
            \cup {RemoveFn(i) : i \in Ids} \cup {ClearFn}

===========================================================================
