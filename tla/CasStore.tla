------------------------------ MODULE CasStore ------------------------------
(***************************************************************************)
(* App.mutateSessions, the lock-free read-modify-write primitive every     *)
(* writer of the in-memory session list goes through: load the published   *)
(* slice, run the caller's closure on a private deep clone, stamp a fresh  *)
(* ui_state_version, publish with CompareAndSwap, and start again from a   *)
(* fresh clone when another writer published in between.                   *)
(*                                                                         *)
(* Published slices are immutable, so a loaded pointer is modelled by the  *)
(* cell it points to; the cell's ptr stands for the address, which is not  *)
(* reused while a goroutine still holds it.  A goroutine makes one call.   *)
(***************************************************************************)
EXTENDS Naturals

CONSTANTS Writers, Lists, Items, Fns, InitialList

Outcomes == [next : Lists, changed : BOOLEAN, captured : SUBSET Items]

ASSUME CasAssumption ==
    /\ InitialList \in Lists
    /\ Fns \subseteq [Lists -> Outcomes]

NoResult == [ok |-> FALSE, captured |-> {}]
Results == [ok : BOOLEAN, captured : SUBSET Items]

Cells == [ptr : Nat, list : Lists, ui : Nat]
Drafts == [list : Lists, ui : Nat]

VARIABLES
    snap,       \* sessionsSnap: the published cell
    uiSeq,      \* uiStateVersionSeq, the atomic counter
    pc,         \* "load", "apply", "swap" or "done"
    fn,         \* the closure each writer passed
    loaded,     \* oldPtr of the current attempt
    draft,      \* the slice the current attempt would publish
    captured,   \* the variable the closure captures into
    result      \* what the call returned

vars == <<snap, uiSeq, pc, fn, loaded, draft, captured, result>>

InitialCell == [ptr |-> 0, list |-> InitialList, ui |-> 0]

Init ==
    /\ snap = InitialCell
    /\ uiSeq = 0
    /\ pc = [w \in Writers |-> "load"]
    /\ fn \in [Writers -> Fns]
    /\ loaded = [w \in Writers |-> InitialCell]
    /\ draft = [w \in Writers |-> [list |-> InitialList, ui |-> 0]]
    /\ captured = [w \in Writers |-> {}]
    /\ result = [w \in Writers |-> NoResult]

Load(w) ==
    /\ pc[w] = "load"
    /\ loaded' = [loaded EXCEPT ![w] = snap]
    /\ pc' = [pc EXCEPT ![w] = "apply"]
    /\ UNCHANGED <<snap, uiSeq, fn, draft, captured, result>>

\* The closure resets what it captures at its top, so a retry forgets the
\* attempt before it; the result is what this attempt captured.
ApplyUnchanged(w) ==
    LET outcome == fn[w][loaded[w].list]
    IN  /\ pc[w] = "apply"
        /\ ~outcome.changed
        /\ captured' = [captured EXCEPT ![w] = outcome.captured]
        /\ result' = [result EXCEPT ![w] =
                        [ok |-> FALSE, captured |-> captured'[w]]]
        /\ pc' = [pc EXCEPT ![w] = "done"]
        /\ UNCHANGED <<snap, uiSeq, fn, loaded, draft>>

\* Mutant: the version is burned only when it is published, so two drafts of
\* the same snapshot, or a slow one, can carry an old stamp.
ApplyChanged_StampFromSnapshot(w) ==
    LET outcome == fn[w][loaded[w].list]
    IN  /\ pc[w] = "apply"
        /\ outcome.changed
        /\ captured' = [captured EXCEPT ![w] = outcome.captured]
        /\ uiSeq' = uiSeq + 1
        /\ draft' = [draft EXCEPT ![w] = [list |-> outcome.next, ui |-> uiSeq]]
        /\ pc' = [pc EXCEPT ![w] = "swap"]
        /\ UNCHANGED <<snap, fn, loaded, result>>

\* Mutant: no reset at the top of the closure, so a retry appends to what the
\* lost attempt captured.
ApplyChanged_NoReset(w) ==
    LET outcome == fn[w][loaded[w].list]
    IN  /\ pc[w] = "apply"
        /\ outcome.changed
        /\ captured' = [captured EXCEPT ![w] = @ \cup outcome.captured]
        /\ uiSeq' = uiSeq + 1
        /\ draft' = [draft EXCEPT ![w] = [list |-> outcome.next, ui |-> uiSeq']]
        /\ pc' = [pc EXCEPT ![w] = "swap"]
        /\ UNCHANGED <<snap, fn, loaded, result>>

\* atomic.AddUint64 and the stamping of the slice to be published.
ApplyChanged(w) ==
    LET outcome == fn[w][loaded[w].list]
    IN  /\ pc[w] = "apply"
        /\ outcome.changed
        /\ captured' = [captured EXCEPT ![w] = outcome.captured]
        /\ uiSeq' = uiSeq + 1
        /\ draft' = [draft EXCEPT ![w] =
                        [list |-> outcome.next, ui |-> uiSeq']]
        /\ pc' = [pc EXCEPT ![w] = "swap"]
        /\ UNCHANGED <<snap, fn, loaded, result>>

\* Mutant: a plain Store, the read-modify-write without the compare.
SwapWins_NoCompare(w) ==
    /\ pc[w] = "swap"
    /\ snap' = [ptr |-> snap.ptr + 1, list |-> draft[w].list, ui |-> draft[w].ui]
    /\ result' = [result EXCEPT ![w] = [ok |-> TRUE, captured |-> captured[w]]]
    /\ pc' = [pc EXCEPT ![w] = "done"]
    /\ UNCHANGED <<uiSeq, fn, loaded, draft, captured>>

SwapWins(w) ==
    /\ pc[w] = "swap"
    /\ loaded[w].ptr = snap.ptr
    /\ snap' = [ptr |-> snap.ptr + 1, list |-> draft[w].list, ui |-> draft[w].ui]
    /\ result' = [result EXCEPT ![w] = [ok |-> TRUE, captured |-> captured[w]]]
    /\ pc' = [pc EXCEPT ![w] = "done"]
    /\ UNCHANGED <<uiSeq, fn, loaded, draft, captured>>

\* Mutant: the loser swaps again without loading, against the old pointer.
SwapLoses_NoReload(w) ==
    /\ pc[w] = "swap"
    /\ loaded[w].ptr # snap.ptr
    /\ UNCHANGED vars

SwapLoses(w) ==
    /\ pc[w] = "swap"
    /\ loaded[w].ptr # snap.ptr
    /\ pc' = [pc EXCEPT ![w] = "load"]
    /\ UNCHANGED <<snap, uiSeq, fn, loaded, draft, captured, result>>

Step(w) ==
    \/ Load(w)
    \/ ApplyUnchanged(w)
    \/ ApplyChanged(w)
    \/ SwapWins(w)
    \/ SwapLoses(w)

Next == \E w \in Writers : Step(w)

Spec == Init /\ [][Next]_vars

\* A goroutine that can run eventually does.
FairSpec == Spec /\ \A w \in Writers : WF_vars(Step(w))

-----------------------------------------------------------------------------
TypeOK ==
    /\ snap \in Cells
    /\ uiSeq \in Nat
    /\ pc \in [Writers -> {"load", "apply", "swap", "done"}]
    /\ fn \in [Writers -> Fns]
    /\ loaded \in [Writers -> Cells]
    /\ draft \in [Writers -> Drafts]
    /\ captured \in [Writers -> SUBSET Items]
    /\ result \in [Writers -> Results]

\* A pointer that still compares equal is the cell that was loaded from it.
LoadedIsACell ==
    \A w \in Writers :
        /\ loaded[w].ptr <= snap.ptr
        /\ loaded[w].ptr = snap.ptr => loaded[w] = snap

\* What a writer is about to publish is what its closure makes of what it
\* loaded, with what that same run captured.
DraftFromLoaded ==
    \A w \in Writers :
        pc[w] = "swap" =>
            LET outcome == fn[w][loaded[w].list]
            IN  /\ outcome.changed
                /\ draft[w].list = outcome.next
                /\ captured[w] = outcome.captured

\* A version stamped on a draft is ahead of the one it would replace.
StampAhead ==
    /\ snap.ui <= uiSeq
    /\ \A w \in Writers : loaded[w].ui <= uiSeq
    /\ \A w \in Writers :
        pc[w] = "swap" =>
            /\ draft[w].ui <= uiSeq
            /\ loaded[w].ui < draft[w].ui

IInv == TypeOK /\ LoadedIsACell /\ DraftFromLoaded /\ StampAhead

\* The ui_state_version readers see only grows: "the field is monotonic",
\* although a burned version may be skipped and stamps are drawn before the
\* swap is won.
UiVersionMonotonic == [][snap' # snap => snap'.ui > snap.ui]_vars

\* No call is retried for ever once the others have finished: each lost swap
\* is another call's success.
EveryCallReturns == \A w \in Writers : <>(pc[w] = "done")

\* Weak fairness of a goroutine's steps with ENABLED spelled out, which is
\* the form the proofs use: the goroutine can go on until its call is over.
CanStepIsEnabled ==
    \A w \in Writers : pc[w] # "done" <=> ENABLED <<Step(w)>>_vars

RunsOn(w) == []<>(pc[w] = "done") \/ []<><<Step(w)>>_vars

\* mutateSessions is lock-free, without a bound on the calls of others: one
\* that never returns is one that others' publications never cease to beat.
LockFree ==
    \A w \in Writers : <>(pc[w] = "done") \/ []<><<snap' # snap>>_vars

-----------------------------------------------------------------------------
\* A call that changes nothing takes effect when it loads the list; one that
\* does takes effect when its swap wins.
ReadOnly(w) == pc[w] = "apply" /\ ~fn[w][loaded[w].list].changed

AbsStatus == [w \in Writers |->
                IF pc[w] = "done" \/ ReadOnly(w) THEN "done" ELSE "calling"]

AbsResult == [w \in Writers |->
                IF ReadOnly(w)
                THEN [ok |-> FALSE, captured |-> fn[w][loaded[w].list].captured]
                ELSE result[w]]

Abs == INSTANCE AtomicStore WITH
            list <- snap.list, status <- AbsStatus, result <- AbsResult

\* Every call appears to happen in one step: no concurrent writer's update
\* is lost and every side effect is run on the committed application.
Linearizable == Abs!Spec
=============================================================================
