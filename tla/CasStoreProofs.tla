--------------------------- MODULE CasStoreProofs ---------------------------
(***************************************************************************)
(* Proofs about CasStore, for any set of goroutines, any session lists and *)
(* any pure closures.                                                      *)
(***************************************************************************)
EXTENDS CasStore, TLAPS

(***************************************************************************)
(* A closure applied to a list yields an outcome.                          *)
(***************************************************************************)
LEMMA OutcomeType ==
    ASSUME TypeOK, NEW w \in Writers, NEW l \in Lists
    PROVE  /\ fn[w][l].next \in Lists
           /\ fn[w][l].changed \in BOOLEAN
           /\ fn[w][l].captured \in SUBSET Items
<1>1. fn[w] \in [Lists -> Outcomes]
    BY CasAssumption DEF TypeOK
<1>2. fn[w][l] \in Outcomes
    BY <1>1
<1> QED
    BY <1>2 DEF Outcomes

(***************************************************************************)
(* The compare of mutateSessions' compare-and-swap is enough: IInv is      *)
(* inductive, so the slice a winning swap publishes was computed from the  *)
(* slice it replaces.                                                      *)
(***************************************************************************)
LEMMA InitIInv == Init => IInv
BY CasAssumption
DEF Init, IInv, TypeOK, LoadedIsACell, DraftFromLoaded, StampAhead, InitialCell,
    Cells, Drafts, Results, NoResult

(* Every step of a call keeps the invariant. *)
LEMMA NextIInv == IInv /\ [Next]_vars => IInv'
<1> SUFFICES ASSUME IInv, [Next]_vars
             PROVE  IInv'
    OBVIOUS
<1> USE DEF IInv
<1>1. CASE UNCHANGED vars
    BY <1>1 DEF vars, TypeOK, LoadedIsACell, DraftFromLoaded, StampAhead
<1>2. ASSUME NEW w \in Writers, Load(w)
      PROVE  IInv'
    <2>1. TypeOK'
        BY <1>2 DEF Load, TypeOK
    <2>2. LoadedIsACell'
        BY <1>2 DEF Load, TypeOK, LoadedIsACell, Cells
    <2>3. DraftFromLoaded'
        BY <1>2 DEF Load, TypeOK, DraftFromLoaded
    <2>4. StampAhead'
        BY <1>2 DEF Load, TypeOK, StampAhead
    <2> QED BY <2>1, <2>2, <2>3, <2>4
<1>3. ASSUME NEW w \in Writers, ApplyUnchanged(w)
      PROVE  IInv'
    <2>0. fn[w][loaded[w].list].captured \in SUBSET Items
        BY OutcomeType DEF TypeOK, Cells
    <2>1. TypeOK'
        BY <1>3, <2>0 DEF ApplyUnchanged, TypeOK, Results
    <2>2. LoadedIsACell'
        BY <1>3 DEF ApplyUnchanged, LoadedIsACell
    <2>3. DraftFromLoaded'
        BY <1>3 DEF ApplyUnchanged, TypeOK, DraftFromLoaded
    <2>4. StampAhead'
        BY <1>3 DEF ApplyUnchanged, TypeOK, StampAhead
    <2> QED BY <2>1, <2>2, <2>3, <2>4
<1>4. ASSUME NEW w \in Writers, ApplyChanged(w)
      PROVE  IInv'
    <2>0. /\ fn[w][loaded[w].list].next \in Lists
          /\ fn[w][loaded[w].list].captured \in SUBSET Items
        BY OutcomeType DEF TypeOK, Cells
    <2>1. TypeOK'
        BY <1>4, <2>0 DEF ApplyChanged, TypeOK, Drafts
    <2>2. LoadedIsACell'
        BY <1>4 DEF ApplyChanged, LoadedIsACell
    <2>3. DraftFromLoaded'
        BY <1>4 DEF ApplyChanged, TypeOK, DraftFromLoaded
    <2>4. loaded[w].ui <= uiSeq
        BY DEF StampAhead
    <2>5. StampAhead'
        BY <1>4, <2>4 DEF ApplyChanged, TypeOK, StampAhead, Cells, Drafts
    <2> QED BY <2>1, <2>2, <2>3, <2>5
<1>5. ASSUME NEW w \in Writers, SwapWins(w)
      PROVE  IInv'
    <2>1. TypeOK'
        BY <1>5 DEF SwapWins, TypeOK, Cells, Drafts, Results
    <2>2. LoadedIsACell'
        BY <1>5 DEF SwapWins, TypeOK, LoadedIsACell, Cells
    <2>3. DraftFromLoaded'
        BY <1>5 DEF SwapWins, TypeOK, DraftFromLoaded
    <2>4. StampAhead'
        BY <1>5 DEF SwapWins, TypeOK, StampAhead
    <2> QED BY <2>1, <2>2, <2>3, <2>4
<1>6. ASSUME NEW w \in Writers, SwapLoses(w)
      PROVE  IInv'
    <2>1. TypeOK'
        BY <1>6 DEF SwapLoses, TypeOK
    <2>2. LoadedIsACell'
        BY <1>6 DEF SwapLoses, LoadedIsACell
    <2>3. DraftFromLoaded'
        BY <1>6 DEF SwapLoses, TypeOK, DraftFromLoaded
    <2>4. StampAhead'
        BY <1>6 DEF SwapLoses, TypeOK, StampAhead
    <2> QED BY <2>1, <2>2, <2>3, <2>4
<1> QED
    BY <1>1, <1>2, <1>3, <1>4, <1>5, <1>6 DEF Next, Step

(***************************************************************************)
(* The inductive invariant of the compare-and-swap loop.                   *)
(***************************************************************************)
THEOREM Invariance == Spec => []IInv
BY InitIInv, NextIInv, PTL DEF Spec

(***************************************************************************)
(* The ui_state_version stamped on the published list strictly grows with  *)
(* every publication.                                                      *)
(***************************************************************************)
THEOREM UiVersionGrows == Spec => UiVersionMonotonic
<1>1. IInv /\ [Next]_vars => [snap' # snap => snap'.ui > snap.ui]_vars
    <2> SUFFICES ASSUME IInv, [Next]_vars, snap' # snap
                 PROVE  snap'.ui > snap.ui
        OBVIOUS
    <2>1. PICK w \in Writers : SwapWins(w)
        BY DEF Next, Step, vars, Load, ApplyUnchanged, ApplyChanged, SwapLoses
    <2>2. loaded[w] = snap /\ loaded[w].ui < draft[w].ui
        BY <2>1 DEF SwapWins, IInv, LoadedIsACell, StampAhead
    <2>3. snap.ui \in Nat /\ draft[w].ui \in Nat
        BY DEF IInv, TypeOK, Cells, Drafts
    <2> QED
        BY <2>1, <2>2, <2>3 DEF SwapWins
<1> QED
    BY <1>1, Invariance, PTL DEF Spec, UiVersionMonotonic

(***************************************************************************)
(* Each step of the loop is one step of the atomic store or a stutter: a   *)
(* call that changes nothing takes effect when it loads, one that does     *)
(* takes effect when its swap wins.                                        *)
(***************************************************************************)
LEMMA InitRefines == Init => Abs!Init
<1> SUFFICES ASSUME Init PROVE Abs!Init
    OBVIOUS
<1> QED
    BY DEF Init, Abs!Init, InitialCell, AbsStatus, AbsResult, ReadOnly,
           NoResult, Abs!NoResult

(* A step of the loop is an atomic call or leaves the abstract state alone. *)
LEMMA StepRefines == IInv /\ IInv' /\ [Next]_vars => [Abs!Next]_(Abs!vars)
<1> SUFFICES ASSUME IInv, IInv', [Next]_vars
             PROVE  Abs!Next \/ UNCHANGED Abs!vars
    OBVIOUS
<1> USE DEF IInv
<1>1. CASE UNCHANGED vars
    BY <1>1 DEF vars, Abs!vars, AbsStatus, AbsResult, ReadOnly
<1>2. ASSUME NEW w \in Writers, Load(w), ~fn[w][snap.list].changed
      PROVE  Abs!Mutate(w)
    <2>1. /\ AbsStatus[w] = "calling"
          /\ AbsStatus' = [AbsStatus EXCEPT ![w] = "done"]
        BY <1>2 DEF Load, TypeOK, AbsStatus, ReadOnly
    <2>2. AbsResult' = [AbsResult EXCEPT ![w] =
              [ok |-> fn[w][snap.list].changed,
               captured |-> fn[w][snap.list].captured]]
        <3>1. fn[w][snap.list].changed = FALSE
            BY <1>2, OutcomeType DEF TypeOK, Cells
        <3> QED
            BY <1>2, <3>1 DEF Load, TypeOK, AbsResult, ReadOnly
    <2> QED
        BY <1>2, <2>1, <2>2 DEF Load, Abs!Mutate
<1>3. ASSUME NEW w \in Writers, Load(w), fn[w][snap.list].changed
      PROVE  UNCHANGED Abs!vars
    BY <1>3 DEF Load, TypeOK, Abs!vars, AbsStatus, AbsResult, ReadOnly
<1>4. ASSUME NEW w \in Writers, ApplyUnchanged(w)
      PROVE  UNCHANGED Abs!vars
    <2>1. AbsStatus' = AbsStatus
        BY <1>4 DEF ApplyUnchanged, TypeOK, AbsStatus, ReadOnly
    <2>2. AbsResult' = AbsResult
        BY <1>4 DEF ApplyUnchanged, TypeOK, AbsResult, ReadOnly
    <2> QED
        BY <1>4, <2>1, <2>2 DEF ApplyUnchanged, Abs!vars
<1>5. ASSUME NEW w \in Writers, ApplyChanged(w)
      PROVE  UNCHANGED Abs!vars
    BY <1>5 DEF ApplyChanged, TypeOK, Abs!vars, AbsStatus, AbsResult, ReadOnly
<1>6. ASSUME NEW w \in Writers, SwapWins(w)
      PROVE  Abs!Mutate(w)
    <2>1. loaded[w] = snap
        BY <1>6 DEF SwapWins, LoadedIsACell
    <2>2. /\ fn[w][snap.list].changed = TRUE
          /\ draft[w].list = fn[w][snap.list].next
          /\ captured[w] = fn[w][snap.list].captured
        BY <1>6, <2>1, OutcomeType DEF SwapWins, DraftFromLoaded, TypeOK, Cells
    <2>3. /\ AbsStatus[w] = "calling"
          /\ AbsStatus' = [AbsStatus EXCEPT ![w] = "done"]
        BY <1>6 DEF SwapWins, TypeOK, AbsStatus, ReadOnly
    <2>4. AbsResult' = [AbsResult EXCEPT ![w] =
              [ok |-> fn[w][snap.list].changed,
               captured |-> fn[w][snap.list].captured]]
        BY <1>6, <2>2 DEF SwapWins, TypeOK, AbsResult, ReadOnly
    <2>5. snap'.list = fn[w][snap.list].next /\ fn' = fn
        BY <1>6, <2>2 DEF SwapWins
    <2> QED
        BY <2>2, <2>3, <2>4, <2>5 DEF Abs!Mutate
<1>7. ASSUME NEW w \in Writers, SwapLoses(w)
      PROVE  UNCHANGED Abs!vars
    BY <1>7 DEF SwapLoses, TypeOK, Abs!vars, AbsStatus, AbsResult, ReadOnly
<1> QED
    BY <1>1, <1>2, <1>3, <1>4, <1>5, <1>6, <1>7 DEF Next, Step, Abs!Next

(***************************************************************************)
(* mutateSessions is atomic: no concurrent writer's update is lost, and    *)
(* what a caller acts on afterwards is what the committed application of   *)
(* its closure captured.                                                   *)
(***************************************************************************)
THEOREM CasImplementsAtomic == Spec => Linearizable
BY InitRefines, StepRefines, Invariance, PTL DEF Spec, Linearizable, Abs!Spec

(***************************************************************************)
(* How far an attempt is.  One that started from the list that is still    *)
(* published is fresh; without a publication by others it goes from stage  *)
(* to stage, in an order that leads to the end of the call.                *)
(***************************************************************************)
Fresh(w) == loaded[w].ptr = snap.ptr

LEMMA StepGoesFurther ==
    ASSUME IInv, NEW w \in Writers, Step(w), snap' = snap
    PROVE  \/ pc[w] = "swap" /\ ~Fresh(w) /\ pc'[w] = "load"
           \/ pc[w] = "load" /\ pc'[w] = "apply" /\ Fresh(w)'
           \/ pc[w] = "apply" /\ pc'[w] = "swap" /\ (Fresh(w) <=> Fresh(w)')
           \/ pc'[w] = "done"
<1> USE DEF IInv, TypeOK, Fresh
<1>1. CASE Load(w)
    BY <1>1 DEF Load
<1>2. CASE ApplyUnchanged(w)
    BY <1>2 DEF ApplyUnchanged
<1>3. CASE ApplyChanged(w)
    BY <1>3 DEF ApplyChanged
<1>4. CASE SwapWins(w)
    BY <1>4 DEF SwapWins
<1>5. CASE SwapLoses(w)
    BY <1>5 DEF SwapLoses
<1> QED
    BY <1>1, <1>2, <1>3, <1>4, <1>5 DEF Step

LEMMA OthersLeaveAttempt ==
    ASSUME IInv, NEW w \in Writers, [Next]_vars, ~Step(w), snap' = snap
    PROVE  pc'[w] = pc[w] /\ (Fresh(w) <=> Fresh(w)')
<1> USE DEF IInv, TypeOK, Fresh
<1>1. CASE UNCHANGED vars
    BY <1>1 DEF vars
<1>2. ASSUME NEW u \in Writers, u # w, Step(u)
      PROVE  pc'[w] = pc[w] /\ loaded'[w] = loaded[w]
    BY <1>2 DEF Step, Load, ApplyUnchanged, ApplyChanged, SwapWins, SwapLoses
<1> QED
    BY <1>1, <1>2 DEF Next

(***************************************************************************)
(* A call that goes on returns, or the list is published for ever: whoever *)
(* loses a swap loses it to a call that has won one.                       *)
(***************************************************************************)
LEMMA ReturnsOrLoses ==
    ASSUME NEW w \in Writers
    PROVE  Spec /\ RunsOn(w)
             => <>(pc[w] = "done") \/ []<><<snap' # snap>>_vars
<1> DEFINE Done == pc[w] = "done"
           Stale == pc[w] = "apply" /\ ~Fresh(w)
           Lost == pc[w] = "swap" /\ ~Fresh(w)
           Begins == pc[w] = "load"
           Applies == pc[w] = "apply" /\ Fresh(w)
           Swaps == pc[w] = "swap" /\ Fresh(w)
           Quiet == ~(snap' # snap)
<1>1. IInv => Done \/ Stale \/ Lost \/ Begins \/ Applies \/ Swaps
    BY DEF IInv, TypeOK
<1>2. IInv /\ [Next]_vars /\ [Quiet]_vars
        => /\ Stale => Stale' \/ Lost' \/ Done'
           /\ Lost => Lost' \/ Begins' \/ Done'
           /\ Begins => Begins' \/ Applies' \/ Done'
           /\ Applies => Applies' \/ Swaps' \/ Done'
           /\ Swaps => Swaps' \/ Done'
    <2> SUFFICES ASSUME IInv, [Next]_vars, [Quiet]_vars
                 PROVE  /\ Stale => Stale' \/ Lost' \/ Done'
                        /\ Lost => Lost' \/ Begins' \/ Done'
                        /\ Begins => Begins' \/ Applies' \/ Done'
                        /\ Applies => Applies' \/ Swaps' \/ Done'
                        /\ Swaps => Swaps' \/ Done'
        OBVIOUS
    <2>1. snap' = snap
        BY DEF vars
    <2>2. CASE Step(w)
        BY <2>1, <2>2, StepGoesFurther
    <2>3. CASE ~Step(w)
        BY <2>1, <2>3, OthersLeaveAttempt
    <2> QED
        BY <2>2, <2>3
<1>3. IInv /\ <<Step(w)>>_vars /\ [Quiet]_vars
        => /\ Stale => Lost' \/ Done'
           /\ Lost => Begins' \/ Done'
           /\ Begins => Applies' \/ Done'
           /\ Applies => Swaps' \/ Done'
           /\ Swaps => Done'
    BY StepGoesFurther DEF vars
<1>4. /\ Stale => ~Done
      /\ Lost => ~Done
      /\ Begins => ~Done
      /\ Applies => ~Done
      /\ Swaps => ~Done
    OBVIOUS
<1> HIDE DEF Done, Stale, Lost, Begins, Applies, Swaps
<1>5. Spec /\ ([]<>Done \/ []<><<Step(w)>>_vars)
        => <>Done \/ []<><<snap' # snap>>_vars
    BY <1>1, <1>2, <1>3, <1>4, Invariance, PTL DEF Spec
<1> QED
    BY <1>5 DEF RunsOn, Done

THEOREM CallsAreLockFree ==
    Spec /\ (\A w \in Writers : RunsOn(w)) => LockFree
<1> SUFFICES ASSUME NEW w \in Writers
             PROVE  Spec /\ (\A u \in Writers : RunsOn(u))
                      => <>(pc[w] = "done") \/ []<><<snap' # snap>>_vars
    BY DEF LockFree
<1>1. (\A u \in Writers : RunsOn(u)) => RunsOn(w)
    OBVIOUS
<1> QED
    BY <1>1, ReturnsOrLoses, PTL
=============================================================================
