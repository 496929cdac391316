-------------------------- MODULE SessionStoreProofs --------------------------
(***************************************************************************)
(* Proofs about SessionStore, for any number of players, goroutines and    *)
(* operators, any window and any limit the last digit of a slot allows.    *)
(***************************************************************************)
EXTENDS SessionStore, FiniteSetTheorems, TLAPS

(***************************************************************************)
(* A set of digits has a least one.                                        *)
(***************************************************************************)
LEMMA LeastDigit ==
    ASSUME NEW D, D \subseteq 1..9, D # {}
    PROVE  \E i \in D : \A j \in D : i <= j
<1> SUFFICES ASSUME \A i \in D : \E j \in D : j < i
             PROVE  FALSE
    <2>1. \A i, j \in 1..9 : ~(i <= j) <=> j < i
        OBVIOUS
    <2> QED  BY <2>1
<1>1. D \subseteq 2..9
    OBVIOUS
<1>2. D \subseteq 3..9
    BY <1>1
<1>3. D \subseteq 4..9
    BY <1>2
<1>4. D \subseteq 5..9
    BY <1>3
<1>5. D \subseteq 6..9
    BY <1>4
<1>6. D \subseteq 7..9
    BY <1>5
<1>7. D \subseteq 8..9
    BY <1>6
<1>8. \A d \in D : d = 9
    BY <1>7
<1>9. PICK d \in D : d = 9
    BY <1>8
<1>10. PICK j \in D : j < d
    OBVIOUS
<1> QED  BY <1>8, <1>9, <1>10

(***************************************************************************)
(* The number allocateSessionNumber returns is a slot, in any state.       *)
(***************************************************************************)
LEMMA AllocatedIsASlot == Allocated \in Slots
<1>1. CASE Slots \subseteq Used
    BY <1>1, StoreAssumption DEF Allocated, Slots
<1>2. CASE ~(Slots \subseteq Used)
    <2> DEFINE D == Slots \ Used
    <2>1. D # {} /\ D \subseteq 1..9
        BY <1>2, StoreAssumption DEF Slots
    <2> HIDE DEF D
    <2>2. \E i \in D : \A j \in D : i <= j
        BY <2>1, LeastDigit
    <2>3. Allocated = CHOOSE i \in D : \A j \in D : i <= j
        BY <1>2 DEF Allocated, D
    <2>4. Allocated \in D
        BY <2>2, <2>3
    <2> QED  BY <2>4 DEF D
<1> QED  BY <1>1, <1>2

(***************************************************************************)
(* Sessions with distinct slots are at most MaxSessions, and while there   *)
(* are fewer the number allocated is nobody's.                             *)
(***************************************************************************)
LEMMA SlotCount ==
    ASSUME sessions \subseteq Sessions, UniqueSlots
    PROVE  IsFiniteSet(sessions) /\ Cardinality(sessions) <= MaxSessions
<1> DEFINE f == [s \in sessions |-> s.id]
<1>1. f \in Injection(sessions, Slots)
    BY DEF Injection, IsInjective, UniqueSlots, Sessions
<1>2. IsFiniteSet(Slots) /\ Cardinality(Slots) = MaxSessions
    <2>1. MaxSessions \in Nat
        BY StoreAssumption
    <2> QED  BY <2>1, FS_Interval DEF Slots
<1> QED  BY <1>1, <1>2, FS_Injection

(* With distinct slots and room left, the allocated slot is free. *)
LEMMA AllocatedIsFree ==
    ASSUME sessions \subseteq Sessions, UniqueSlots,
           Cardinality(sessions) < MaxSessions
    PROVE  At(Allocated) = {}
<1>1. \A s \in sessions : s.id \in Slots /\ s.id % 10 = s.id
    BY StoreAssumption DEF Sessions, Slots
<1>2. Used \subseteq Slots /\ \A s \in sessions : s.id \in Used
    BY <1>1 DEF Used
<1>3. ~(Slots \subseteq Used)
    <2> SUFFICES ASSUME Slots \subseteq Used PROVE FALSE
        OBVIOUS
    <2> DEFINE f == [s \in sessions |-> s.id]
    <2>1. f \in Surjection(sessions, Slots)
        BY <1>1, <1>2 DEF Surjection, Used
    <2>2. IsFiniteSet(sessions)
        BY SlotCount
    <2>3. Cardinality(Slots) <= Cardinality(sessions)
        BY <2>1, <2>2, FS_Surjection
    <2>4. MaxSessions \in Nat /\ Cardinality(sessions) \in Nat
        BY <2>2, FS_CardinalityType, StoreAssumption
    <2>5. Cardinality(Slots) = MaxSessions
        BY <2>4, FS_Interval DEF Slots
    <2> QED  BY <2>3, <2>4, <2>5
<1> DEFINE D == Slots \ Used
<1>4. D # {} /\ D \subseteq 1..9
    BY <1>3, StoreAssumption DEF Slots
<1>5. Allocated = CHOOSE i \in D : \A j \in D : i <= j
    BY <1>3 DEF Allocated
<1> HIDE DEF D
<1>6. \E i \in D : \A j \in D : i <= j
    BY <1>4, LeastDigit
<1>7. Allocated \in D
    BY <1>5, <1>6
<1> QED  BY <1>2, <1>7 DEF At, D

-------------------------------------------------------------------------------
(***************************************************************************)
(* Every variable keeps its type.                                          *)
(***************************************************************************)
LEMMA PlaceholderType ==
    ASSUME TypeOK, NEW i \in Slots, NEW p \in Players, NEW n \in Nat
    PROVE  Placeholder(i, p, n) \in Sessions
BY DEF TypeOK, Placeholder, Sessions

(* A bootstrap fills its placeholder with a session. *)
LEMMA FullType ==
    ASSUME NEW k \in ConnectRecords
    PROVE  Full(k) \in Sessions
BY DEF Full, ConnectRecords, Sessions

(* A save leaves a session. *)
LEMMA MergedType ==
    ASSUME TypeOK, NEW s \in Sessions, NEW d \in Sessions
    PROVE  Merged(s, d) \in Sessions
<1>1. /\ clock \in Nat /\ Latest(s.et, clock) \in Nat
      /\ Overlay(s.rules, d.rules) \in Nat /\ Overlay(s.shape, d.shape) \in Nat
    BY DEF TypeOK, Latest, Overlay, Sessions
<1> QED  BY <1>1 DEF Merged, Sessions

(* The initial state has its types. *)
LEMMA InitType == Init => TypeOK
<1> SUFFICES ASSUME NEW p \in Players, NEW i \in Slots,
                    sessions = {}, clock = 0, revs = 0, claims = 0,
                    connect = [c \in Connects |->
                        [pc |-> "arrive", player |-> p, slot |-> i, claim |-> 0,
                         at |-> 0, rev |-> 0, config |-> FALSE]],
                    request = [r \in Requests |->
                        [pc |-> "arrive", draft |-> Placeholder(i, p, 0)]],
                    operator = [o \in Operators |->
                        [pc |-> "idle", player |-> p, rev |-> 0]],
                    heard = [j \in Slots |-> 0]
             PROVE  TypeOK
    BY DEF Init
<1>1. Placeholder(i, p, 0) \in Sessions
    BY DEF Placeholder, Sessions
<1>2. connect \in [Connects -> ConnectRecords]
    BY DEF ConnectRecords
<1>3. request \in [Requests -> RequestRecords]
    BY <1>1 DEF RequestRecords
<1>4. operator \in [Operators -> OperatorRecords]
    BY DEF OperatorRecords
<1> QED  BY <1>2, <1>3, <1>4 DEF TypeOK

(* Every step keeps the types. *)
LEMMA NextType == TypeOK /\ [Next]_vars => TypeOK'
<1> SUFFICES ASSUME TypeOK, [Next]_vars
             PROVE  TypeOK'
    OBVIOUS
<1>u. CASE UNCHANGED vars
    BY <1>u DEF vars, TypeOK
<1>1. ASSUME NEW c \in Connects, ConnectArrives(c)
      PROVE  TypeOK'
    <2>1. PICK p \in Players, config \in BOOLEAN :
            connect' = [connect EXCEPT ![c].pc = "look", ![c].player = p,
                                       ![c].config = config]
        BY <1>1 DEF ConnectArrives
    <2>2. connect[c] \in ConnectRecords
        BY DEF TypeOK
    <2>3. [connect[c] EXCEPT !.pc = "look", !.player = p, !.config = config]
            \in ConnectRecords
        BY <2>2 DEF ConnectRecords
    <2>4. connect' \in [Connects -> ConnectRecords]
        BY <2>1, <2>3 DEF TypeOK
    <2> QED  BY <1>1, <2>4 DEF ConnectArrives, Active, TypeOK
<1>2. ASSUME NEW c \in Connects, NEW pc \in {"reserve", "done"},
             connect' = [connect EXCEPT ![c].pc = pc]
      PROVE  connect' \in [Connects -> ConnectRecords]
    <2>1. [connect[c] EXCEPT !.pc = pc] \in ConnectRecords
        BY DEF TypeOK, ConnectRecords
    <2> QED  BY <1>2, <2>1 DEF TypeOK
<1>3. ASSUME NEW c \in Connects, ConnectLooks(c) \/ ConnectFindsNoSlot(c)
      PROVE  TypeOK'
    <2>1. connect' \in [Connects -> ConnectRecords]
        BY <1>2, <1>3 DEF ConnectLooks, ConnectFindsNoSlot
    <2> QED  BY <1>3, <2>1 DEF ConnectLooks, ConnectFindsNoSlot, TypeOK
<1>4. ASSUME NEW c \in Connects, ConnectReserves(c)
      PROVE  TypeOK'
    <2>1. /\ claims' \in Nat /\ clock \in Nat
          /\ connect[c] \in ConnectRecords /\ connect[c].player \in Players
        BY <1>4 DEF ConnectReserves, TypeOK, ConnectRecords
    <2>2. [connect[c] EXCEPT !.pc = "reserved", !.slot = Allocated,
                             !.claim = claims', !.at = clock] \in ConnectRecords
        BY <2>1, AllocatedIsASlot DEF ConnectRecords
    <2>3. connect' \in [Connects -> ConnectRecords]
        BY <1>4, <2>2 DEF ConnectReserves, TypeOK
    <2>4. Placeholder(Allocated, connect[c].player, claims') \in Sessions
        BY <2>1, AllocatedIsASlot, PlaceholderType
    <2>5. heard' \in [Slots -> Nat]
        BY <1>4, <2>1 DEF ConnectReserves, TypeOK
    <2> QED  BY <1>4, <2>1, <2>3, <2>4, <2>5 DEF ConnectReserves, TypeOK
<1>5. ASSUME NEW c \in Connects, ConnectBuilds(c)
      PROVE  TypeOK'
    <2>1. revs' \in Nat
        BY <1>5 DEF ConnectBuilds, TypeOK
    <2>2. [connect[c] EXCEPT !.pc = "built", !.rev = revs'] \in ConnectRecords
        BY <2>1 DEF TypeOK, ConnectRecords
    <2>3. connect' \in [Connects -> ConnectRecords]
        BY <1>5, <2>2 DEF ConnectBuilds, TypeOK
    <2> QED  BY <1>5, <2>1, <2>3 DEF ConnectBuilds, TypeOK
<1>6. ASSUME NEW c \in Connects, ConnectRejected(c) \/ ConnectFills(c)
      PROVE  TypeOK'
    <2>1. connect' \in [Connects -> ConnectRecords]
        BY <1>2, <1>6 DEF ConnectRejected, ConnectFills
    <2>2. Full(connect[c]) \in Sessions
        BY FullType DEF TypeOK
    <2>3. sessions' \subseteq Sessions
        BY <1>6, <2>2 DEF ConnectRejected, ConnectFills, TypeOK
    <2> QED  BY <1>6, <2>1, <2>3 DEF ConnectRejected, ConnectFills, TypeOK
<1>7. ASSUME NEW r \in Requests, RequestArrives(r)
      PROVE  TypeOK'
    <2>1. [request[r] EXCEPT !.pc = "look"] \in RequestRecords
        BY DEF TypeOK, RequestRecords
    <2> QED  BY <1>7, <2>1 DEF RequestArrives, Active, TypeOK
<1>8. ASSUME NEW r \in Requests, RequestLooks(r)
      PROVE  TypeOK'
    <2>1. PICK i \in Slots :
            \/ request' = [request EXCEPT ![r].pc = "done"]
            \/ \E s \in At(i) : request' = [request EXCEPT ![r] =
                [pc |-> "locked", draft |-> [s EXCEPT !.last = clock, !.origin = TRUE]]]
        BY <1>8 DEF RequestLooks
    <2>2. [request[r] EXCEPT !.pc = "done"] \in RequestRecords
        BY DEF TypeOK, RequestRecords
    <2>3. \A s \in At(i) :
            [pc |-> "locked", draft |-> [s EXCEPT !.last = clock, !.origin = TRUE]]
                \in RequestRecords
        <3> TAKE s \in At(i)
        <3>1. s \in Sessions /\ clock \in Nat
            BY DEF At, TypeOK
        <3>2. [s EXCEPT !.last = clock, !.origin = TRUE] \in Sessions
            BY <3>1 DEF Sessions
        <3> QED  BY <3>2 DEF RequestRecords
    <2>4. request' \in [Requests -> RequestRecords]
        BY <2>1, <2>2, <2>3 DEF TypeOK
    <2> QED  BY <1>8, <2>4 DEF RequestLooks, TypeOK
<1>9. ASSUME NEW r \in Requests, RequestSaves(r)
      PROVE  TypeOK'
    <2>1. request[r].draft \in Sessions /\ request[r] \in RequestRecords
        BY DEF TypeOK, RequestRecords
    <2>2. sessions' \subseteq Sessions
        BY <1>9, <2>1, MergedType DEF RequestSaves, Saved, TypeOK
    <2>3. [request[r] EXCEPT !.pc = IF @ = "locked" THEN "final" ELSE "done"]
            \in RequestRecords
        BY <2>1 DEF RequestRecords
    <2>4. request' \in [Requests -> RequestRecords]
        BY <1>9, <2>3 DEF RequestSaves, TypeOK
    <2>5. heard' \in [Slots -> Nat]
        <3>1. request[r].draft.id \in Slots /\ request[r].draft.last \in Nat
            BY <2>1 DEF Sessions
        <3>2. Latest(heard[request[r].draft.id], request[r].draft.last) \in Nat
            BY <3>1 DEF TypeOK, Latest
        <3> QED  BY <1>9, <3>2 DEF RequestSaves, TypeOK
    <2> QED  BY <1>9, <2>2, <2>4, <2>5 DEF RequestSaves, TypeOK
<1>10. ASSUME NEW i \in Slots, NEW t \in EventTimes, PostMetrics(i, t)
       PROVE  TypeOK'
    <2>1. ASSUME NEW s \in sessions
          PROVE  [s EXCEPT !.et = IF t = 0 THEN Latest(s.et, clock) ELSE t] \in Sessions
        <3>1. s \in Sessions /\ t \in Nat /\ Latest(s.et, clock) \in Nat
            BY StoreAssumption DEF TypeOK, Latest, Sessions
        <3> QED  BY <3>1 DEF Sessions
    <2>2. sessions' \subseteq Sessions
        BY <1>10, <2>1 DEF PostMetrics, TypeOK
    <2> QED  BY <1>10, <2>2 DEF PostMetrics, TypeOK
<1>11. ASSUME NEW o \in Operators, OperatorDraws(o)
       PROVE  TypeOK'
    <2>1. revs' \in Nat
        BY <1>11 DEF OperatorDraws, TypeOK
    <2>2. PICK p \in Players : operator' = [operator EXCEPT ![o] =
                [pc |-> "apply", player |-> p, rev |-> revs']]
        BY <1>11 DEF OperatorDraws
    <2>3. operator' \in [Operators -> OperatorRecords]
        BY <2>1, <2>2 DEF TypeOK, OperatorRecords
    <2> QED  BY <1>11, <2>1, <2>3 DEF OperatorDraws, TypeOK
<1>12. ASSUME NEW o \in Operators, OperatorApplies(o)
       PROVE  TypeOK'
    <2>1. operator[o].rev \in Nat
          /\ [operator[o] EXCEPT !.pc = "idle"] \in OperatorRecords
        BY DEF TypeOK, OperatorRecords
    <2>2. \A s \in sessions :
            /\ [s EXCEPT !.rules = operator[o].rev, !.crev = operator[o].rev] \in Sessions
            /\ [s EXCEPT !.shape = operator[o].rev, !.crev = operator[o].rev] \in Sessions
        BY <2>1 DEF TypeOK, Sessions
    <2>3. sessions' \subseteq Sessions
        <3>1. CASE UNCHANGED sessions
            BY <3>1 DEF TypeOK
        <3>2. ASSUME NEW s \in sessions,
                     NEW t \in {[s EXCEPT !.rules = operator[o].rev, !.crev = operator[o].rev],
                                [s EXCEPT !.shape = operator[o].rev, !.crev = operator[o].rev]},
                     sessions' = (sessions \ {s}) \cup {t}
              PROVE  sessions' \subseteq Sessions
            BY <2>2, <3>2 DEF TypeOK
        <3> QED  BY <1>12, <3>1, <3>2 DEF OperatorApplies, Of
    <2> QED  BY <1>12, <2>1, <2>3 DEF OperatorApplies, TypeOK
<1>13. CASE Delete \/ Clear
    BY <1>13 DEF Delete, Clear, TypeOK
<1>14. ASSUME NEW p \in Players, CreateSynthetic(p)
       PROVE  TypeOK'
    <2>1. claims' \in Nat /\ revs' \in Nat /\ clock \in Nat
        BY <1>14 DEF CreateSynthetic, TypeOK
    <2>2. Placeholder(Allocated, p, claims') \in Sessions
        BY <2>1, AllocatedIsASlot, PlaceholderType
    <2>3. [Placeholder(Allocated, p, claims') EXCEPT !.filled = TRUE, !.crev = revs']
            \in Sessions
        BY <2>1, <2>2 DEF Sessions
    <2>4. heard' \in [Slots -> Nat]
        BY <1>14, <2>1 DEF CreateSynthetic, TypeOK
    <2> QED  BY <1>14, <2>1, <2>3, <2>4 DEF CreateSynthetic, TypeOK
<1>15. CASE Tick
    BY <1>15 DEF Tick, TypeOK
<1> QED
  BY <1>u, <1>1, <1>3, <1>4, <1>5, <1>6, <1>7, <1>8, <1>9, <1>10, <1>11, <1>12,
     
       <1>13, <1>14, <1>15 DEF Next

-------------------------------------------------------------------------------
(***************************************************************************)
(* The invariant: reservations and creations take a slot nobody has, fills *)
(* take away whoever has it, and no other step changes a session's slot.   *)
(***************************************************************************)
LEMMA InitIInv == Init => IInv
<1> SUFFICES ASSUME Init PROVE IInv
    OBVIOUS
<1>1. sessions = {}
    BY DEF Init
<1> QED  BY <1>1, InitType DEF IInv, UniqueSlots, NoLeakedReservation

(* Every step keeps the invariant. *)
LEMMA NextIInv == IInv /\ [Next]_vars => IInv'
<1> SUFFICES ASSUME IInv, [Next]_vars
             PROVE  IInv'
    OBVIOUS
<1> USE DEF IInv
<1>0. TypeOK'
    BY NextType
<1>s. \A s \in sessions : s \in Sessions
    BY DEF TypeOK
<1>a. ASSUME NEW f \in [sessions -> Sessions],
             \A s \in sessions : f[s].id = s.id /\ f[s].filled = s.filled,
             \A t \in sessions' : \E s \in sessions : t = f[s],
             \A c \in Connects : InProgress(c) =>
                InProgress(c)' /\ connect'[c].slot = connect[c].slot
      PROVE  IInv'
    <2>1. UniqueSlots'
        BY <1>a DEF UniqueSlots
    <2>2. NoLeakedReservation'
        BY <1>a DEF NoLeakedReservation
    <2> QED  BY <1>0, <2>1, <2>2
<1>b. ASSUME sessions' \subseteq sessions,
             \A c \in Connects : InProgress(c) =>
                InProgress(c)' /\ connect'[c].slot = connect[c].slot
      PROVE  IInv'
    <2>1. UniqueSlots'
        BY <1>b DEF UniqueSlots
    <2>2. NoLeakedReservation'
        BY <1>b DEF NoLeakedReservation
    <2> QED  BY <1>0, <2>1, <2>2
<1>c. ASSUME NEW t, t.id = Allocated, sessions' = sessions \cup {t},
             Cardinality(sessions) < MaxSessions,
             t.filled \/ \E c \in Connects : InProgress(c)'
             /\ connect'[c].slot = t.id,
             \A c \in Connects : InProgress(c) =>
                InProgress(c)' /\ connect'[c].slot = connect[c].slot
      PROVE  IInv'
    <2>1. At(Allocated) = {}
        BY <1>c, AllocatedIsFree DEF TypeOK
    <2>2. UniqueSlots'
        BY <1>c, <2>1 DEF UniqueSlots, At
    <2>3. NoLeakedReservation'
        BY <1>c DEF NoLeakedReservation
    <2> QED  BY <1>0, <2>2, <2>3
<1>u. CASE UNCHANGED vars
    BY <1>u, <1>b DEF vars, InProgress
<1>1. ASSUME NEW c \in Connects,
             ConnectArrives(c) \/ ConnectLooks(c) \/ ConnectFindsNoSlot(c)
      PROVE  IInv'
    <2>1. connect[c] \in ConnectRecords /\ ~InProgress(c)
        BY <1>1
        DEF ConnectArrives, ConnectLooks, ConnectFindsNoSlot, TypeOK,
            InProgress
    <2>2. \A d \in Connects \ {c} : connect'[d] = connect[d]
        BY <1>1 DEF ConnectArrives, ConnectLooks, ConnectFindsNoSlot, TypeOK
    <2>3. sessions' \subseteq sessions
        BY <1>1 DEF ConnectArrives, ConnectLooks, ConnectFindsNoSlot, Active
    <2> QED  BY <1>b, <2>1, <2>2, <2>3 DEF InProgress
<1>2. ASSUME NEW c \in Connects, ConnectReserves(c)
      PROVE  IInv'
    <2>1. /\ ~InProgress(c) /\ InProgress(c)'
          /\ connect'[c].slot = Allocated
          /\ \A d \in Connects \ {c} : connect'[d] = connect[d]
        BY <1>2 DEF ConnectReserves, TypeOK, ConnectRecords, InProgress
    <2> DEFINE t == Placeholder(Allocated, connect[c].player, claims')
    <2>2. t.id = Allocated /\ sessions' = sessions \cup {t}
        BY <1>2 DEF ConnectReserves, Placeholder
    <2>3. Cardinality(sessions) < MaxSessions
        BY <1>2 DEF ConnectReserves
    <2> HIDE DEF t
    <2> QED  BY <1>c, <2>1, <2>2, <2>3 DEF InProgress
<1>3. ASSUME NEW c \in Connects, ConnectBuilds(c)
      PROVE  IInv'
    <2>1. /\ InProgress(c)' /\ connect'[c].slot = connect[c].slot
          /\ \A d \in Connects \ {c} : connect'[d] = connect[d]
          /\ sessions' = sessions
        BY <1>3 DEF ConnectBuilds, TypeOK, ConnectRecords, InProgress
    <2> QED  BY <1>b, <2>1 DEF InProgress
<1>4. ASSUME NEW c \in Connects, ConnectRejected(c) \/ ConnectFills(c)
      PROVE  IInv'
    <2>1. \A d \in Connects \ {c} : connect'[d] = connect[d]
        BY <1>4 DEF ConnectRejected, ConnectFills, TypeOK
    <2> DEFINE t == Full(connect[c])
    <2>2. t.id = connect[c].slot /\ t.filled
        BY DEF Full
    <2> HIDE DEF t
    <2>3. \/ sessions' = sessions \ At(connect[c].slot)
          \/ sessions' = (sessions \ At(connect[c].slot)) \cup {t}
        BY <1>4 DEF ConnectRejected, ConnectFills, t
    <2>4. UniqueSlots'
        BY <2>2, <2>3 DEF UniqueSlots, At
    <2>5. NoLeakedReservation'
        <3> SUFFICES ASSUME NEW s \in sessions', ~s.filled
                     PROVE  \E d \in Connects : InProgress(d)'
                            /\ connect'[d].slot = s.id
            BY DEF NoLeakedReservation
        <3>1. s \in sessions /\ s.id # connect[c].slot
            BY <2>2, <2>3 DEF At
        <3>2. PICK d \in Connects : InProgress(d) /\ connect[d].slot = s.id
            BY <3>1 DEF NoLeakedReservation
        <3> QED  BY <2>1, <3>1, <3>2 DEF InProgress
    <2> QED  BY <1>0, <2>4, <2>5
<1>5. ASSUME NEW r \in Requests, RequestArrives(r) \/ RequestLooks(r)
      PROVE  IInv'
    BY <1>5, <1>b DEF RequestArrives, RequestLooks, Active, InProgress
<1>6. ASSUME NEW r \in Requests, RequestSaves(r)
      PROVE  IInv'
    <2> DEFINE d == request[r].draft
               f == [s \in sessions |-> IF s.id = d.id /\ ~Stale(s, d)
                                        THEN Merged(s, d) ELSE s]
    <2>1. d \in Sessions
        BY DEF TypeOK, RequestRecords
    <2>2. f \in [sessions -> Sessions]
        BY <1>s, <2>1, MergedType
    <2>3. \A s \in sessions : f[s].id = s.id /\ f[s].filled = s.filled
        BY <1>s DEF Merged, Sessions
    <2>4. \A t \in sessions' : \E s \in sessions : t = f[s]
        BY <1>6 DEF RequestSaves, Saved
    <2>5. connect' = connect
        BY <1>6 DEF RequestSaves
    <2> HIDE DEF f
    <2> QED  BY <1>a, <2>2, <2>3, <2>4, <2>5 DEF InProgress
<1>7. ASSUME NEW i \in Slots, NEW t \in EventTimes, PostMetrics(i, t)
      PROVE  IInv'
    <2> DEFINE et(s) == IF t = 0 THEN Latest(s.et, clock) ELSE t
               f == [s \in sessions |-> IF s.id = i /\ ~(0 < t /\ t < s.et)
                                        THEN [s EXCEPT !.et = et(s)] ELSE s]
    <2>1. \A s \in sessions : s \in Sessions /\ et(s) \in Nat
        BY <1>s, StoreAssumption DEF TypeOK, Latest, Sessions
    <2>2. f \in [sessions -> Sessions]
        BY <2>1 DEF Sessions
    <2>3. \A s \in sessions : f[s].id = s.id /\ f[s].filled = s.filled
        BY <1>s DEF Sessions
    <2>4. \A u \in sessions' : \E s \in sessions : u = f[s]
        BY <1>7 DEF PostMetrics
    <2>5. connect' = connect
        BY <1>7 DEF PostMetrics
    <2> HIDE DEF f
    <2> QED  BY <1>a, <2>2, <2>3, <2>4, <2>5 DEF InProgress
<1>8. ASSUME NEW o \in Operators, OperatorDraws(o)
      PROVE  IInv'
    BY <1>8, <1>b DEF OperatorDraws, InProgress
<1>9. ASSUME NEW o \in Operators, OperatorApplies(o)
      PROVE  IInv'
    <2>0. connect' = connect
        BY <1>9 DEF OperatorApplies
    <2>1. CASE UNCHANGED sessions
        BY <1>b, <2>0, <2>1 DEF InProgress
    <2>2. ASSUME NEW s \in sessions, NEW t, t.id = s.id, t.filled = s.filled,
                 t \in Sessions,
                 sessions' = (sessions \ {s}) \cup {t}
          PROVE  IInv'
        <3> DEFINE f == [u \in sessions |-> IF u = s THEN t ELSE u]
        <3>1. f \in [sessions -> Sessions]
            BY <1>s, <2>2
        <3>2. \A u \in sessions : f[u].id = u.id /\ f[u].filled = u.filled
            BY <2>2
        <3>3. \A v \in sessions' : \E u \in sessions : v = f[u]
            BY <2>2
        <3> HIDE DEF f
        <3> QED  BY <1>a, <2>0, <3>1, <3>2, <3>3 DEF InProgress
    <2> DEFINE n == operator[o].rev
    <2>3. n \in Nat
        BY DEF TypeOK, OperatorRecords
    <2>4. \/ UNCHANGED sessions
          \/ \E s \in sessions :
                \/ sessions' = (sessions \ {s}) \cup {[s EXCEPT !.rules = n, !.crev = n]}
                \/ sessions' = (sessions \ {s}) \cup {[s EXCEPT !.shape = n, !.crev = n]}
        BY <1>9 DEF OperatorApplies, Of
    <2> HIDE DEF n
    <2>5. \A s \in sessions :
            /\ [s EXCEPT !.rules = n, !.crev = n] \in Sessions
            /\ [s EXCEPT !.rules = n, !.crev = n].id = s.id
            /\ [s EXCEPT !.rules = n, !.crev = n].filled = s.filled
            /\ [s EXCEPT !.shape = n, !.crev = n] \in Sessions
            /\ [s EXCEPT !.shape = n, !.crev = n].id = s.id
            /\ [s EXCEPT !.shape = n, !.crev = n].filled = s.filled
        BY <1>s, <2>3 DEF Sessions
    <2> QED  BY <2>1, <2>2, <2>4, <2>5
<1>10. CASE Delete \/ Clear \/ Tick
    BY <1>10, <1>b DEF Delete, Clear, Tick, InProgress
<1>11. ASSUME NEW p \in Players, CreateSynthetic(p)
       PROVE  IInv'
    <2> DEFINE h == Placeholder(Allocated, p, claims')
               t == [h EXCEPT !.filled = TRUE, !.crev = revs']
    <2>1. t.id = Allocated /\ t.filled
        BY DEF Placeholder
    <2>2. sessions' = sessions \cup {t} /\ Cardinality(sessions) < MaxSessions
        BY <1>11 DEF CreateSynthetic
    <2>3. connect' = connect
        BY <1>11 DEF CreateSynthetic
    <2> HIDE DEF t
    <2> QED  BY <1>c, <2>1, <2>2, <2>3 DEF InProgress
<1> QED
  BY <1>u, <1>1, <1>2, <1>3, <1>4, <1>5, <1>6, <1>7, <1>8, <1>9, <1>10, <1>11
  DEF Next

(***************************************************************************)
(* The inductive invariant of the session list.                            *)
(***************************************************************************)
THEOREM Invariance == Spec => []IInv
BY InitIInv, NextIInv, PTL DEF Spec

(***************************************************************************)
(* No two sessions share a slot, hence a port: bootstraps, synthetic       *)
(* creations, removals and saves of stale clones cannot bring that about.  *)
(***************************************************************************)
THEOREM SlotsAreUnique == Spec => []UniqueSlots
BY Invariance, PTL DEF IInv

(***************************************************************************)
(* The list never exceeds maxSessions, although a fill whose reservation   *)
(* has gone appends without counting.                                      *)
(***************************************************************************)
THEOREM Capacity == Spec => [](Cardinality(sessions) <= MaxSessions)
<1>1. IInv => Cardinality(sessions) <= MaxSessions
    BY SlotCount DEF IInv, TypeOK
<1> QED  BY <1>1, Invariance, PTL

(***************************************************************************)
(* A placeholder never outlives the bootstraps that hold its slot.         *)
(***************************************************************************)
THEOREM ReservationsReturn == Spec => []NoLeakedReservation
BY Invariance, PTL DEF IInv

-------------------------------------------------------------------------------
(***************************************************************************)
(* A step that makes no session anew and starts no bootstrap keeps the     *)
(* registrations apart.                                                    *)
(***************************************************************************)
LEMMA ClaimsCarried ==
    ASSUME ClaimsApart, claims' = claims, NEW f,
           \A s \in sessions : /\ f[s].id = s.id /\ f[s].claim = s.claim
                               /\ f[s].filled = s.filled,
           \A t \in sessions' : \E s \in sessions : t = f[s],
           \A c \in Connects : InProgress(c)' =>
              /\ InProgress(c) /\ connect'[c].slot = connect[c].slot
              /\ connect'[c].claim = connect[c].claim
    PROVE  ClaimsApart'
BY DEF ClaimsApart

(* Nor does one that only takes sessions away. *)
LEMMA ClaimsLeft ==
    ASSUME ClaimsApart, claims' = claims, sessions' \subseteq sessions,
           \A c \in Connects : InProgress(c)' =>
              /\ InProgress(c) /\ connect'[c].slot = connect[c].slot
              /\ connect'[c].claim = connect[c].claim
    PROVE  ClaimsApart'
BY DEF ClaimsApart

(* A bootstrap's steps. *)
LEMMA ConnectClaims ==
    ASSUME ClaimsInvariant, NEW c \in Connects,
           \/ ConnectArrives(c) \/ ConnectLooks(c) \/ ConnectFindsNoSlot(c)
           \/ ConnectReserves(c) \/ ConnectBuilds(c) \/ ConnectRejected(c)
           \/ ConnectFills(c)
    PROVE  ClaimsApart'
<1> USE DEF ClaimsInvariant, IInv
<1>t. /\ claims \in Nat /\ connect[c] \in ConnectRecords
      /\ connect \in [Connects -> ConnectRecords]
      /\ \A s \in sessions : s.claim \in Nat
    BY DEF TypeOK, Sessions
<1>0. \A d \in Connects \ {c} : connect'[d] = connect[d]
    BY <1>t
    DEF ConnectArrives, ConnectLooks, ConnectFindsNoSlot, ConnectReserves,
        ConnectBuilds, ConnectRejected, ConnectFills
<1>1. CASE ConnectArrives(c) \/ ConnectLooks(c) \/ ConnectFindsNoSlot(c)
           \/ ConnectRejected(c)
    <2>1. connect'[c].pc \in {"look", "reserve", "done"}
        <3>1. CASE ConnectLooks(c)
            <4>1. \E v \in {"reserve", "done"} :
                    connect' = [connect EXCEPT ![c].pc = v]
                BY <3>1 DEF ConnectLooks
            <4> QED  BY <1>t, <4>1 DEF ConnectRecords
        <3>2. CASE ConnectArrives(c)
            <4>1. PICK p \in Players, config \in BOOLEAN :
                    connect' = [connect EXCEPT ![c].pc = "look", ![c].player = p,
                                               ![c].config = config]
                BY <3>2 DEF ConnectArrives
            <4> QED  BY <1>t, <4>1 DEF ConnectRecords
        <3>3. CASE ConnectFindsNoSlot(c) \/ ConnectRejected(c)
            BY <1>t, <3>3
            DEF ConnectFindsNoSlot, ConnectRejected, ConnectRecords
        <3> QED  BY <1>1, <3>1, <3>2, <3>3
    <2>2. sessions' \subseteq sessions /\ claims' = claims
        BY <1>1
        DEF ConnectArrives, ConnectLooks, ConnectFindsNoSlot, ConnectRejected,
            Active
    <2> QED  BY <1>0, <2>1, <2>2, ClaimsLeft DEF InProgress
<1>2. CASE ConnectBuilds(c)
    <2>1. /\ InProgress(c) /\ connect'[c].slot = connect[c].slot
          /\ connect'[c].claim = connect[c].claim
          /\ sessions' = sessions /\ claims' = claims
        BY <1>t, <1>2 DEF ConnectBuilds, InProgress
    <2> QED  BY <1>0, <2>1, ClaimsLeft DEF InProgress
<1>3. CASE ConnectReserves(c)
    <2> DEFINE t == Placeholder(Allocated, connect[c].player, claims')
    <2>1. /\ t.claim = claims + 1 /\ ~t.filled /\ t.id = Allocated
          /\ sessions' = sessions \cup {t} /\ claims' = claims + 1
        BY <1>3 DEF ConnectReserves, Placeholder
    <2>2. InProgress(c)' /\ connect'[c].slot = Allocated
          /\ connect'[c].claim = claims + 1
        BY <1>t, <1>3 DEF ConnectReserves, InProgress
    <2> HIDE DEF t
    <2>3. \A s \in sessions : s.claim # t.claim
        BY <1>t, <2>1 DEF ClaimsApart
    <2>4. /\ \A s, u \in sessions' : s.claim = u.claim => s = u
          /\ \A s \in sessions' : s.claim <= claims'
        BY <1>t, <2>1, <2>3 DEF ClaimsApart
    <2>5. ASSUME NEW d \in Connects, InProgress(d)', d # c
          PROVE  /\ InProgress(d) /\ connect'[d] = connect[d]
                 /\ connect[d].claim <= claims /\ connect[d].claim \in Nat
        BY <1>t, <1>0, <2>5 DEF InProgress, ClaimsApart, ConnectRecords
    <2>6. ASSUME NEW d \in Connects, InProgress(d)', d # c
          PROVE  /\ connect'[d].claim <= claims'
                 /\ connect'[d].claim # connect'[c].claim
                 /\ \A s \in sessions' : s.claim = connect'[d].claim =>
                        ~s.filled /\ s.id = connect'[d].slot
        BY <1>t, <2>1, <2>2, <2>5, <2>6 DEF ClaimsApart
    <2>7. ASSUME NEW d \in Connects, NEW e \in Connects, InProgress(d)',
                 InProgress(e)', 
                 connect'[d].claim = connect'[e].claim
          PROVE  d = e
        <3>1. CASE d = c \/ e = c
            BY <2>6, <2>7, <3>1
        <3>2. CASE d # c /\ e # c
            BY <2>5, <2>7, <3>2 DEF ClaimsApart
        <3> QED  BY <3>1, <3>2
    <2>8. /\ connect'[c].claim <= claims'
          /\ \A s \in sessions' : s.claim = connect'[c].claim =>
                ~s.filled /\ s.id = connect'[c].slot
        BY <1>t, <2>1, <2>2, <2>3
    <2> QED  BY <2>4, <2>6, <2>7, <2>8 DEF ClaimsApart
<1>4. CASE ConnectFills(c)
    <2> DEFINE t == Full(connect[c])
    <2>1. /\ t.claim = connect[c].claim /\ t.id = connect[c].slot
          /\ sessions' = (sessions \ At(connect[c].slot)) \cup {t}
          /\ claims' = claims
        BY <1>4 DEF ConnectFills, Full
    <2>2. InProgress(c) /\ ~InProgress(c)'
        BY <1>t, <1>4 DEF ConnectFills, InProgress
    <2> HIDE DEF t
    <2>3. \A s \in sessions : s.claim = t.claim => s \in At(connect[c].slot)
        BY <2>1, <2>2 DEF ClaimsApart, At
    <2>4. /\ \A s, u \in sessions' : s.claim = u.claim => s = u
          /\ \A s \in sessions' : s.claim <= claims'
        BY <2>1, <2>2, <2>3 DEF ClaimsApart
    <2>5. ASSUME NEW d \in Connects, InProgress(d)'
          PROVE  /\ InProgress(d) /\ connect'[d] = connect[d] /\ d # c
                 /\ connect[d].claim # t.claim
        BY <1>0, <2>1, <2>2, <2>5 DEF InProgress, ClaimsApart
    <2> QED  BY <2>1, <2>4, <2>5 DEF ClaimsApart
<1> QED  BY <1>1, <1>2, <1>3, <1>4

(* The other steps. *)
LEMMA ClaimsStep == ClaimsInvariant /\ [Next]_vars => ClaimsApart'
<1> SUFFICES ASSUME ClaimsInvariant, [Next]_vars
             PROVE  ClaimsApart'
    OBVIOUS
<1> USE DEF ClaimsInvariant, IInv
<1>t. /\ claims \in Nat /\ sessions \subseteq Sessions
      /\ \A s \in sessions : s.claim \in Nat
      /\ \A c \in Connects : connect[c].claim \in Nat
    BY DEF TypeOK, Sessions, ConnectRecords
<1>1. CASE UNCHANGED vars
    BY <1>1, ClaimsLeft DEF vars, InProgress
<1>2. ASSUME NEW r \in Requests, RequestArrives(r) \/ RequestLooks(r)
      PROVE  ClaimsApart'
    BY <1>2, ClaimsLeft DEF RequestArrives, RequestLooks, Active, InProgress
<1>3. ASSUME NEW r \in Requests, RequestSaves(r)
      PROVE  ClaimsApart'
    <2> DEFINE d == request[r].draft
               f == [s \in sessions |-> IF s.id = d.id /\ ~Stale(s, d)
                                        THEN Merged(s, d) ELSE s]
    <2>1. \A s \in sessions : /\ f[s].id = s.id /\ f[s].claim = s.claim
                              /\ f[s].filled = s.filled
        BY <1>t DEF Merged, Sessions
    <2>2. \A t \in sessions' : \E s \in sessions : t = f[s]
        BY <1>3 DEF RequestSaves, Saved
    <2>3. connect' = connect /\ claims' = claims
        BY <1>3 DEF RequestSaves
    <2> HIDE DEF f
    <2> QED  BY <2>1, <2>2, <2>3, ClaimsCarried DEF InProgress
<1>4. ASSUME NEW i \in Slots, NEW t \in EventTimes, PostMetrics(i, t)
      PROVE  ClaimsApart'
    <2> DEFINE f == [s \in sessions |->
                        IF s.id = i /\ ~(0 < t /\ t < s.et)
                        THEN [s EXCEPT !.et = IF t = 0 THEN Latest(s.et, clock)
                                              ELSE t]
                        ELSE s]
    <2>1. \A s \in sessions : /\ f[s].id = s.id /\ f[s].claim = s.claim
                              /\ f[s].filled = s.filled
        BY <1>t DEF Sessions
    <2>2. \A u \in sessions' : \E s \in sessions : u = f[s]
        BY <1>4 DEF PostMetrics
    <2>3. connect' = connect /\ claims' = claims
        BY <1>4 DEF PostMetrics
    <2> HIDE DEF f
    <2> QED  BY <2>1, <2>2, <2>3, ClaimsCarried DEF InProgress
<1>5. ASSUME NEW o \in Operators, OperatorDraws(o)
      PROVE  ClaimsApart'
    BY <1>5, ClaimsLeft DEF OperatorDraws, InProgress
<1>6. ASSUME NEW o \in Operators, OperatorApplies(o)
      PROVE  ClaimsApart'
    <2>0. connect' = connect /\ claims' = claims
        BY <1>6 DEF OperatorApplies
    <2>1. CASE UNCHANGED sessions
        BY <2>0, <2>1, ClaimsLeft DEF InProgress
    <2>2. ASSUME NEW s \in sessions, NEW t, t.id = s.id, t.filled = s.filled,
                 t.claim = s.claim, sessions' = (sessions \ {s}) \cup {t}
          PROVE  ClaimsApart'
        <3> DEFINE f == [u \in sessions |-> IF u = s THEN t ELSE u]
        <3>1. \A u \in sessions : /\ f[u].id = u.id /\ f[u].claim = u.claim
                                  /\ f[u].filled = u.filled
            BY <2>2
        <3>2. \A v \in sessions' : \E u \in sessions : v = f[u]
            BY <2>2
        <3> HIDE DEF f
        <3> QED  BY <2>0, <3>1, <3>2, ClaimsCarried DEF InProgress
    <2> DEFINE n == operator[o].rev
    <2>3. \/ UNCHANGED sessions
          \/ \E s \in sessions :
                \/ sessions' = (sessions \ {s}) \cup {[s EXCEPT !.rules = n, !.crev = n]}
                \/ sessions' = (sessions \ {s}) \cup {[s EXCEPT !.shape = n, !.crev = n]}
        BY <1>6 DEF OperatorApplies, Of
    <2> HIDE DEF n
    <2>4. \A s \in sessions :
            /\ [s EXCEPT !.rules = n, !.crev = n].id = s.id
            /\ [s EXCEPT !.rules = n, !.crev = n].claim = s.claim
            /\ [s EXCEPT !.rules = n, !.crev = n].filled = s.filled
            /\ [s EXCEPT !.shape = n, !.crev = n].id = s.id
            /\ [s EXCEPT !.shape = n, !.crev = n].claim = s.claim
            /\ [s EXCEPT !.shape = n, !.crev = n].filled = s.filled
        BY <1>t DEF Sessions
    <2> QED  BY <2>1, <2>2, <2>3, <2>4
<1>7. CASE Delete \/ Clear \/ Tick
    BY <1>7, ClaimsLeft DEF Delete, Clear, Tick, InProgress
<1>8. ASSUME NEW p \in Players, CreateSynthetic(p)
      PROVE  ClaimsApart'
    <2> DEFINE h == Placeholder(Allocated, p, claims')
               t == [h EXCEPT !.filled = TRUE, !.crev = revs']
    <2>1. t.claim = claims + 1 /\ claims' = claims + 1
        BY <1>8 DEF CreateSynthetic, Placeholder
    <2>2. sessions' = sessions \cup {t} /\ connect' = connect
        BY <1>8 DEF CreateSynthetic
    <2> HIDE DEF t
    <2>3. /\ \A s \in sessions : s.claim # t.claim
          /\ \A c \in Connects : InProgress(c) => connect[c].claim # t.claim
        BY <1>t, <2>1 DEF ClaimsApart
    <2> QED  BY <1>t, <2>1, <2>2, <2>3 DEF ClaimsApart, InProgress
<1> QED
  BY <1>1, <1>2, <1>3, <1>4, <1>5, <1>6, <1>7, <1>8, ConnectClaims DEF Next

LEMMA InitClaims == Init => ClaimsInvariant
<1> SUFFICES ASSUME Init PROVE ClaimsInvariant
    OBVIOUS
<1>1. sessions = {} /\ \A c \in Connects : connect[c].pc = "arrive"
    BY DEF Init
<1> QED  BY <1>1, InitIInv DEF ClaimsInvariant, ClaimsApart, InProgress

LEMMA NextClaims == ClaimsInvariant /\ [Next]_vars => ClaimsInvariant'
BY NextIInv, ClaimsStep DEF ClaimsInvariant

(***************************************************************************)
(* A registration is one session's: two sessions of the list never come    *)
(* from the same one, and none is filled that a bootstrap still has to     *)
(* fill (fillReservedSession, allocateSessionNumber).                      *)
(***************************************************************************)
THEOREM ClaimsAreApart == Spec => []ClaimsInvariant
BY InitClaims, NextClaims, PTL DEF Spec

(***************************************************************************)
(* The three ways a step changes a session that is filled: a request saves *)
(* its clone over it, the player reports, an operator's write applies.     *)
(***************************************************************************)
SavedOver(s, t) ==
    \E r \in Requests :
        /\ Holds(r)
        /\ s.id = request[r].draft.id
        /\ ~Stale(s, request[r].draft)
        /\ t = Merged(s, request[r].draft)

ReportedOn(s, t) ==
    \E e \in EventTimes :
        /\ ~(0 < e /\ e < s.et)
        /\ t = [s EXCEPT !.et = IF e = 0 THEN Latest(s.et, clock) ELSE e]

WrittenBy(o, s, t) ==
    /\ operator[o].pc = "apply"
    /\ operator'[o].pc = "idle"
    /\ \/ t = [s EXCEPT !.rules = operator[o].rev, !.crev = operator[o].rev]
       \/ t = [s EXCEPT !.shape = operator[o].rev, !.crev = operator[o].rev]

WrittenTo(s, t) == \E o \in Operators : WrittenBy(o, s, t)

(***************************************************************************)
(* What a step makes of a session that is filled: with its registration    *)
(* known to be its own, no other kind of step changes it.                  *)
(***************************************************************************)
LEMMA WhatBecomes ==
    ASSUME ClaimsInvariant, [Next]_vars, NEW s \in sessions,
           NEW t \in sessions', 
           SameSession(s, t)
    PROVE  t = s \/ SavedOver(s, t) \/ ReportedOn(s, t) \/ WrittenTo(s, t)
<1> USE DEF ClaimsInvariant, IInv
<1>t. /\ claims \in Nat /\ sessions \subseteq Sessions
      /\ \A u \in sessions : u.claim \in Nat /\ u.claim <= claims
    BY DEF TypeOK, Sessions, ClaimsApart
<1>s. \A u \in sessions : u.claim = t.claim => u = s
    BY DEF ClaimsApart, SameSession
<1>1. CASE t \in sessions
    BY <1>1, <1>s
<1>2. ASSUME NEW c \in Connects, ConnectFills(c), t = Full(connect[c])
      PROVE  FALSE
    <2>1. t.claim = connect[c].claim /\ InProgress(c)
        BY <1>2 DEF Full, ConnectFills, InProgress
    <2> QED  BY <2>1 DEF ClaimsApart, SameSession
<1>3. ASSUME NEW c \in Connects, ConnectReserves(c),
             t = Placeholder(Allocated, connect[c].player, claims')
      PROVE  FALSE
    <2>1. t.claim = claims + 1
        BY <1>3 DEF Placeholder, ConnectReserves
    <2> QED  BY <1>t, <2>1 DEF SameSession
<1>4. ASSUME NEW p \in Players, CreateSynthetic(p), t \notin sessions
      PROVE  FALSE
    <2>1. t.claim = claims + 1
        BY <1>4 DEF Placeholder, CreateSynthetic
    <2> QED  BY <1>t, <2>1 DEF SameSession
<1>5. ASSUME NEW r \in Requests, RequestSaves(r), t \notin sessions
      PROVE  SavedOver(s, t)
    <2> DEFINE d == request[r].draft
    <2>1. PICK u \in sessions : u.id = d.id /\ ~Stale(u, d) /\ t = Merged(u, d)
        BY <1>5 DEF RequestSaves, Saved
    <2>2. t.claim = u.claim
        BY <1>t, <2>1 DEF Merged, Sessions
    <2> QED  BY <1>5, <1>s, <2>1, <2>2 DEF Holds, RequestSaves, SavedOver
<1>6. ASSUME NEW i \in Slots, NEW e \in EventTimes, PostMetrics(i, e),
             t \notin sessions
      PROVE  ReportedOn(s, t)
    <2>1. PICK u \in sessions :
            /\ ~(0 < e /\ e < u.et)
            /\ t = [u EXCEPT !.et = IF e = 0 THEN Latest(u.et, clock) ELSE e]
        BY <1>6 DEF PostMetrics
    <2>2. t.claim = u.claim
        BY <1>t, <2>1 DEF Sessions
    <2> QED  BY <1>s, <2>1, <2>2 DEF ReportedOn
<1>7. ASSUME NEW o \in Operators, OperatorApplies(o), t \notin sessions
      PROVE  WrittenTo(s, t)
    <2> DEFINE n == operator[o].rev
    <2>1. PICK u \in sessions : t \in {[u EXCEPT !.rules = n, !.crev = n],
                                       [u EXCEPT !.shape = n, !.crev = n]}
        BY <1>7 DEF OperatorApplies, Of
    <2>2. t.claim = u.claim
        BY <1>t, <2>1 DEF Sessions
    <2>3. operator[o].pc = "apply" /\ operator'[o].pc = "idle"
        BY <1>7 DEF OperatorApplies, TypeOK, OperatorRecords
    <2> QED  BY <1>s, <2>1, <2>2, <2>3 DEF WrittenTo, WrittenBy
<1>8. ASSUME t \notin sessions
      PROVE  \/ \E r \in Requests : RequestSaves(r)
             \/ \E i \in Slots, e \in EventTimes : PostMetrics(i, e)
             \/ \E o \in Operators : OperatorApplies(o)
             \/ \E p \in Players : CreateSynthetic(p)
             \/ \E c \in Connects : ConnectReserves(c)
                                    /\ t = Placeholder(Allocated, connect[c].player, claims')
             \/ \E c \in Connects : ConnectFills(c) /\ t = Full(connect[c])
    BY <1>8
    DEF Next, vars, ConnectArrives, ConnectLooks, ConnectFindsNoSlot,
        ConnectReserves, ConnectBuilds, ConnectRejected, ConnectFills,
        RequestArrives, RequestLooks, OperatorDraws, Delete, Clear, Tick,
        Active
<1> QED  BY <1>1, <1>2, <1>3, <1>4, <1>5, <1>6, <1>7, <1>8

(***************************************************************************)
(* No save of a stale clone and no late report of a player moves the       *)
(* event time of a session back (isStalePlayerMetricsUpdate).              *)
(***************************************************************************)
THEOREM EventTimesGoForward == Spec => EventTimeForward
<1> DEFINE Forward ==
             \A s \in sessions, t \in sessions' : SameSession(s, t)
               => s.et <= t.et
<1>1. ASSUME ClaimsInvariant, [Next]_vars, NEW s \in sessions,
             NEW t \in sessions', 
             SameSession(s, t)
      PROVE  s.et <= t.et
    <2>1. s \in Sessions /\ clock \in Nat /\ EventTimes \subseteq Nat
        BY <1>1, StoreAssumption DEF ClaimsInvariant, IInv, TypeOK
    <2>2. CASE SavedOver(s, t)
        <3>1. PICK r \in Requests : ~Stale(s, request[r].draft)
                                    /\ t = Merged(s, request[r].draft)
            BY <2>2 DEF SavedOver
        <3>2. request[r].draft \in Sessions
            BY <1>1 DEF ClaimsInvariant, IInv, TypeOK, RequestRecords
        <3>3. t.et = IF request[r].draft.et = 0 THEN Latest(s.et, clock)
                     ELSE request[r].draft.et
            BY <2>1, <3>1 DEF Merged, Sessions
        <3> QED  BY <2>1, <3>1, <3>2, <3>3 DEF Stale, Latest, Sessions
    <2>3. CASE ReportedOn(s, t)
        <3>1. PICK e \in EventTimes :
                /\ ~(0 < e /\ e < s.et)
                /\ t.et = IF e = 0 THEN Latest(s.et, clock) ELSE e
            BY <2>1, <2>3 DEF ReportedOn, Sessions
        <3> QED  BY <2>1, <3>1 DEF Latest, Sessions
    <2>4. CASE WrittenTo(s, t)
        <3>1. t.et = s.et
            BY <2>1, <2>4 DEF WrittenTo, WrittenBy, Sessions
        <3> QED  BY <2>1, <3>1 DEF Sessions
    <2>5. CASE t = s
        BY <2>1, <2>5 DEF Sessions
    <2> QED  BY <1>1, <2>2, <2>3, <2>4, <2>5, WhatBecomes
<1>2. ClaimsInvariant /\ [Next]_vars => [Forward]_vars
    BY <1>1
<1> QED  BY <1>2, ClaimsAreApart, PTL DEF Spec, EventTimeForward

-------------------------------------------------------------------------------
(***************************************************************************)
(* The settings copySessionControlState protects.                          *)
(***************************************************************************)
ShapeParts == RevisionsDrawn /\ ClonesAgree /\ WriteIsNewest

(* The types this part needs. *)
LEMMA ShapeTypes ==
    ASSUME ClaimsInvariant
    PROVE  /\ revs \in Nat /\ clock \in Nat
           /\ sessions \subseteq Sessions
           /\ \A s \in sessions : s.crev \in Nat /\ s.shape \in Nat
           /\ request \in [Requests -> RequestRecords]
           /\ \A r \in Requests : /\ request[r].draft \in Sessions
                                  /\ request[r].draft.crev \in Nat
           /\ operator \in [Operators -> OperatorRecords]
           /\ \A o \in Operators : operator[o].rev \in Nat
BY DEF ClaimsInvariant, IInv, TypeOK, Sessions, RequestRecords, OperatorRecords

(* A step that makes no session or clone newer and changes no shape. *)
LEMMA ShapeCarried ==
    ASSUME ClaimsInvariant, ShapeParts, revs <= revs', revs' \in Nat,
           \A t \in sessions' : \E s \in sessions :
              t.id = s.id /\ t.crev = s.crev /\ t.shape = s.shape,
           \A r \in Requests : Holds(r)' =>
              Holds(r) /\ request'[r].draft = request[r].draft,
           \A o \in Operators : operator'[o].pc = "apply" =>
              operator[o].pc = "apply" /\ operator'[o].rev = operator[o].rev
    PROVE  ShapeParts'
<1>1. RevisionsDrawn'
    BY ShapeTypes DEF ShapeParts, RevisionsDrawn
<1>2. ClonesAgree'
    BY DEF ShapeParts, ClonesAgree
<1>3. WriteIsNewest'
    BY DEF ShapeParts, WriteIsNewest, At
<1> QED  BY <1>1, <1>2, <1>3 DEF ShapeParts

(* A save changes the shape of no session: what it may write, it has. *)
LEMMA SaveKeepsShape ==
    ASSUME ClaimsInvariant, ShapeParts, NEW r \in Requests, Holds(r),
           NEW s \in sessions, s.id = request[r].draft.id
    PROVE  /\ Merged(s, request[r].draft).id = s.id
           /\ Merged(s, request[r].draft).shape = s.shape
           /\ Merged(s, request[r].draft).crev =
                  IF s.crev > request[r].draft.crev THEN s.crev
                  ELSE request[r].draft.crev
<1> DEFINE d == request[r].draft
<1>1. s \in Sessions /\ s.crev \in Nat /\ d.crev \in Nat
    BY ShapeTypes
<1>2. ~(s.crev > d.crev) => d.shape = 0 \/ d.shape = s.shape
    BY <1>1 DEF ShapeParts, ClonesAgree
<1>3. /\ Merged(s, d).id = s.id
      /\ Merged(s, d).shape = IF s.crev > d.crev THEN s.shape
                              ELSE Overlay(s.shape, d.shape)
      /\ Merged(s, d).crev = IF s.crev > d.crev THEN s.crev ELSE d.crev
    BY <1>1 DEF Merged, Sessions
<1> QED  BY <1>2, <1>3 DEF Overlay

(* A request. *)
LEMMA RequestShape ==
    ASSUME ClaimsInvariant, ShapeParts, NEW r \in Requests,
           RequestArrives(r) \/ RequestLooks(r) \/ RequestSaves(r)
    PROVE  ShapeParts'
<1>t. /\ revs \in Nat /\ sessions \subseteq Sessions
      /\ \A s \in sessions : s.crev \in Nat /\ s.shape \in Nat
      /\ request \in [Requests -> RequestRecords]
      /\ \A q \in Requests : request[q].draft.crev \in Nat
      /\ \A o \in Operators : operator[o].rev \in Nat
    BY ShapeTypes
<1>0. revs' = revs /\ operator' = operator
    BY DEF RequestArrives, RequestLooks, RequestSaves
<1>1. CASE RequestArrives(r)
    <2>1. /\ sessions' \subseteq sessions
          /\ request' = [request EXCEPT ![r].pc = "look"]
        BY <1>1 DEF RequestArrives, Active
    <2>2. \A q \in Requests : Holds(q)' => Holds(q) /\ request'[q] = request[q]
        BY <1>t, <2>1 DEF Holds, RequestRecords
    <2> QED  BY <1>t, <1>0, <2>1, <2>2, ShapeCarried
<1>2. CASE RequestLooks(r)
    <2>0. sessions' = sessions
        BY <1>2 DEF RequestLooks
    <2>1. CASE request' = [request EXCEPT ![r].pc = "done"]
        <3>1. \A q \in Requests : Holds(q)' => Holds(q)
              /\ request'[q] = request[q]
            BY <1>t, <2>1 DEF Holds, RequestRecords
        <3> QED  BY <1>t, <1>0, <2>0, <3>1, ShapeCarried
    <2>2. ASSUME NEW s \in sessions,
                 request' = [request EXCEPT ![r] =
                    [pc |-> "locked",
                     draft |-> [s EXCEPT !.last = clock, !.origin = TRUE]]]
          PROVE  ShapeParts'
        <3> DEFINE d == request'[r].draft
        <3>1. d.id = s.id /\ d.crev = s.crev /\ d.shape = s.shape
            BY <1>t, <2>2 DEF Sessions
        <3>2. \A q \in Requests : q # r => request'[q] = request[q]
            BY <1>t, <2>2
        <3>3. \A t \in sessions : t.id = d.id => t = s
            BY <3>1 DEF ClaimsInvariant, IInv, UniqueSlots
        <3>4. RevisionsDrawn'
            BY <1>0, <2>0, <3>1, <3>2 DEF ShapeParts, RevisionsDrawn, Holds
        <3>5. ClonesAgree'
            BY <2>0, <3>1, <3>2, <3>3 DEF ShapeParts, ClonesAgree, Holds
        <3>6. WriteIsNewest'
            BY <1>0, <2>0, <3>1, <3>2, <3>3
            DEF ShapeParts, WriteIsNewest, Holds, At
        <3> QED  BY <3>4, <3>5, <3>6 DEF ShapeParts
    <2> QED  BY <1>2, <2>1, <2>2 DEF RequestLooks, At
<1>3. CASE RequestSaves(r)
    <2> DEFINE d == request[r].draft
    <2>0. Holds(r) /\ d.crev \in Nat
        BY <1>t, <1>3 DEF RequestSaves, Holds
    <2>1. \A q \in Requests : Holds(q)' => Holds(q)
          /\ request'[q].draft = request[q].draft
        BY <1>t, <1>3 DEF RequestSaves, Holds, RequestRecords
    <2>2. ASSUME NEW t \in sessions'
          PROVE  \E s \in sessions :
                    /\ t.id = s.id /\ t.shape = s.shape
                    /\ \/ t.crev = s.crev
                       \/ (s.id = d.id /\ s.crev <= d.crev /\ t.crev = d.crev)
        <3>1. PICK s \in sessions :
                t = s \/ (s.id = d.id /\ t = Merged(s, d))
            BY <1>3, <2>2 DEF RequestSaves, Saved
        <3> QED  BY <1>t, <2>0, <3>1, SaveKeepsShape
    <2>3. RevisionsDrawn'
        BY <1>0, <2>0, <2>1, <2>2 DEF ShapeParts, RevisionsDrawn
    <2>4. ClonesAgree'
        <3> SUFFICES ASSUME NEW q \in Requests, Holds(q), NEW t \in sessions',
                            request[q].draft.id = t.id, t.crev <= request[q].draft.crev,
                            request[q].draft.shape # 0
                     PROVE  request[q].draft.shape = t.shape
            BY <2>1 DEF ClonesAgree
        <3>1. PICK s \in sessions :
                /\ t.id = s.id /\ t.shape = s.shape
                /\ t.crev = s.crev \/ (s.crev <= d.crev /\ t.crev = d.crev)
            BY <2>2
        <3>2. s.crev <= request[q].draft.crev
            BY <1>t, <2>0, <3>1
        <3> QED  BY <3>1, <3>2 DEF ShapeParts, ClonesAgree
    <2>5. WriteIsNewest'
        <3> SUFFICES
                ASSUME NEW o \in Operators, operator[o].pc = "apply"
                PROVE  /\ \A t \in sessions' : operator[o].rev <= t.crev => t.shape = 0
                       /\ \A q \in Requests :
                            Holds(q) /\ operator[o].rev <= request[q].draft.crev =>
                                /\ request[q].draft.shape = 0
                                /\ \A t \in sessions' :
                                    t.id = request[q].draft.id => operator[o].rev <= t.crev
            BY <1>0, <2>1 DEF WriteIsNewest, At
        <3> DEFINE n == operator[o].rev
        <3>1. /\ n \in Nat
              /\ \A s \in sessions : n <= s.crev => s.shape = 0
              /\ \A q \in Requests : Holds(q) /\ n <= request[q].draft.crev =>
                    /\ request[q].draft.shape = 0
                    /\ \A s \in sessions : s.id = request[q].draft.id
                         => n <= s.crev
            BY <1>t DEF ShapeParts, WriteIsNewest, At
        <3> HIDE DEF n
        <3>2. \A t \in sessions' : n <= t.crev => t.shape = 0
            BY <1>t, <2>0, <2>2, <3>1
        <3>3. ASSUME NEW q \in Requests, Holds(q), n <= request[q].draft.crev,
                     NEW t \in sessions', t.id = request[q].draft.id
              PROVE  n <= t.crev
            <4>1. PICK s \in sessions :
                    /\ s.id = t.id
                    /\ t.crev = s.crev \/ (s.crev <= d.crev /\ t.crev = d.crev)
                BY <2>2
            <4>2. n <= s.crev
                BY <3>1, <3>3, <4>1
            <4> QED  BY <1>t, <2>0, <3>1, <4>1, <4>2
        <3> QED  BY <3>1, <3>2, <3>3 DEF n
    <2> QED  BY <2>3, <2>4, <2>5 DEF ShapeParts
<1> QED  BY <1>1, <1>2, <1>3

(* An operator: the only one, so no other write is under way. *)
LEMMA OperatorShape ==
    ASSUME ClaimsInvariant, ShapeParts, OneOperator, NEW o \in Operators,
           OperatorDraws(o) \/ OperatorApplies(o)
    PROVE  ShapeParts'
<1>t. /\ revs \in Nat /\ sessions \subseteq Sessions
      /\ \A s \in sessions : s.crev \in Nat /\ s.shape \in Nat
      /\ \A q \in Requests : request[q].draft.crev \in Nat
      /\ operator \in [Operators -> OperatorRecords]
      /\ operator[o].rev \in Nat
    BY ShapeTypes
<1>1. request' = request /\ \A p \in Operators : p = o
    BY DEF OperatorDraws, OperatorApplies, OneOperator
<1>2. CASE OperatorDraws(o)
    <2>1. /\ revs' = revs + 1 /\ sessions' = sessions
          /\ operator'[o].rev = revs + 1
        BY <1>t, <1>2 DEF OperatorDraws
    <2>2. RevisionsDrawn' /\ ClonesAgree'
        BY <1>t, <1>1, <2>1 DEF ShapeParts, RevisionsDrawn, ClonesAgree, Holds
    <2>3. WriteIsNewest'
        BY <1>t, <1>1, <2>1
        DEF ShapeParts, RevisionsDrawn, WriteIsNewest, Holds
    <2> QED  BY <2>2, <2>3 DEF ShapeParts
<1>3. CASE OperatorApplies(o)
    <2> DEFINE n == operator[o].rev
    <2>1. /\ revs' = revs /\ operator[o].pc = "apply"
             /\ operator'[o].pc = "idle"
        BY <1>t, <1>3 DEF OperatorApplies, OperatorRecords
    <2>2. n <= revs
        BY <2>1 DEF ShapeParts, RevisionsDrawn
    <2>3. WriteIsNewest'
        BY <1>1, <2>1 DEF WriteIsNewest
    <2>4. CASE UNCHANGED sessions
        BY <1>t, <1>1, <2>1, <2>4, ShapeCarried DEF Holds
    <2>5. ASSUME NEW s \in sessions, NEW t, t.id = s.id, t.crev = n,
                 sessions' = (sessions \ {s}) \cup {t}
          PROVE  ShapeParts'
        <3>1. RevisionsDrawn'
            BY <1>1, <2>1, <2>2, <2>5 DEF ShapeParts, RevisionsDrawn, Holds
        <3>2. ASSUME NEW r \in Requests, Holds(r), n <= request[r].draft.crev
              PROVE  request[r].draft.shape = 0
            BY <2>1, <3>2 DEF ShapeParts, WriteIsNewest
        <3>3. ClonesAgree'
            BY <1>1, <2>5, <3>2 DEF ShapeParts, ClonesAgree, Holds
        <3> QED  BY <2>3, <3>1, <3>3 DEF ShapeParts
    <2>6. \A s \in sessions :
            /\ [s EXCEPT !.rules = n, !.crev = n].id = s.id
            /\ [s EXCEPT !.rules = n, !.crev = n].crev = n
            /\ [s EXCEPT !.shape = n, !.crev = n].id = s.id
            /\ [s EXCEPT !.shape = n, !.crev = n].crev = n
        BY <1>t DEF Sessions
    <2>7. \/ UNCHANGED sessions
          \/ \E s \in sessions :
                \/ sessions' = (sessions \ {s}) \cup {[s EXCEPT !.rules = n, !.crev = n]}
                \/ sessions' = (sessions \ {s}) \cup {[s EXCEPT !.shape = n, !.crev = n]}
        BY <1>3 DEF OperatorApplies, Of
    <2> HIDE DEF n
    <2> QED  BY <2>4, <2>5, <2>6, <2>7
<1> QED  BY <1>2, <1>3

(* A synthetic session is newer than every write and every clone. *)
LEMMA SyntheticShape ==
    ASSUME ClaimsInvariant, ShapeParts, NEW p \in Players, CreateSynthetic(p)
    PROVE  ShapeParts'
<1>t. /\ revs \in Nat /\ sessions \subseteq Sessions
      /\ \A s \in sessions : s.crev \in Nat /\ s.shape \in Nat
      /\ \A q \in Requests : request[q].draft.crev \in Nat
      /\ \A o \in Operators : operator[o].rev \in Nat
    BY ShapeTypes
<1> DEFINE t == [Placeholder(Allocated, p, claims') EXCEPT !.filled = TRUE, !.crev = revs']
<1>1. t.crev = revs + 1 /\ t.shape = 0 /\ revs' = revs + 1
    BY DEF CreateSynthetic, Placeholder
<1>2. sessions' = sessions \cup {t} /\ request' = request
      /\ operator' = operator
    BY DEF CreateSynthetic
<1> HIDE DEF t
<1>3. RevisionsDrawn'
    BY <1>t, <1>1, <1>2 DEF ShapeParts, RevisionsDrawn, Holds
<1>4. ClonesAgree'
    BY <1>t, <1>1, <1>2 DEF ShapeParts, ClonesAgree, RevisionsDrawn, Holds
<1>5. WriteIsNewest'
    BY <1>t, <1>1, <1>2
    DEF ShapeParts, WriteIsNewest, RevisionsDrawn, Holds, At
<1> QED  BY <1>3, <1>4, <1>5 DEF ShapeParts

(* Every step; without Connects there is no bootstrap. *)
LEMMA ShapeStep ==
    ASSUME ClaimsInvariant, ShapeParts, OneOperator, [Next]_vars
    PROVE  ShapeParts'
<1>t. revs \in Nat /\ sessions \subseteq Sessions
    BY ShapeTypes
<1>1. CASE UNCHANGED vars
    BY <1>t, <1>1, ShapeCarried DEF vars, Holds
<1>2. ASSUME NEW i \in Slots, NEW e \in EventTimes, PostMetrics(i, e)
      PROVE  ShapeParts'
    <2>1. revs' = revs /\ request' = request /\ operator' = operator
        BY <1>2 DEF PostMetrics
    <2>2. ASSUME NEW t \in sessions'
          PROVE  \E s \in sessions : t.id = s.id /\ t.crev = s.crev
                 /\ t.shape = s.shape
        <3>1. PICK s \in sessions :
                t = s
                \/ t = [s EXCEPT !.et = IF e = 0 THEN Latest(s.et, clock) ELSE e]
            BY <1>2, <2>2 DEF PostMetrics
        <3> QED  BY <1>t, <3>1 DEF Sessions
    <2> QED  BY <1>t, <2>1, <2>2, ShapeCarried DEF Holds
<1>3. CASE Delete \/ Clear \/ Tick
    <2>1. /\ revs' = revs /\ request' = request /\ operator' = operator
          /\ sessions' \subseteq sessions
        BY <1>3 DEF Delete, Clear, Tick
    <2> QED  BY <1>t, <2>1, ShapeCarried DEF Holds
<1> QED
  BY <1>1, <1>2, <1>3, RequestShape, OperatorShape, SyntheticShape
  DEF Next, OneOperator

(***************************************************************************)
(* With one control plane, the shaping settings an operator sets stay      *)
(* until an operator changes them (copySessionControlState).  A second     *)
(* operator, or a bootstrap that fills a slot with a revision drawn        *)
(* before, can make a stale clone look new: the assumption is needed.      *)
(***************************************************************************)
THEOREM ShapeStays ==
    ASSUME OneOperator
    PROVE  Spec => []ShapeInvariant /\ ShapeSettingsStick
<1> DEFINE Written == \E o \in Operators :
                        operator[o].pc = "apply" /\ operator'[o].pc = "idle"
           Stick == \A s \in sessions, t \in sessions' :
                        SameSession(s, t) /\ s.shape # t.shape => Written
<1>1. Init => ShapeInvariant
    <2> SUFFICES ASSUME Init PROVE ShapeInvariant
        OBVIOUS
    <2>1. /\ sessions = {}
          /\ \A r \in Requests : request[r].pc = "arrive"
          /\ \A o \in Operators : operator[o].pc = "idle"
        BY DEF Init
    <2> QED
      BY <2>1, InitClaims
      DEF ShapeInvariant, RevisionsDrawn, ClonesAgree, WriteIsNewest, Holds
<1>2. ShapeInvariant /\ [Next]_vars => ShapeInvariant'
    BY NextClaims, ShapeStep DEF ShapeInvariant, ShapeParts
<1>3. ASSUME ShapeInvariant, [Next]_vars, NEW s \in sessions,
             NEW t \in sessions', 
             SameSession(s, t), s.shape # t.shape
      PROVE  Written
    <2>1. ClaimsInvariant /\ ShapeParts /\ s \in Sessions
        BY <1>3, ShapeTypes DEF ShapeInvariant, ShapeParts
    <2>2. ~SavedOver(s, t)
        BY <1>3, <2>1, SaveKeepsShape DEF SavedOver
    <2>3. ~ReportedOn(s, t)
        BY <1>3, <2>1 DEF ReportedOn, Sessions
    <2>4. WrittenTo(s, t)
        BY <1>3, <2>1, <2>2, <2>3, WhatBecomes
    <2> QED  BY <2>4 DEF WrittenTo, WrittenBy
<1>4. ShapeInvariant /\ [Next]_vars => [Stick]_vars
    BY <1>3
<1> QED  BY <1>1, <1>2, <1>4, PTL DEF Spec, ShapeSettingsStick
===============================================================================
