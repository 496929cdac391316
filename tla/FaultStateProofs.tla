-------------------------- MODULE FaultStateProofs --------------------------
(***************************************************************************)
(* Proofs about FaultState, for any number of requests, metrics POSTs and  *)
(* PATCHes, any rule that counts in requests and any event times.          *)
(***************************************************************************)
EXTENDS FaultState, TLAPS

(***************************************************************************)
(* What a clone of the published session, and the heap with it, are.       *)
(***************************************************************************)
LEMMA CloneFacts ==
    ASSUME TypeOK, MapsExist
    PROVE  /\ Cloned(snap) \in Sessions
           /\ Cloned(snap).ver = snap.ver
           /\ Cloned(snap).arm = snap.arm
           /\ Cloned(snap).map = 0 <=> snap.map = 0
           /\ HeapWithClone(snap) \in Seq(RuleStates)
           /\ Len(HeapWithClone(snap)) >= Len(heap)
           /\ Cloned(snap).map <= Len(HeapWithClone(snap))
           /\ snap.map = 0 => HeapWithClone(snap) = heap
           /\ \A i \in 1..Len(HeapWithClone(snap)) :
                \E j \in 1..Len(heap) : HeapWithClone(snap)[i] = heap[j]
<1>1. /\ snap \in Sessions /\ snap.map \in Nat /\ snap.map <= Len(heap)
      /\ heap \in Seq(RuleStates) /\ Len(heap) \in Nat
    BY DEF TypeOK, MapsExist, Sessions
<1>2. CASE snap.map = 0
    BY <1>1, <1>2 DEF Cloned, HeapWithClone, Sessions
<1>3. CASE snap.map # 0
    <2>1. snap.map \in 1..Len(heap) /\ heap[snap.map] \in RuleStates
        BY <1>1, <1>3
    <2>2. /\ HeapWithClone(snap) = Append(heap, heap[snap.map])
          /\ Cloned(snap) = [snap EXCEPT !.map = Len(heap) + 1]
        BY <1>3 DEF HeapWithClone, Cloned, Place
    <2>3. /\ Append(heap, heap[snap.map]) \in Seq(RuleStates)
          /\ Len(Append(heap, heap[snap.map])) = Len(heap) + 1
          /\ \A i \in 1..Len(heap) : Append(heap, heap[snap.map])[i] = heap[i]
          /\ Append(heap, heap[snap.map])[Len(heap) + 1] = heap[snap.map]
        BY <1>1, <2>1
    <2>4. Cloned(snap) \in Sessions
        BY <2>2, <1>1 DEF Sessions
    <2>5. /\ Cloned(snap).ver = snap.ver /\ Cloned(snap).arm = snap.arm
          /\ Cloned(snap).map = Len(heap) + 1
        BY <2>2, <1>1 DEF Sessions
    <2>6. \A i \in 1..Len(HeapWithClone(snap)) :
            \E j \in 1..Len(heap) : HeapWithClone(snap)[i] = heap[j]
        <3> SUFFICES ASSUME NEW i \in 1..Len(HeapWithClone(snap))
                     PROVE  \E j \in 1..Len(heap) : HeapWithClone(snap)[i] = heap[j]
            OBVIOUS
        <3>1. i \in 1..Len(heap) \/ i = Len(heap) + 1
            BY <1>1, <2>2, <2>3
        <3> QED
            BY <3>1, <2>1, <2>2, <2>3
    <2>7. /\ HeapWithClone(snap) \in Seq(RuleStates)
          /\ Len(HeapWithClone(snap)) = Len(heap) + 1
        BY <2>2, <2>3
    <2> QED
        BY <1>1, <1>3, <2>4, <2>5, <2>6, <2>7
<1> QED
    BY <1>2, <1>3

(***************************************************************************)
(* What a save attempts to publish.                                        *)
(***************************************************************************)
LEMMA MergeFacts ==
    ASSUME TypeOK, MapsExist, NEW d \in Sessions, d.map <= Len(heap), NEW t \in Nat
    PROVE  LET h == IF d.map = 0 THEN HeapWithClone(snap) ELSE heap
               m == Merged(snap, d, t)
           IN  /\ m \in Sessions
               /\ m.ver = snap.ver
               /\ m.arm = d.arm
               /\ m.map = 0 => snap.map = 0
               /\ d.map # 0 => m.map = d.map
               /\ m.map <= Len(h)
<1>1. /\ Cloned(snap) \in Sessions
      /\ d.ver \in Nat /\ d.arm \in Arms /\ d.map \in Nat /\ d.et \in Nat /\ d.tally \in Nat
    BY CloneFacts DEF Sessions
<1>2. Cloned(snap).et \in Nat /\ Latest(Cloned(snap).et, t) \in Nat
    BY <1>1 DEF Sessions, Latest
<1> DEFINE e == IF d.et = 0 THEN Latest(Cloned(snap).et, t) ELSE d.et
<1>3. e \in Nat
    BY <1>1, <1>2
<1>4. Merged(snap, d, t) =
        [Cloned(snap) EXCEPT !.arm = d.arm, !.tally = d.tally,
            !.map = IF d.map = 0 THEN Cloned(snap).map ELSE d.map, !.et = e]
    BY DEF Merged
<1> HIDE DEF e
<1>5. /\ Merged(snap, d, t) \in Sessions
      /\ Merged(snap, d, t).ver = Cloned(snap).ver
      /\ Merged(snap, d, t).arm = d.arm
      /\ Merged(snap, d, t).map = IF d.map = 0 THEN Cloned(snap).map ELSE d.map
    BY <1>1, <1>3, <1>4 DEF Sessions
<1> QED
    BY <1>1, <1>5, CloneFacts

(***************************************************************************)
(* A rule that counts in requests is evaluated in numbers of requests.     *)
(***************************************************************************)
LEMMA InRequests ==
    /\ Rule \in Rules /\ Rule.frequency \in Nat /\ Rule.consecutive \in Nat
    /\ \A c, t : Position(Rule, c, t) = c /\ Progress(Rule, c, t) = c
    /\ Width(Rule) \in Nat /\ Gap(Rule) \in Nat
    /\ (Rule.consecutive # 0) => Width(Rule) = Rule.consecutive
<1>1. /\ Rule \in Rules /\ Rule.mode = "requests"
      /\ Rule.frequency \in Nat /\ Rule.consecutive \in Nat
    BY FaultAssumption DEF Rules
<1>2. Consecutive(Rule) \in Nat
    BY <1>1 DEF Consecutive
<1> QED
    BY <1>1, <1>2 DEF Position, Progress, Width, Gap, Consecutive

(***************************************************************************)
(* What the evaluation makes of the state of the rule.                     *)
(***************************************************************************)
LEMMA AfterType ==
    ASSUME NEW s \in RuleStates
    PROVE  After(Rule, s, 0, 0) \in RuleStates
<1> DEFINE made(at, recover, done) ==
             [count |-> s.count + 1, at |-> at, recover |-> recover, done |-> done]
<1>1. /\ s.count + 1 \in Nat
      /\ s.recover \in Schedules
      /\ Opening(Rule, s, 0) \in Schedules
      /\ Progress(Rule, s.count + 1, 0) + Width(Rule) \in Schedules
      /\ Position(Rule, s.count + 1, 0) + Gap(Rule) \in Schedules
      /\ Nil \in Schedules
    BY InRequests, FaultAssumption DEF RuleStates, Schedules, Nil, Opening
<1>2. \A at, recover \in Schedules, done \in BOOLEAN :
         made(at, recover, done) \in RuleStates
    BY <1>1 DEF RuleStates
<1>3. [s EXCEPT !.count = s.count + 1] \in RuleStates
    BY <1>1 DEF RuleStates
<1>4. \/ After(Rule, s, 0, 0) = s
      \/ After(Rule, s, 0, 0) = [s EXCEPT !.count = s.count + 1]
      \/ \E at, recover \in Schedules, done \in BOOLEAN :
           After(Rule, s, 0, 0) = made(at, recover, done)
    <2> DEFINE early == Position(Rule, s.count + 1, 0) < Opening(Rule, s, 0)
    <2> DEFINE within == Progress(Rule, s.count + 1, 0) < s.recover
    <2>1. /\ TooEarly(Rule, s, 0, 0) <=> (~s.done /\ ~Continuous(Rule) /\ early)
          /\ Due(Rule, s, 0, 0) <=> (~s.done /\ ~Continuous(Rule) /\ ~early)
        <3>1. Opening(Rule, s, 0) \in Nat /\ Position(Rule, s.count + 1, 0) \in Nat
            BY InRequests, FaultAssumption DEF RuleStates, Schedules, Opening
        <3> QED
            BY <3>1 DEF TooEarly, Due, Counted
    <2> DEFINE a == After(Rule, s, 0, 0)
    <2>2. \/ a = s
          \/ a = [s EXCEPT !.count = s.count + 1]
          \/ a = made(Opening(Rule, s, 0), s.recover, FALSE)
          \/ a = made(Opening(Rule, s, 0),
                      Progress(Rule, s.count + 1, 0) + Width(Rule), FALSE)
          \/ a = made(Position(Rule, s.count + 1, 0) + Gap(Rule), Nil, FALSE)
          \/ a = made(Nil, Nil, TRUE)
        <3>1. /\ Opens(Rule, s, 0, 0) <=> (Due(Rule, s, 0, 0) /\ s.recover = Nil)
              /\ Within(Rule, s, 0, 0)
                   <=> (Due(Rule, s, 0, 0) /\ s.recover # Nil /\ within)
              /\ Over(Rule, s, 0, 0)
                   <=> (Due(Rule, s, 0, 0) /\ s.recover # Nil /\ ~within)
            BY DEF Opens, Within, Over
        <3>2. Rule.frequency \in Nat
            BY InRequests
        <3> HIDE DEF early, within
        <3> QED
            BY <2>1, <3>1, <3>2 DEF After, Retired
    <2> QED
        BY <2>2, <1>1
<1> QED
    BY <1>2, <1>3, <1>4

LEMMA RuleLife ==
    ASSUME NEW st \in RuleStates
    PROVE  /\ After(Rule, st, 0, 0) \in RuleStates
           /\ Single => /\ After(Rule, Fresh, 0, 0) = Once
                        /\ After(Rule, Once, 0, 0) = Retired(2)
                        /\ ~Fails(Rule, Once, 0, 0)
<1>1. ASSUME Single
      PROVE  /\ After(Rule, Fresh, 0, 0) = Once
             /\ After(Rule, Once, 0, 0) = Retired(2)
             /\ ~Fails(Rule, Once, 0, 0)
    <2>1. /\ Rule.frequency = 0 /\ Rule.consecutive = 1
          /\ Width(Rule) = 1 /\ ~Continuous(Rule)
        BY <1>1, InRequests DEF Single, Continuous
    <2>2. /\ Counted(Rule, Fresh) /\ Counted(Rule, Once)
          /\ Opening(Rule, Fresh, 0) = 1 /\ Opening(Rule, Once, 0) = 1
        BY <2>1, FaultAssumption DEF Counted, Opening, Fresh, Once, Nil
    <2>3. /\ ~TooEarly(Rule, Fresh, 0, 0) /\ Opens(Rule, Fresh, 0, 0)
          /\ ~Within(Rule, Fresh, 0, 0) /\ ~Over(Rule, Fresh, 0, 0)
        BY <2>2, InRequests DEF TooEarly, Opens, Within, Over, Due, Fresh, Nil
    <2>4. /\ ~TooEarly(Rule, Once, 0, 0) /\ ~Opens(Rule, Once, 0, 0)
          /\ ~Within(Rule, Once, 0, 0) /\ Over(Rule, Once, 0, 0)
        BY <2>2, InRequests DEF TooEarly, Opens, Within, Over, Due, Once, Nil
    <2>5. After(Rule, Fresh, 0, 0) = Once
        <3>1. ~Fresh.done /\ Fresh.count + 1 = 1
            BY DEF Fresh
        <3>2. Progress(Rule, Fresh.count + 1, 0) + Width(Rule) = 2
            BY <2>1, <3>1, InRequests
        <3>3. After(Rule, Fresh, 0, 0) =
                [count |-> 1, at |-> 1, recover |-> 2, done |-> FALSE]
            BY <2>1, <2>2, <2>3, <3>1, <3>2 DEF After
        <3> QED
            BY <3>3 DEF Once
    <2>6. After(Rule, Once, 0, 0) = Retired(2)
        <3>1. ~Once.done /\ Once.count + 1 = 2 /\ ~(Rule.frequency > 0)
            BY <2>1 DEF Once
        <3> QED
            BY <2>1, <2>4, <3>1 DEF After
    <2> QED
        BY <2>1, <2>4, <2>5, <2>6 DEF Fails
<1> QED
    BY <1>1, AfterType

(* A sequence of one element. *)
LEMMA Singleton ==
    ASSUME NEW S, NEW e \in S
    PROVE  <<e>> \in Seq(S) /\ Len(<<e>>) = 1 /\ <<e>>[1] = e
OBVIOUS

(* The invariant holds initially. *)
LEMMA InitIInv == Init => IInv
<1> SUFFICES ASSUME Init PROVE IInv
    OBVIOUS
<1>1. Initial \in Sessions /\ Initial.map = 0 /\ Initial.ver = 0 /\ Initial.arm = None
    BY DEF Initial, Sessions, Arms
<1>2. Requests \cap Writers = {} /\ Requests \subseteq Goroutines /\ Writers \subseteq Goroutines
    BY FaultAssumption DEF Writers, Goroutines
<1>3. /\ pc \in [Goroutines -> RequestPCs \cup WriterPCs]
      /\ \A r \in Requests : pc[r] = "arrive"
      /\ \A w \in Writers : pc[w] = "load"
    BY <1>2 DEF Init, RequestPCs, WriterPCs
<1>s. /\ snap \in Sessions /\ heap \in Seq(RuleStates) /\ fired \in [Arms -> Nat]
      /\ snap.map <= Len(heap) /\ snap.ver = 0 /\ snap.arm = None
      /\ CopiesSpent
      /\ fired[None] <= 1
      /\ fired[None] = 0 => snap.map = 0 /\ heap = <<>>
      /\ fired[None] > 0 => snap.map # 0
    <2>1. CASE Untouched
        BY <2>1, <1>1 DEF Untouched, CopiesSpent, Arms
    <2>2. CASE UsedUp
        <3>1. Retired(2) \in RuleStates
            BY DEF Retired, RuleStates, Schedules
        <3>2. snap \in Sessions /\ snap.map = 1 /\ snap.ver = 0 /\ snap.arm = None
            BY <2>2, <1>1 DEF UsedUp, Initial, Sessions
        <3>3. heap \in Seq(RuleStates) /\ Len(heap) = 1 /\ heap[1] = Retired(2)
            BY <2>2, <3>1, Singleton DEF UsedUp
        <3>4. fired \in [Arms -> Nat] /\ fired[None] = 1
            BY <2>2 DEF UsedUp, Arms
        <3> QED
            BY <3>2, <3>3, <3>4 DEF CopiesSpent
    <2> QED
        BY <2>1, <2>2 DEF Init
<1>t. TypeOK
    <2>1. "arrive" \in RequestPCs /\ "load" \in WriterPCs
        BY DEF RequestPCs, WriterPCs
    <2>3. dropped \in BOOLEAN /\ lock \in Requests \cup {None}
        BY DEF Init
    <2> QED
        BY <1>1, <1>3, <1>s, <2>1, <2>3 DEF Init, TypeOK
<1>4. LockHeld
    BY <1>3, FaultAssumption DEF Init, LockHeld, Locked
<1>5. MapsExist /\ SwapsKeepMap
    <2>1. \A g \in Goroutines : ~Pending(g) /\ next[g].map = 0
        BY <1>1, <1>2, <1>3 DEF Init, Pending, Goroutines
    <2>2. \A r \in Requests : pc[r] # "saving" /\ draft[r].map = 0
        BY <1>1, <1>3 DEF Init
    <2> QED
        BY <1>2, <1>s, <2>1, <2>2 DEF MapsExist, SwapsKeepMap
<1>6. FaultPublished /\ SingleFires
    BY <1>1, <1>2, <1>3, <1>s DEF Init, FaultPublished, SingleFires, Arms
<1> QED
    BY <1>s, <1>t, <1>4, <1>5, <1>6 DEF IInv

(***************************************************************************)
(* A goroutine moves on and nothing the others see changes.                *)
(***************************************************************************)
Follows(g, l) ==
    /\ pc[g] # "done"
    /\ g \in Requests =>
        /\ l \in RequestPCs
        /\ l \in Locked <=> pc[g] \in Locked
        /\ pc[g] \in {"save", "saving"} => l \in {"save", "saving"}
        /\ l # "decide"
    /\ g \in Writers => l \in WriterPCs

(* A step that moves one goroutine and publishes nothing keeps the invariant. *)
LEMMA Moves ==
    ASSUME IInv, NEW g \in Goroutines, NEW l, Follows(g, l), Goto(g, l),
           ~Pending(g) => l \notin {"arriving", "saving", "finishing", "swap"},
           l # "saving" \/ pc[g] = "saving",
           g \in Patches => l # "done",
           UNCHANGED <<snap, heap, lock, draft, next, fired, dropped>>,
           verdict' \in [Requests -> {"none", "passed", "faulted"}]
    PROVE  IInv'
<1>0. Requests \subseteq Goroutines /\ Writers \subseteq Goroutines /\ Patches \subseteq Writers
    BY DEF Goroutines, Writers
<1>1. /\ pc' \in [Goroutines -> RequestPCs \cup WriterPCs]
      /\ \A x \in Goroutines : pc'[x] = IF x = g THEN l ELSE pc[x]
    BY <1>0 DEF IInv, TypeOK, Goto, Follows, Goroutines
<1>2. TypeOK'
    BY <1>0, <1>1 DEF IInv, TypeOK, Follows
<1>3. LockHeld'
    BY <1>0, <1>1 DEF IInv, LockHeld, Follows
<1>4. MapsExist' /\ CopiesSpent'
    BY DEF IInv, MapsExist, CopiesSpent
<1>5. SwapsKeepMap'
    BY <1>0, <1>1 DEF IInv, SwapsKeepMap, Pending
<1>6. Undisturbed' => Undisturbed
    BY <1>0, <1>1 DEF Undisturbed, Follows
<1>7. FaultPublished' /\ SingleFires'
    BY <1>0, <1>1, <1>6 DEF IInv, FaultPublished, SingleFires, Follows
<1> QED
    BY <1>2, <1>3, <1>4, <1>5, <1>7 DEF IInv

(***************************************************************************)
(* A goroutine loads the published session and prepares what it will try   *)
(* to publish; the heap may grow by a copy.                                *)
(***************************************************************************)
LEMMA Attempts ==
    ASSUME IInv, NEW g \in Goroutines, NEW l, Follows(g, l), Goto(g, l), l # "done",
           NEW m \in Sessions, Attempt(g, m),
           m.ver = snap.ver,
           g \notin Patches =>
                /\ m.map = 0 => snap.map = 0
                /\ FaultPublished /\ Single /\ Undisturbed => m.arm = None,
           l = "saving" /\ g \in Requests /\ draft[g].map # 0 => m.map = draft[g].map,
           heap' \in {heap, HeapWithClone(snap)},
           m.map <= Len(heap'),
           UNCHANGED <<snap, lock, draft, verdict, fired, dropped>>
    PROVE  IInv'
<1>0. Requests \subseteq Goroutines /\ Writers \subseteq Goroutines /\ Patches \subseteq Writers
    BY DEF Goroutines, Writers
<1>1. /\ pc' \in [Goroutines -> RequestPCs \cup WriterPCs]
      /\ \A x \in Goroutines : pc'[x] = IF x = g THEN l ELSE pc[x]
    BY <1>0 DEF IInv, TypeOK, Goto, Follows, Goroutines
<1>2. /\ next' \in [Goroutines -> Sessions]
      /\ \A x \in Goroutines : next'[x] = IF x = g THEN m ELSE next[x]
    BY DEF IInv, TypeOK, Attempt
<1>h. /\ heap' \in Seq(RuleStates)
      /\ Len(heap) \in Nat /\ Len(heap') \in Nat
      /\ Len(heap') >= Len(heap)
      /\ snap.map = 0 => heap' = heap
      /\ \A i \in 1..Len(heap') : \E j \in 1..Len(heap) : heap'[i] = heap[j]
    <2>1. TypeOK /\ MapsExist /\ heap \in Seq(RuleStates)
        BY DEF IInv, TypeOK
    <2>2. CASE heap' = heap
        BY <2>1, <2>2
    <2>3. CASE heap' = HeapWithClone(snap)
        BY <2>1, <2>3, CloneFacts
    <2> QED
        BY <2>2, <2>3
<1>3. TypeOK'
    BY <1>0, <1>1, <1>2, <1>h DEF IInv, TypeOK, Follows
<1>4. LockHeld'
    BY <1>0, <1>1 DEF IInv, LockHeld, Follows
<1>5. MapsExist'
    <2>1. \A n \in Nat : n <= Len(heap) => n <= Len(heap')
        BY <1>h
    <2>2. /\ snap.map \in Nat
          /\ \A r \in Requests : draft[r].map \in Nat
          /\ \A x \in Goroutines : next[x].map \in Nat
        BY DEF IInv, TypeOK, Sessions
    <2> QED
        BY <2>1, <2>2, <1>2 DEF IInv, MapsExist
<1>6. CopiesSpent'
    BY <1>h DEF IInv, CopiesSpent, Single, Once, Retired
<1>7. SwapsKeepMap'
    <2>1. snap.ver \in Nat
        BY DEF IInv, TypeOK, Sessions
    <2> QED
        BY <1>0, <1>1, <1>2, <2>1 DEF IInv, SwapsKeepMap, Pending
<1>8. Undisturbed' => Undisturbed
    BY <1>0, <1>1 DEF Undisturbed, Follows
<1>9. FaultPublished' /\ SingleFires'
    <2> SUFFICES ASSUME Single, Undisturbed
                 PROVE  FaultPublished' /\ SingleFires'
        BY <1>8 DEF FaultPublished, SingleFires, Single
    <2>1. \A x \in Goroutines \ Patches : next'[x].arm = None
        BY <1>2 DEF IInv, FaultPublished
    <2> QED
        BY <1>0, <1>1, <1>h, <2>1 DEF IInv, FaultPublished, SingleFires, Follows
<1> QED
    BY <1>3, <1>4, <1>5, <1>6, <1>7, <1>9 DEF IInv

(***************************************************************************)
(* A swap wins.                                                            *)
(***************************************************************************)
LEMMA Publishes ==
    ASSUME IInv, NEW g \in Goroutines, NEW l, Swaps(g), Goto(g, l), Pending(g),
           l \notin {"arriving", "saving", "finishing", "swap", "decide", "save"},
           g \in Requests => l \in RequestPCs \ Locked,
           g \in Writers => l \in WriterPCs,
           g \in Patches => l = "done",
           lock' = IF g \in Requests /\ pc[g] = "saving" THEN None ELSE lock,
           UNCHANGED <<heap, draft, next, verdict, fired, dropped>>
    PROVE  IInv'
<1>0. /\ Requests \subseteq Goroutines /\ Writers \subseteq Goroutines
      /\ Patches \subseteq Writers /\ Requests \cap Writers = {}
      /\ None \notin Requests
    BY FaultAssumption DEF Goroutines, Writers
<1>1. /\ pc' \in [Goroutines -> RequestPCs \cup WriterPCs]
      /\ \A x \in Goroutines : pc'[x] = IF x = g THEN l ELSE pc[x]
    BY <1>0 DEF IInv, TypeOK, Goto, Goroutines
<1>2. /\ snap \in Sessions /\ snap.ver \in Nat /\ next[g] \in Sessions
      /\ \A x \in Goroutines : next[x].ver \in Nat
    BY DEF IInv, TypeOK, Sessions
<1>3. /\ snap' \in Sessions
      /\ next[g].ver = snap.ver
      /\ snap'.ver = snap.ver + 1
      /\ snap'.map = next[g].map
      /\ snap'.arm = next[g].arm
    BY <1>2 DEF Swaps, Sessions
<1>4. TypeOK'
    BY <1>0, <1>1, <1>3 DEF IInv, TypeOK
<1>5. LockHeld'
    <2>1. g \in Requests => (lock = g <=> pc[g] = "saving")
        BY DEF IInv, LockHeld, Pending, Locked
    <2> QED
        BY <1>0, <1>1, <2>1 DEF IInv, LockHeld, Locked
<1>6. MapsExist' /\ CopiesSpent'
    BY <1>3 DEF IInv, MapsExist, CopiesSpent
<1>7. SwapsKeepMap'
    <2>1. \A x \in Goroutines : (x # g /\ Pending(x)) => next[x].ver < snap'.ver
        BY <1>2, <1>3 DEF IInv, SwapsKeepMap
    <2>2. \A x \in Goroutines : Pending(x)' => x # g /\ Pending(x)
        BY <1>1 DEF Pending
    <2>3. \A x \in Goroutines :
            Pending(x)' => next'[x].ver < snap'.ver /\ next'[x].ver <= snap'.ver
        BY <2>1, <2>2, <1>2, <1>3
    <2>4. \A r \in Requests :
            (pc[r] = "saving" /\ draft[r].map # 0) => next[r].map = draft[r].map
        BY DEF IInv, SwapsKeepMap
    <2>5. \A x \in Goroutines \ Patches :
            ~(Pending(x)' /\ next'[x].ver = snap'.ver)
        BY <2>3, <1>2, <1>3
    <2> QED
        BY <2>3, <2>4, <2>5, <1>0, <1>1 DEF SwapsKeepMap
<1>8. FaultPublished' /\ SingleFires'
    <2> SUFFICES ASSUME Single, Undisturbed'
                 PROVE  FaultPublished' /\ SingleFires'
        BY DEF FaultPublished, SingleFires, Single
    <2>1. g \notin Patches
        BY <1>0, <1>1 DEF Undisturbed
    <2>2. Undisturbed
        BY <2>1, <1>0, <1>1 DEF Undisturbed
    <2>3. /\ next[g].arm = None
          /\ fired[None] = 0 => heap = <<>>
          /\ next[g].map = 0 => snap.map = 0
        BY <2>1, <2>2, <1>3 DEF IInv, FaultPublished, SwapsKeepMap
    <2>4. heap = <<>> => next[g].map = 0
        BY <1>2 DEF IInv, MapsExist, Sessions
    <2>5. ASSUME fired[None] > 0, next[g].map = 0
          PROVE  \E r \in Requests : pc'[r] \in {"save", "saving"} /\ draft[r].map # 0
        <3>1. PICK r \in Requests : pc[r] \in {"save", "saving"} /\ draft[r].map # 0
            BY <2>2, <2>3, <2>5 DEF IInv, FaultPublished
        <3>2. r # g
            BY <3>1, <2>5 DEF IInv, SwapsKeepMap, Pending
        <3> QED
            BY <3>1, <3>2, <1>0, <1>1
    <2>6. \A r \in Requests : (pc'[r] = "decide" /\ draft[r].map = 0) => fired[None] = 0
        BY <2>2, <1>0, <1>1 DEF IInv, FaultPublished
    <2>7. /\ \A r \in Requests : draft[r].arm = None
          /\ \A x \in Goroutines \ Patches : next[x].arm = None
          /\ fired[None] <= 1
        BY <2>2 DEF IInv, FaultPublished, SingleFires
    <2> QED
        BY <1>3, <2>3, <2>4, <2>5, <2>6, <2>7 DEF FaultPublished, SingleFires
<1> QED
    BY <1>4, <1>5, <1>6, <1>7, <1>8 DEF IInv

(***************************************************************************)
(* The steps that touch a request's clone.                                 *)
(***************************************************************************)
LEMMA LooksIInv == ASSUME IInv, NEW r \in Requests, Looks(r) PROVE IInv'
<1>0. /\ Requests \subseteq Goroutines /\ Writers \subseteq Goroutines
      /\ Patches \subseteq Writers /\ Requests \cap Writers = {}
    BY FaultAssumption DEF Goroutines, Writers
<1>1. /\ pc' \in [Goroutines -> RequestPCs \cup WriterPCs]
      /\ \A x \in Goroutines : pc'[x] = IF x = r THEN "lock" ELSE pc[x]
      /\ pc[r] = "look"
    BY <1>0 DEF IInv, TypeOK, Looks, Goto, RequestPCs
<1>c. /\ Cloned(snap) \in Sessions
      /\ Cloned(snap).arm = snap.arm
      /\ Cloned(snap).map <= Len(heap')
      /\ heap' \in Seq(RuleStates)
      /\ Len(heap') >= Len(heap)
      /\ snap.map = 0 => heap' = heap
      /\ \A i \in 1..Len(heap') : \E j \in 1..Len(heap) : heap'[i] = heap[j]
    BY CloneFacts DEF IInv, Looks
<1>2. /\ draft' \in [Requests -> Sessions]
      /\ \A x \in Requests : draft'[x] = IF x = r THEN Cloned(snap) ELSE draft[x]
    BY <1>c DEF IInv, TypeOK, Looks
<1>u. UNCHANGED <<snap, lock, next, verdict, fired, dropped>>
    BY DEF Looks
<1>3. TypeOK'
    BY <1>0, <1>1, <1>2, <1>c, <1>u DEF IInv, TypeOK, RequestPCs
<1>4. LockHeld'
    BY <1>0, <1>1, <1>u DEF IInv, LockHeld, Locked
<1>5. MapsExist'
    <2>1. Len(heap) \in Nat /\ Len(heap') \in Nat
        BY <1>c DEF IInv, TypeOK
    <2>2. \A n \in Nat : n <= Len(heap) => n <= Len(heap')
        BY <1>c, <2>1
    <2>3. /\ snap.map \in Nat
          /\ \A x \in Requests : draft[x].map \in Nat
          /\ \A x \in Goroutines : next[x].map \in Nat
        BY DEF IInv, TypeOK, Sessions
    <2> QED
        BY <2>2, <2>3, <1>2, <1>c, <1>u DEF IInv, MapsExist
<1>6. CopiesSpent'
    BY <1>c DEF IInv, CopiesSpent, Single, Once, Retired
<1>7. SwapsKeepMap'
    BY <1>0, <1>1, <1>2, <1>u DEF IInv, SwapsKeepMap, Pending
<1>8. Undisturbed' <=> Undisturbed
    BY <1>0, <1>1, <1>u DEF Undisturbed
<1>9. FaultPublished' /\ SingleFires'
    <2> SUFFICES ASSUME Single, Undisturbed
                 PROVE  FaultPublished' /\ SingleFires'
        BY <1>8 DEF FaultPublished, SingleFires, Single
    <2>1. \A x \in Requests : draft'[x].arm = None
        BY <1>2, <1>c DEF IInv, FaultPublished
    <2>2. fired[None] = 0 => snap.map = 0 /\ heap' = <<>>
        BY <1>c DEF IInv, FaultPublished
    <2>3. (fired[None] > 0 /\ snap.map = 0) =>
            \E x \in Requests : pc'[x] \in {"save", "saving"} /\ draft'[x].map # 0
        BY <1>0, <1>1, <1>2 DEF IInv, FaultPublished
    <2>4. \A x \in Requests :
            (pc'[x] = "decide" /\ draft'[x].map = 0) => fired[None] = 0
        BY <1>0, <1>1, <1>2 DEF IInv, FaultPublished
    <2> QED
        BY <2>1, <2>2, <2>3, <2>4, <1>u DEF IInv, FaultPublished, SingleFires
<1> QED
    BY <1>3, <1>4, <1>5, <1>6, <1>7, <1>9 DEF IInv

(* Taking the mutex and refreshing the clone keeps the invariant. *)
LEMMA LocksIInv == ASSUME IInv, NEW r \in Requests, Locks(r) PROVE IInv'
<1>0. /\ Requests \subseteq Goroutines /\ Writers \subseteq Goroutines
      /\ Patches \subseteq Writers /\ Requests \cap Writers = {}
      /\ None \notin Requests
    BY FaultAssumption DEF Goroutines, Writers
<1>1. /\ pc' \in [Goroutines -> RequestPCs \cup WriterPCs]
      /\ \A x \in Goroutines : pc'[x] = IF x = r THEN "decide" ELSE pc[x]
      /\ pc[r] = "lock" /\ lock = None /\ lock' = r
    BY <1>0 DEF IInv, TypeOK, Locks, Goto, RequestPCs
<1>2. /\ draft' \in [Requests -> Sessions]
      /\ \A x \in Requests : x # r => draft'[x] = draft[x]
      /\ draft'[r].arm = draft[r].arm
      /\ draft'[r].map = IF snap.map = 0 THEN draft[r].map ELSE snap.map
    BY DEF IInv, TypeOK, Locks, Sessions
<1>u. UNCHANGED <<snap, heap, next, verdict, fired, dropped>>
    BY DEF Locks
<1>3. TypeOK'
    BY <1>0, <1>1, <1>2, <1>u DEF IInv, TypeOK, RequestPCs
<1>4. LockHeld'
    BY <1>0, <1>1 DEF IInv, LockHeld, Locked
<1>5. MapsExist' /\ CopiesSpent'
    BY <1>2, <1>u DEF IInv, MapsExist, CopiesSpent
<1>6. SwapsKeepMap'
    BY <1>0, <1>1, <1>2, <1>u DEF IInv, SwapsKeepMap, Pending
<1>7. Undisturbed' <=> Undisturbed
    BY <1>0, <1>1, <1>u DEF Undisturbed
<1>8. FaultPublished' /\ SingleFires'
    <2> SUFFICES ASSUME Single, Undisturbed
                 PROVE  FaultPublished' /\ SingleFires'
        BY <1>7 DEF FaultPublished, SingleFires, Single
    <2>1. \A x \in Requests : pc[x] \notin {"decide", "save", "saving"}
        BY <1>0, <1>1 DEF IInv, LockHeld, Locked
    <2>2. fired[None] > 0 => snap.map # 0
        BY <2>1 DEF IInv, FaultPublished
    <2>3. fired[None] \in Nat
        BY DEF IInv, TypeOK, Arms
    <2>4. \A x \in Requests :
            (pc'[x] = "decide" /\ draft'[x].map = 0) => fired[None] = 0
        BY <1>0, <1>1, <1>2, <2>1, <2>2, <2>3
    <2>5. \A x \in Requests : draft'[x].arm = None
        BY <1>2 DEF IInv, FaultPublished
    <2> QED
        BY <2>2, <2>4, <2>5, <1>u DEF IInv, FaultPublished, SingleFires
<1> QED
    BY <1>3, <1>4, <1>5, <1>6, <1>8 DEF IInv

(* Counting a fault on the clone keeps the invariant. *)
LEMMA CountsIInv == ASSUME IInv, NEW r \in Requests, Counts(r) PROVE IInv'
<1>0. /\ Requests \subseteq Goroutines /\ Writers \subseteq Goroutines
      /\ Patches \subseteq Writers /\ Requests \cap Writers = {}
    BY FaultAssumption DEF Goroutines, Writers
<1>1. /\ pc[r] = "count" /\ pc'[r] \in {"done", "final"}
      /\ pc' \in [Goroutines -> RequestPCs \cup WriterPCs]
      /\ \A x \in Goroutines : x # r => pc'[x] = pc[x]
    BY <1>0 DEF IInv, TypeOK, Counts, Goto, RequestPCs
<1>2. /\ draft' \in [Requests -> Sessions]
      /\ \A x \in Requests : draft'[x].arm = draft[x].arm /\ draft'[x].map = draft[x].map
    <2>1. draft' = [draft EXCEPT ![r] = [draft[r] EXCEPT !.tally = draft[r].tally + 1]]
        BY DEF Counts
    <2>2. draft \in [Requests -> Sessions] /\ draft[r] \in Sessions
        BY DEF IInv, TypeOK
    <2>3. /\ [draft[r] EXCEPT !.tally = draft[r].tally + 1] \in Sessions
          /\ [draft[r] EXCEPT !.tally = draft[r].tally + 1].arm = draft[r].arm
          /\ [draft[r] EXCEPT !.tally = draft[r].tally + 1].map = draft[r].map
        BY <2>2 DEF Sessions
    <2> QED
        BY <2>1, <2>2, <2>3
<1>u. UNCHANGED <<snap, heap, lock, next, verdict, fired, dropped>>
    BY DEF Counts
<1>3. TypeOK'
    BY <1>0, <1>1, <1>2, <1>u DEF IInv, TypeOK, RequestPCs
<1>4. LockHeld'
    BY <1>0, <1>1, <1>u DEF IInv, LockHeld, Locked
<1>5. MapsExist' /\ CopiesSpent'
    BY <1>2, <1>u DEF IInv, MapsExist, CopiesSpent
<1>6. SwapsKeepMap'
    BY <1>0, <1>1, <1>2, <1>u DEF IInv, SwapsKeepMap, Pending
<1>7. Undisturbed' <=> Undisturbed
    BY <1>0, <1>1, <1>u DEF Undisturbed
<1>8. FaultPublished' /\ SingleFires'
    <2>1. \A x \in Requests :
            pc[x] \in {"decide", "save", "saving"} => pc'[x] = pc[x]
        BY <1>0, <1>1
    <2>2. \A x \in Requests : pc'[x] = "decide" => pc[x] = "decide"
        BY <1>0, <1>1
    <2> QED
        BY <1>2, <1>7, <1>u, <2>1, <2>2 DEF IInv, FaultPublished, SingleFires
<1> QED
    BY <1>3, <1>4, <1>5, <1>6, <1>8 DEF IInv

(***************************************************************************)
(* The evaluation: only the holder of the mutex decides, so no decision of *)
(* another comes between what it read and what it writes.                  *)
(***************************************************************************)
LEMMA DecidesIInv == ASSUME IInv, NEW r \in Requests, Decides(r) PROVE IInv'
<1> DEFINE st == StateOf(draft[r])
<1> DEFINE after == After(Rule, st, 0, 0)
<1> DEFINE fails == Fails(Rule, st, 0, 0)
<1>0. /\ Requests \subseteq Goroutines /\ Writers \subseteq Goroutines
      /\ Patches \subseteq Writers /\ Requests \cap Writers = {}
    BY FaultAssumption DEF Goroutines, Writers
<1>1. /\ pc' \in [Goroutines -> RequestPCs \cup WriterPCs]
      /\ \A x \in Goroutines : pc'[x] = IF x = r THEN "save" ELSE pc[x]
      /\ pc[r] = "decide"
    BY <1>0 DEF IInv, TypeOK, Decides, Goto, RequestPCs
<1>u. UNCHANGED <<snap, lock, next, dropped>>
    BY DEF Decides
<1>2. /\ draft[r] \in Sessions /\ draft[r].map \in Nat /\ draft[r].map <= Len(heap)
      /\ heap \in Seq(RuleStates) /\ Len(heap) \in Nat
      /\ draft[r].arm \in Arms
    BY DEF IInv, TypeOK, MapsExist, Sessions
<1>3. st \in RuleStates /\ ~st.done
    <2>1. Fresh \in RuleStates
        BY DEF Fresh, RuleStates, Schedules, Nil
    <2> QED
        BY <1>2, <2>1 DEF StateOf, Decides
<1>4. after \in RuleStates
    BY <1>3, RuleLife
<1>5. IF draft[r].map = 0
      THEN heap' = Append(heap, after) /\ draft' = [draft EXCEPT ![r].map = Len(heap) + 1]
      ELSE heap' = [heap EXCEPT ![draft[r].map] = after] /\ draft' = draft
    BY DEF Decides, Place
<1>6. /\ fired' = [fired EXCEPT ![draft[r].arm] = IF fails THEN @ + 1 ELSE @]
      /\ verdict' = [verdict EXCEPT ![r] = IF fails THEN "faulted" ELSE "passed"]
    BY DEF Decides
<1> HIDE DEF st, after, fails
<1>7. /\ heap' \in Seq(RuleStates)
      /\ Len(heap') \in Nat /\ Len(heap') >= Len(heap)
      /\ heap' # <<>>
      /\ draft'[r].map \in 1..Len(heap')
      /\ draft'[r].arm = draft[r].arm
      /\ draft' \in [Requests -> Sessions]
      /\ \A x \in Requests : x # r => draft'[x] = draft[x]
      /\ \A i \in 1..Len(heap') : heap'[i] = after \/ (i \in 1..Len(heap) /\ heap'[i] = heap[i])
    <2>1. draft \in [Requests -> Sessions]
        BY DEF IInv, TypeOK
    <2>2. CASE draft[r].map = 0
        <3>1. /\ Append(heap, after) \in Seq(RuleStates)
              /\ Len(Append(heap, after)) = Len(heap) + 1
              /\ \A i \in 1..Len(heap) : Append(heap, after)[i] = heap[i]
              /\ Append(heap, after)[Len(heap) + 1] = after
            BY <1>2, <1>4
        <3>2. \A i \in 1..Len(heap') : i \in 1..Len(heap) \/ i = Len(heap) + 1
            BY <3>1, <2>2, <1>5, <1>2
        <3>3. /\ [draft[r] EXCEPT !.map = Len(heap) + 1] \in Sessions
              /\ [draft[r] EXCEPT !.map = Len(heap) + 1].map = Len(heap) + 1
              /\ [draft[r] EXCEPT !.map = Len(heap) + 1].arm = draft[r].arm
            BY <1>2 DEF Sessions
        <3>4. draft' = [draft EXCEPT ![r] = [draft[r] EXCEPT !.map = Len(heap) + 1]]
            BY <2>2, <1>5
        <3>5. /\ draft'[r].map = Len(heap) + 1
              /\ draft'[r].arm = draft[r].arm
              /\ draft' \in [Requests -> Sessions]
              /\ \A x \in Requests : x # r => draft'[x] = draft[x]
            BY <2>1, <3>3, <3>4
        <3>6. heap' = Append(heap, after)
            BY <2>2, <1>5
        <3> QED
            BY <3>1, <3>2, <3>5, <3>6, <1>2
    <2>3. CASE draft[r].map # 0
        <3>1. /\ heap' = [heap EXCEPT ![draft[r].map] = after] /\ draft' = draft
              /\ draft[r].map \in 1..Len(heap)
            BY <2>3, <1>2, <1>5
        <3>2. /\ heap' \in Seq(RuleStates) /\ Len(heap') = Len(heap)
              /\ \A i \in 1..Len(heap) :
                    heap'[i] = IF i = draft[r].map THEN after ELSE heap[i]
            BY <3>1, <1>2, <1>4
        <3> QED
            BY <3>1, <3>2, <2>1, <1>2
    <2> QED
        BY <2>2, <2>3
<1>8. /\ fired' \in [Arms -> Nat]
      /\ verdict' \in [Requests -> {"none", "passed", "faulted"}]
    BY <1>2, <1>6 DEF IInv, TypeOK
<1>9. TypeOK'
    BY <1>0, <1>1, <1>7, <1>8, <1>u DEF IInv, TypeOK, RequestPCs
<1>10. LockHeld'
    BY <1>0, <1>1, <1>u DEF IInv, LockHeld, Locked
<1>11. MapsExist'
    <2>1. \A n \in Nat : n <= Len(heap) => n <= Len(heap')
        BY <1>2, <1>7
    <2>2. /\ snap.map \in Nat
          /\ \A x \in Requests : draft[x].map \in Nat
          /\ \A x \in Goroutines : next[x].map \in Nat
        BY DEF IInv, TypeOK, Sessions
    <2>3. draft'[r].map <= Len(heap')
        BY <1>7
    <2> QED
        BY <2>1, <2>2, <2>3, <1>7, <1>u DEF IInv, MapsExist
<1>12. SwapsKeepMap'
    BY <1>0, <1>1, <1>7, <1>u DEF IInv, SwapsKeepMap, Pending
<1>13. Undisturbed' <=> Undisturbed
    BY <1>0, <1>1, <1>u DEF Undisturbed
<1>14. ASSUME Single
       PROVE  /\ after \in {Once, Retired(2)}
              /\ fails => draft[r].map = 0
              /\ draft[r].map = 0 => fails
    <2>1. CASE draft[r].map = 0
        <3>1. st = Fresh
            BY <2>1 DEF st, StateOf
        <3>2. after = Once
            BY <3>1, <1>3, <1>14, RuleLife DEF after
        <3>3. fails
            <4>1. Rule \in Rules /\ Rule.mode = "requests"
                  /\ Rule.frequency = 0 /\ Rule.consecutive = 1
                BY <1>14, FaultAssumption DEF Single
            <4>2. Opens(Rule, Fresh, 0, 0)
                BY <4>1 DEF Opens, Due, Counted, Continuous, Fresh, Position, Opening, Nil
            <4> QED
                BY <4>2, <3>1 DEF fails, Fails
        <3> QED
            BY <2>1, <3>2, <3>3
    <2>2. CASE draft[r].map # 0
        <3>1. st \in {Once, Retired(2)}
            BY <2>2, <1>2, <1>14 DEF st, StateOf, IInv, CopiesSpent
        <3>2. st = Once
            BY <3>1, <1>3 DEF Retired
        <3> QED
            BY <2>2, <3>2, <1>3, <1>14, RuleLife DEF after, fails
    <2> QED
        BY <2>1, <2>2
<1>15. CopiesSpent'
    BY <1>7, <1>14 DEF IInv, CopiesSpent, Single, Once, Retired
<1>16. FaultPublished' /\ SingleFires'
    <2> SUFFICES ASSUME Single, Undisturbed
                 PROVE  FaultPublished' /\ SingleFires'
        BY <1>13 DEF FaultPublished, SingleFires, Single
    <2>1. /\ snap.arm = None /\ draft[r].arm = None
          /\ \A x \in Requests : draft[x].arm = None
          /\ \A g \in Goroutines \ Patches : next[g].arm = None
          /\ fired[None] = 0 => heap = <<>>
          /\ fired[None] <= 1
          /\ draft[r].map = 0 => fired[None] = 0
        BY <1>1 DEF IInv, FaultPublished, SingleFires
    <2>2. /\ None \in Arms /\ fired[None] \in Nat
          /\ fired'[None] = IF fails THEN fired[None] + 1 ELSE fired[None]
        BY <2>1, <1>6 DEF IInv, TypeOK, Arms
    <2>3. fired'[None] = 1
        <3>1. CASE draft[r].map = 0
            BY <3>1, <2>1, <2>2, <1>14
        <3>2. CASE draft[r].map # 0
            <4>1. heap # <<>>
                BY <3>2, <1>2
            <4> QED
                BY <3>2, <4>1, <2>1, <2>2, <1>14
        <3> QED
            BY <3>1, <3>2
    <2>4. pc'[r] \in {"save", "saving"} /\ draft'[r].map # 0
        BY <1>0, <1>1, <1>7
    <2>5. \A x \in Requests : pc'[x] # "decide"
        BY <1>0, <1>1 DEF IInv, LockHeld, Locked
    <2>6. \A x \in Requests : draft'[x].arm = None
        BY <1>7, <2>1
    <2> QED
        BY <2>1, <2>3, <2>4, <2>5, <2>6, <1>u DEF FaultPublished, SingleFires
<1> QED
    BY <1>9, <1>10, <1>11, <1>12, <1>15, <1>16 DEF IInv

(* A locked save that is dropped keeps the invariant. *)
LEMMA DroppedIInv == ASSUME IInv, NEW r \in Requests, SaveDropped(r) PROVE IInv'
<1>0. /\ Requests \subseteq Goroutines /\ Requests \cap Writers = {}
      /\ None \notin Requests
    BY FaultAssumption DEF Goroutines, Writers
<1>1. /\ pc[r] = "save" /\ pc'[r] \in {"count", "final"}
      /\ pc' \in [Goroutines -> RequestPCs \cup WriterPCs]
      /\ \A x \in Goroutines : x # r => pc'[x] = pc[x]
      /\ lock' = None /\ dropped' = TRUE
    BY <1>0 DEF IInv, TypeOK, SaveDropped, Goto, AfterUnlock, RequestPCs
<1>u. UNCHANGED <<snap, heap, draft, next, verdict, fired>>
    BY DEF SaveDropped
<1>2. TypeOK'
    <2>1. dropped' \in BOOLEAN /\ lock' \in Requests \cup {None}
        BY <1>1
    <2>2. /\ \A x \in Requests : pc'[x] \in RequestPCs
          /\ \A w \in Writers : pc'[w] \in WriterPCs
        BY <1>0, <1>1 DEF IInv, TypeOK, RequestPCs, Goroutines
    <2> QED
        BY <2>1, <2>2, <1>1, <1>u DEF IInv, TypeOK
<1>3. LockHeld'
    BY <1>0, <1>1 DEF IInv, LockHeld, Locked
<1>4. MapsExist' /\ CopiesSpent'
    BY <1>u DEF IInv, MapsExist, CopiesSpent
<1>5. SwapsKeepMap'
    BY <1>0, <1>1, <1>u DEF IInv, SwapsKeepMap, Pending
<1>6. FaultPublished' /\ SingleFires'
    BY <1>1 DEF FaultPublished, SingleFires, Undisturbed
<1> QED
    BY <1>2, <1>3, <1>4, <1>5, <1>6 DEF IInv

(***************************************************************************)
(* The actions of a request.                                               *)
(***************************************************************************)
LEMMA HandleIInv == ASSUME IInv, NEW r \in Requests, Handle(r) PROVE IInv'
<1>0. r \in Goroutines /\ r \notin Writers /\ r \notin Patches
    BY FaultAssumption DEF Goroutines, Writers
<1>v. /\ verdict \in [Requests -> {"none", "passed", "faulted"}]
      /\ TypeOK /\ MapsExist
    BY DEF IInv, TypeOK
<1>1. CASE Arrives(r)
    <2> DEFINE m == Cloned(snap)
    <2>1. /\ pc[r] = "arrive" /\ Goto(r, "arriving") /\ Attempt(r, m)
          /\ heap' = HeapWithClone(snap)
          /\ UNCHANGED <<snap, lock, draft, verdict, fired, dropped>>
        BY <1>1 DEF Arrives
    <2>2. Follows(r, "arriving")
        BY <1>0, <2>1 DEF Follows, RequestPCs, Locked
    <2>3. /\ m \in Sessions /\ m.ver = snap.ver /\ (m.map = 0 => snap.map = 0)
          /\ m.map <= Len(heap') /\ m.arm = snap.arm
        BY <1>v, <2>1, CloneFacts
    <2>4. (FaultPublished /\ Single /\ Undisturbed) => m.arm = None
        BY <2>3 DEF FaultPublished
    <2> HIDE DEF m
    <2> QED
        BY <1>0, <2>1, <2>2, <2>3, <2>4, Attempts
<1>2. CASE Arrived(r)
    <2>1. /\ pc[r] = "arriving" /\ Swaps(r) /\ Goto(r, "look")
          /\ UNCHANGED <<heap, lock, draft, next, verdict, fired, dropped>>
        BY <1>2 DEF Arrived
    <2> QED
        BY <1>0, <2>1, Publishes DEF Pending, RequestPCs, Locked
<1>3. ASSUME NEW label, NEW again, SwapLoses(r, label, again),
             <<label, again>> \in {<<"arriving", "arrive">>, <<"saving", "save">>,
                                   <<"finishing", "final">>}
      PROVE  IInv'
    <2>1. /\ pc[r] = label /\ Goto(r, again)
          /\ UNCHANGED <<snap, heap, lock, draft, next, verdict, fired, dropped>>
        BY <1>3 DEF SwapLoses
    <2>2. /\ again \notin {"arriving", "saving", "finishing", "swap"}
          /\ Follows(r, again)
        BY <1>0, <1>3, <2>1 DEF Follows, RequestPCs, Locked
    <2> QED
        BY <1>0, <1>v, <2>1, <2>2, Moves
<1>4. CASE Looks(r)
    BY <1>4, LooksIInv
<1>5. CASE Locks(r)
    BY <1>5, LocksIInv
<1>6. CASE Unmatched(r) \/ Spent(r)
    <2>1. /\ pc[r] = "decide" /\ Goto(r, "save")
          /\ UNCHANGED <<snap, heap, lock, draft, next, fired, dropped>>
          /\ verdict' \in [Requests -> {"none", "passed", "faulted"}]
        BY <1>6, <1>v DEF Unmatched, Spent
    <2>2. Follows(r, "save")
        BY <1>0, <2>1 DEF Follows, RequestPCs, Locked
    <2> QED
        BY <1>0, <2>1, <2>2, Moves
<1>7. CASE Decides(r)
    BY <1>7, DecidesIInv
<1>8. CASE SaveLoads(r)
    <2>1. PICK t \in EventTimes : Attempt(r, Merged(snap, draft[r], t))
        BY <1>8 DEF SaveLoads
    <2> DEFINE m == Merged(snap, draft[r], t)
    <2> DEFINE l == IF pc[r] = "save" THEN "saving" ELSE "finishing"
    <2>2. /\ pc[r] \in {"save", "final"} /\ Goto(r, l)
          /\ heap' = IF draft[r].map = 0 THEN HeapWithClone(snap) ELSE heap
          /\ UNCHANGED <<snap, lock, draft, verdict, fired, dropped>>
        BY <1>8 DEF SaveLoads
    <2>3. Follows(r, l) /\ l # "done"
        BY <1>0, <2>2 DEF Follows, RequestPCs, Locked
    <2>4. draft[r] \in Sessions /\ draft[r].map <= Len(heap) /\ t \in Nat
        BY <1>v, FaultAssumption DEF TypeOK, MapsExist
    <2>5. /\ m \in Sessions /\ m.ver = snap.ver /\ (m.map = 0 => snap.map = 0)
          /\ (draft[r].map # 0 => m.map = draft[r].map)
          /\ m.map <= Len(heap') /\ m.arm = draft[r].arm
        BY <1>v, <2>2, <2>4, MergeFacts
    <2>6. (FaultPublished /\ Single /\ Undisturbed) => m.arm = None
        BY <2>5 DEF FaultPublished
    <2>7. heap' \in {heap, HeapWithClone(snap)} /\ Attempt(r, m)
        BY <2>1, <2>2
    <2> HIDE DEF m, l
    <2> QED
        BY <1>0, <2>2, <2>3, <2>5, <2>6, <2>7, Attempts
<1>9. CASE SaveDropped(r)
    BY <1>9, DroppedIInv
<1>10. CASE Saved(r)
    <2>1. /\ pc[r] = "saving" /\ Swaps(r) /\ Goto(r, AfterUnlock(r)) /\ lock' = None
          /\ UNCHANGED <<heap, draft, next, verdict, fired, dropped>>
        BY <1>10 DEF Saved
    <2>2. AfterUnlock(r) \in {"count", "final"}
        BY DEF AfterUnlock
    <2>3. AfterUnlock(r) \in RequestPCs \ Locked
        BY <2>2 DEF RequestPCs, Locked
    <2> QED
        BY <1>0, <2>1, <2>2, <2>3, Publishes DEF Pending
<1>11. CASE Counts(r)
    BY <1>11, CountsIInv
<1>12. CASE FinalDropped(r)
    <2>1. /\ pc[r] = "final" /\ Goto(r, AfterFinal(r))
          /\ UNCHANGED <<snap, heap, lock, draft, next, verdict, fired, dropped>>
        BY <1>12 DEF FinalDropped
    <2>2. AfterFinal(r) \in {"count", "done"}
        BY DEF AfterFinal
    <2>3. Follows(r, AfterFinal(r))
        BY <1>0, <2>1, <2>2 DEF Follows, RequestPCs, Locked
    <2> QED
        BY <1>0, <1>v, <2>1, <2>2, <2>3, Moves
<1>13. CASE Finishes(r)
    <2>1. /\ pc[r] = "finishing" /\ Swaps(r) /\ Goto(r, AfterFinal(r))
          /\ UNCHANGED <<heap, lock, draft, next, verdict, fired, dropped>>
        BY <1>13 DEF Finishes
    <2>2. AfterFinal(r) \in {"count", "done"}
        BY DEF AfterFinal
    <2>3. AfterFinal(r) \in RequestPCs \ Locked
        BY <2>2 DEF RequestPCs, Locked
    <2> QED
        BY <1>0, <2>1, <2>2, <2>3, Publishes DEF Pending
<1> QED
    BY <1>1, <1>2, <1>3, <1>4, <1>5, <1>6, <1>7, <1>8, <1>9, <1>10, <1>11, <1>12,
       <1>13 DEF Handle

(***************************************************************************)
(* The actions of the control API.                                         *)
(***************************************************************************)
LEMMA WriteIInv == ASSUME IInv, NEW w \in Writers, Write(w) PROVE IInv'
<1>0. w \in Goroutines /\ w \notin Requests
    BY FaultAssumption DEF Goroutines, Writers
<1>v. TypeOK /\ MapsExist /\ verdict \in [Requests -> {"none", "passed", "faulted"}]
    BY DEF IInv, TypeOK
<1>1. ASSUME w \in Posts, PostLoads(w)
      PROVE  IInv'
    <2>1. PICK t \in EventTimes : Attempt(w, [Cloned(snap) EXCEPT !.et = t])
        BY <1>1 DEF PostLoads
    <2> DEFINE m == [Cloned(snap) EXCEPT !.et = t]
    <2>2. /\ pc[w] = "load" /\ Goto(w, "swap") /\ heap' = HeapWithClone(snap)
          /\ UNCHANGED <<snap, lock, draft, verdict, fired, dropped>>
        BY <1>1 DEF PostLoads
    <2>3. Follows(w, "swap")
        BY <1>0, <2>2 DEF Follows, WriterPCs
    <2>4. t \in Nat
        BY FaultAssumption
    <2>5. /\ m \in Sessions /\ m.ver = snap.ver /\ (m.map = 0 => snap.map = 0)
          /\ m.map <= Len(heap') /\ m.arm = snap.arm
        <3>1. /\ Cloned(snap) \in Sessions /\ Cloned(snap).ver = snap.ver
              /\ Cloned(snap).arm = snap.arm
              /\ (Cloned(snap).map = 0 => snap.map = 0)
              /\ Cloned(snap).map <= Len(heap')
            BY <1>v, <2>2, CloneFacts
        <3>2. /\ m \in Sessions /\ m.ver = Cloned(snap).ver
              /\ m.map = Cloned(snap).map /\ m.arm = Cloned(snap).arm
            BY <3>1, <2>4 DEF Sessions
        <3> QED
            BY <3>1, <3>2
    <2>6. (FaultPublished /\ Single /\ Undisturbed) => m.arm = None
        BY <2>5 DEF FaultPublished
    <2>7. Attempt(w, m)
        BY <2>1
    <2> HIDE DEF m
    <2> QED
        BY <1>0, <2>2, <2>3, <2>5, <2>6, <2>7, Attempts
<1>2. ASSUME w \in Patches, PatchLoads(w)
      PROVE  IInv'
    <2> DEFINE m == [snap EXCEPT !.arm = w, !.map = 0]
    <2>1. /\ pc[w] = "load" /\ Goto(w, "swap") /\ Attempt(w, m)
          /\ UNCHANGED <<snap, heap, lock, draft, verdict, fired, dropped>>
        BY <1>2 DEF PatchLoads
    <2>2. Follows(w, "swap")
        BY <1>0, <2>1 DEF Follows, WriterPCs
    <2>3. m \in Sessions /\ m.ver = snap.ver /\ m.map = 0
        BY <1>v, <1>2 DEF TypeOK, Sessions, Arms
    <2>4. m.map <= Len(heap') /\ heap' \in {heap, HeapWithClone(snap)}
        BY <1>v, <2>1, <2>3 DEF TypeOK
    <2> HIDE DEF m
    <2> QED
        BY <1>0, <1>2, <2>1, <2>2, <2>3, <2>4, Attempts
<1>3. CASE WriterSwaps(w)
    <2>1. /\ pc[w] = "swap" /\ Swaps(w) /\ Goto(w, "done")
          /\ UNCHANGED <<heap, lock, draft, next, verdict, fired, dropped>>
        BY <1>3 DEF WriterSwaps
    <2> QED
        BY <1>0, <2>1, Publishes DEF Pending, WriterPCs
<1>4. CASE SwapLoses(w, "swap", "load")
    <2>1. /\ pc[w] = "swap" /\ Goto(w, "load")
          /\ UNCHANGED <<snap, heap, lock, draft, next, verdict, fired, dropped>>
        BY <1>4 DEF SwapLoses
    <2>2. Follows(w, "load")
        BY <1>0, <2>1 DEF Follows, WriterPCs
    <2> QED
        BY <1>0, <1>v, <2>1, <2>2, Moves
<1> QED
    BY <1>1, <1>2, <1>3, <1>4 DEF Write

(* Every step keeps the invariant. *)
LEMMA NextIInv == IInv /\ [Next]_vars => IInv'
<1> SUFFICES ASSUME IInv, [Next]_vars PROVE IInv'
    OBVIOUS
<1>1. CASE UNCHANGED vars
    BY <1>1 DEF vars, IInv, TypeOK, LockHeld, MapsExist, SwapsKeepMap, Pending,
        CopiesSpent, FaultPublished, SingleFires, Undisturbed
<1>2. ASSUME NEW r \in Requests, Handle(r) PROVE IInv'
    BY <1>2, HandleIInv
<1>3. ASSUME NEW w \in Writers, Write(w) PROVE IInv'
    BY <1>3, WriteIInv
<1> QED
    BY <1>1, <1>2, <1>3 DEF Next

(***************************************************************************)
(* The inductive invariant.                                                *)
(***************************************************************************)
THEOREM Invariance == Spec => []IInv
BY InitIInv, NextIInv, PTL DEF Spec

(***************************************************************************)
(* A rule of one fault fires once, however many requests overlap, as long  *)
(* as it is not armed again and no locked save is dropped.                 *)
(***************************************************************************)
THEOREM FiresOnce == Spec => []SingleFires
BY Invariance, PTL DEF IInv

(***************************************************************************)
(* The decisions of two requests never overlap.                            *)
(***************************************************************************)
THEOREM DecisionsExclusive ==
    Spec => [](\A q, r \in Requests : pc[q] \in Locked /\ pc[r] \in Locked => q = r)
<1>1. IInv => \A q, r \in Requests : pc[q] \in Locked /\ pc[r] \in Locked => q = r
    BY DEF IInv, LockHeld
<1> QED
    BY <1>1, Invariance, PTL

(***************************************************************************)
(* Nobody publishes an event time that was not posted.                     *)
(***************************************************************************)
LEMMA TimesMerged ==
    ASSUME TypeOK, TimesPosted, NEW r \in Requests, NEW t \in EventTimes
    PROVE  Merged(snap, draft[r], t).et \in EventTimes \cup {0}
<1>1. /\ snap \in Sessions /\ draft[r] \in Sessions
      /\ snap.et \in EventTimes \cup {0} /\ draft[r].et \in EventTimes \cup {0}
    BY DEF TypeOK, TimesPosted
<1>2. Cloned(snap) \in [ver : Nat, arm : Arms, map : {Cloned(snap).map}, et : {snap.et},
                        tally : Nat]
    BY <1>1 DEF Cloned, Sessions
<1>3. Latest(Cloned(snap).et, t) \in EventTimes \cup {0}
    BY <1>1, <1>2 DEF Latest
<1> QED
    BY <1>1, <1>2, <1>3 DEF Merged

LEMMA TimesKept == TypeOK /\ TimesPosted /\ [Next]_vars => TimesPosted'
<1> SUFFICES ASSUME TypeOK, TimesPosted, [Next]_vars PROVE TimesPosted'
    OBVIOUS
<1> DEFINE Times == EventTimes \cup {0}
<1>0. /\ Requests \subseteq Goroutines /\ Writers \subseteq Goroutines
      /\ snap \in Sessions /\ snap.et \in Times
      /\ draft \in [Requests -> Sessions]
      /\ next \in [Goroutines -> Sessions]
    BY DEF Goroutines, TypeOK, TimesPosted
<1>1. Cloned(snap).et = snap.et
    BY <1>0 DEF Cloned, Sessions
<1>2. ASSUME NEW g \in Goroutines, NEW s, s.et \in Times, Attempt(g, s),
             UNCHANGED <<snap, draft>>
      PROVE  TimesPosted'
    BY <1>0, <1>2 DEF Attempt, TimesPosted
<1>3. ASSUME NEW g \in Goroutines, Swaps(g), UNCHANGED <<draft, next>>
      PROVE  TimesPosted'
    <2>1. snap'.et = next[g].et
        BY <1>0, <1>3 DEF Swaps, Sessions
    <2> QED
        BY <2>1, <1>3 DEF TimesPosted
<1>4. ASSUME NEW r \in Requests, NEW d \in Sessions, d.et \in Times,
             draft' = [draft EXCEPT ![r] = d], UNCHANGED <<snap, next>>
      PROVE  TimesPosted'
    BY <1>0, <1>4 DEF TimesPosted
<1>5. CASE UNCHANGED <<snap, draft, next>>
    BY <1>5 DEF TimesPosted
<1>6. ASSUME NEW r \in Requests, Handle(r) PROVE TimesPosted'
    <2>1. CASE Arrives(r)
        BY <2>1, <1>0, <1>1, <1>2 DEF Arrives
    <2>2. CASE Arrived(r) \/ Saved(r) \/ Finishes(r)
        BY <2>2, <1>0, <1>3 DEF Arrived, Saved, Finishes
    <2>3. CASE Looks(r)
        <3>1. Cloned(snap) \in [ver : Nat, arm : Arms, map : {Cloned(snap).map},
                                et : Nat, tally : Nat]
            BY <1>0 DEF Cloned, Sessions
        <3> QED
            BY <2>3, <1>0, <1>1 DEF Looks, TimesPosted
    <2>4. CASE Locks(r)
        BY <2>4, <1>0 DEF Locks, TimesPosted, Sessions
    <2>5. CASE Decides(r)
        <3>1. /\ UNCHANGED <<snap, next>>
              /\ draft' = draft \/ \E m : draft' = [draft EXCEPT ![r].map = m]
            BY <2>5 DEF Decides
        <3> QED
            BY <3>1, <1>0 DEF TimesPosted, Sessions
    <2>6. CASE Counts(r)
        BY <2>6, <1>0 DEF Counts, TimesPosted, Sessions
    <2>7. CASE SaveLoads(r)
        <3>1. PICK t \in EventTimes : Attempt(r, Merged(snap, draft[r], t))
            BY <2>7 DEF SaveLoads
        <3> QED
            BY <2>7, <3>1, <1>0, <1>2, TimesMerged DEF SaveLoads
    <2>8. CASE \/ Unmatched(r) \/ Spent(r) \/ SaveDropped(r) \/ FinalDropped(r)
               \/ SwapLoses(r, "arriving", "arrive") \/ SwapLoses(r, "saving", "save")
               \/ SwapLoses(r, "finishing", "final")
        BY <2>8, <1>5 DEF Unmatched, Spent, SaveDropped, FinalDropped, SwapLoses
    <2> QED
        BY <1>6, <2>1, <2>2, <2>3, <2>4, <2>5, <2>6, <2>7, <2>8 DEF Handle
<1>7. ASSUME NEW w \in Writers, Write(w) PROVE TimesPosted'
    <2>1. CASE PostLoads(w)
        <3>1. PICK t \in EventTimes : Attempt(w, [Cloned(snap) EXCEPT !.et = t])
            BY <2>1 DEF PostLoads
        <3>2. [Cloned(snap) EXCEPT !.et = t].et = t
            BY <1>0 DEF Cloned, Sessions
        <3> QED
            BY <2>1, <3>1, <3>2, <1>0, <1>2 DEF PostLoads
    <2>2. CASE PatchLoads(w)
        <3>1. [snap EXCEPT !.arm = w, !.map = 0].et = snap.et
            BY <1>0 DEF Sessions
        <3> QED
            BY <2>2, <3>1, <1>0, <1>2 DEF PatchLoads
    <2>3. CASE WriterSwaps(w)
        BY <2>3, <1>0, <1>3 DEF WriterSwaps
    <2>4. CASE SwapLoses(w, "swap", "load")
        BY <2>4, <1>5 DEF SwapLoses
    <2> QED
        BY <1>7, <2>1, <2>2, <2>3, <2>4 DEF Write
<1> QED
    BY <1>5, <1>6, <1>7 DEF Next, vars

(***************************************************************************)
(* Whoever waits for the mutex waits for a request that is deciding or     *)
(* saving, and those steps wait for nothing; a metrics POST always has an  *)
(* event time that is not an old one.                                      *)
(***************************************************************************)
THEOREM NobodyIsStuck == Spec => []NobodyStuck
<1>1. Init => TimesPosted
    <2> SUFFICES ASSUME Init PROVE TimesPosted
        OBVIOUS
    <2>1. Initial.et = 0 /\ [Initial EXCEPT !.map = 1].et = 0
        BY DEF Initial
    <2>2. snap = Initial \/ snap = [Initial EXCEPT !.map = 1]
        BY DEF Init, Untouched, UsedUp
    <2>3. /\ \A r \in Requests : draft[r] = Initial
          /\ \A g \in Goroutines : next[g] = Initial
        BY DEF Init
    <2> QED
        BY <2>1, <2>2, <2>3 DEF TimesPosted
<1>2. IInv /\ TimesPosted => NobodyStuck
    <2> SUFFICES ASSUME IInv, TimesPosted, NEW g \in Goroutines, pc[g] # "done",
                        ~CanStep(g)
                 PROVE  lock # None /\ CanStep(lock)
        BY DEF NobodyStuck
    <2>1. PICK t \in EventTimes : TRUE
        BY FaultAssumption
    <2>2. 0 \in Nat /\ snap.et \in EventTimes \cup {0} /\ EventTimes \subseteq Nat
        BY FaultAssumption DEF TimesPosted
    <2>3. \E u \in EventTimes : u >= snap.et
        <3>1. CASE snap.et = 0
            BY <3>1, <2>1, <2>2
        <3>2. CASE snap.et # 0
            <4>1. snap.et \in EventTimes
                BY <3>2, <2>2
            <4>2. snap.et \in Nat
                BY <2>2, <4>1
            <4>3. snap.et >= snap.et
                BY <4>2
            <4> QED  BY <4>1, <4>3
        <3> QED  BY <3>1, <3>2
    <2>4. lock # None
        BY <2>3 DEF CanStep
    <2>5. lock \in Requests /\ pc[lock] \in Locked
        BY <2>4 DEF IInv, TypeOK, LockHeld
    <2> QED
        BY <2>4, <2>5 DEF CanStep, Locked
<1>3. IInv => TypeOK
    BY DEF IInv
<1> QED
    BY <1>1, <1>2, <1>3, TimesKept, Invariance, PTL DEF Spec
=============================================================================
