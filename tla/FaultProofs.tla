----------------------------- MODULE FaultProofs -----------------------------
(***************************************************************************)
(* Proofs about the two kinds of fault: FaultCadence, for any rules, any   *)
(* number of requests and any clock, and TransportFault, for any handlers. *)
(***************************************************************************)
EXTENDS FaultCadence, TransportFault, TLAPS

(***************************************************************************)
(* A window and the gap after it make a cycle, in the rule's own units.    *)
(***************************************************************************)
LEMMA WindowAndGap ==
    ASSUME NEW r \in Rules
    PROVE  /\ Consecutive(r) \in Nat \ {0}
           /\ Width(r) \in Nat \ {0}
           /\ Gap(r) \in Nat
<1>1. Consecutive(r) \in Nat \ {0} /\ r.frequency \in Nat
    BY DEF Rules, Consecutive
<1>2. \A n \in Nat : n * Second \in Nat /\ (n # 0 => n * Second # 0)
    BY SecondAssumption
<1>3. r.mode \in Modes
    BY DEF Rules
<1> QED
    BY <1>1, <1>2, <1>3 DEF Width, Gap, Modes

(***************************************************************************)
(* The parts of a rule's state have the types the engine gives them.       *)
(***************************************************************************)
LEMMA Units ==
    ASSUME NEW r \in Rules, NEW s \in RuleStates, NEW t \in Nat, NEW b \in Nat
    PROVE  /\ Position(r, s.count + 1, t) \in Nat
           /\ Progress(r, s.count + 1, t) \in Nat
           /\ Opening(r, s, b) \in Nat
BY DEF Rules, RuleStates, Schedules, Nil, Modes, Position, Progress, Opening

(***************************************************************************)
(* What a request does to the rule's state, phase by phase.                *)
(***************************************************************************)
LEMMA AfterPhases ==
    ASSUME NEW r \in Rules, NEW s \in RuleStates, NEW t \in Nat, NEW b \in Nat
    PROVE  LET a == After(r, s, t, b)
               c == s.count + 1
           IN  /\ s.done => a = s
               /\ (~s.done /\ Continuous(r)) => a = [s EXCEPT !.count = c]
               /\ TooEarly(r, s, t, b) =>
                    a = [count |-> c, at |-> Opening(r, s, b),
                         recover |-> s.recover, done |-> FALSE]
               /\ Opens(r, s, t, b) =>
                    a = [count |-> c, at |-> Opening(r, s, b),
                         recover |-> Progress(r, c, t) + Width(r), done |-> FALSE]
               /\ Within(r, s, t, b) =>
                    a = [count |-> c, at |-> Opening(r, s, b),
                         recover |-> s.recover, done |-> FALSE]
               /\ (Over(r, s, t, b) /\ r.frequency > 0) =>
                    a = [count |-> c, at |-> Position(r, c, t) + Gap(r),
                         recover |-> Nil, done |-> FALSE]
               /\ (Over(r, s, t, b) /\ r.frequency = 0) =>
                    a = [count |-> c, at |-> Nil, recover |-> Nil, done |-> TRUE]
<1> DEFINE c == s.count + 1
<1> DEFINE early == Position(r, c, t) < Opening(r, s, b)
<1> DEFINE within == Progress(r, c, t) < s.recover
<1>1. /\ TooEarly(r, s, t, b) <=> (~s.done /\ ~Continuous(r) /\ early)
      /\ Due(r, s, t, b) <=> (~s.done /\ ~Continuous(r) /\ ~early)
    BY Units DEF TooEarly, Due, Counted
<1>2. /\ Opens(r, s, t, b) <=> (Due(r, s, t, b) /\ s.recover = Nil)
      /\ Within(r, s, t, b) <=> (Due(r, s, t, b) /\ s.recover # Nil /\ within)
      /\ Over(r, s, t, b) <=> (Due(r, s, t, b) /\ s.recover # Nil /\ ~within)
    BY DEF Opens, Within, Over
<1>3. r.frequency \in Nat
    BY DEF Rules
<1> HIDE DEF early, within
<1> QED
    BY <1>1, <1>2, <1>3 DEF After, Retired

(* How a cycle relates to the width and the gap of a window, in each mode. *)
LEMMA CycleFits ==
    ASSUME rule \in Rules
    PROVE  /\ Cycle \in Nat
           /\ rule.mode # "failures_per_seconds" => Width(rule) + Gap(rule) >= Cycle
           /\ rule.mode = "failures_per_seconds" => Gap(rule) = Cycle
<1>1. Consecutive(rule) \in Nat \ {0} /\ rule.frequency \in Nat
    BY DEF Rules, Consecutive
<1>2. \A n \in Nat : n * Second \in Nat
    BY SecondAssumption
<1>3. \A m, n \in Nat : n > m => m * Second + (n - m) * Second = n * Second
    BY SecondAssumption
<1>4. rule.mode \in Modes
    BY DEF Rules
<1> QED
    BY <1>1, <1>2, <1>3, <1>4 DEF Width, Gap, Cycle, Modes

(* The invariant holds of a rule no request has matched. *)
LEMMA InitIInv == Init => IInv
<1> SUFFICES ASSUME Init PROVE IInv
    OBVIOUS
<1>1. rule \in Rules /\ rule.frequency \in Nat
    BY CadenceAssumption DEF Init, Rules
<1>2. Consecutive(rule) \in Nat
    BY <1>1, WindowAndGap
<1> QED
    BY <1>1, <1>2, CadenceAssumption
    DEF Init, IInv, TypeOK, Fresh, RuleStates, Schedules, Nil, Windows, NoWindow,
        IsOpen, HasFired, OpenWindow, NextWindow, OneShot

(* Requests and ticks keep the invariant. *)
LEMMA NextIInv == IInv /\ [Next]_vars => IInv'
<1> SUFFICES ASSUME IInv, [Next]_vars PROVE IInv'
    OBVIOUS
<1>r. rule \in Rules /\ rule.frequency \in Nat /\ rule.mode \in Modes
    BY CadenceAssumption DEF IInv, TypeOK, Rules
<1>c. /\ Consecutive(rule) \in Nat \ {0}
      /\ Width(rule) \in Nat \ {0}
      /\ Gap(rule) \in Nat
    BY <1>r, WindowAndGap
<1>y. /\ Cycle \in Nat
      /\ rule.mode # "failures_per_seconds" => Width(rule) + Gap(rule) >= Cycle
      /\ rule.mode = "failures_per_seconds" => Gap(rule) = Cycle
    BY <1>r, CycleFits
<1>w. rule.mode # "seconds" => Width(rule) = Consecutive(rule)
    BY DEF Width
<1>t. /\ st \in RuleStates /\ st.count \in Nat /\ st.at \in Nat \cup {Nil}
      /\ st.recover \in Nat \cup {Nil} /\ st.done \in BOOLEAN
      /\ now \in Nat /\ total \in Nat
      /\ open \in Windows /\ open.from \in Nat /\ open.since \in Nat /\ open.hits \in Nat
    BY DEF IInv, TypeOK, RuleStates, Schedules, Windows
<1>1. CASE UNCHANGED vars
    BY <1>1 DEF IInv, TypeOK, IsOpen, HasFired, OpenWindow, NextWindow, OneShot, Cycle, vars
<1>2. CASE Tick
    <2>1. now' = now + 1 /\ UNCHANGED <<rule, st, open, total>>
        BY <1>2 DEF Tick
    <2>2. Cycle' = Cycle
        BY <2>1 DEF Cycle
    <2>3. Position(rule, st.count, now)' >= Position(rule, st.count, now)
        BY <1>t, <2>1 DEF Position
    <2>4. Position(rule, st.count, now) \in Nat
        BY <1>t DEF Position
    <2> QED
        BY <1>t, <1>c, <2>1, <2>2, <2>3, <2>4
        DEF IInv, TypeOK, IsOpen, HasFired, OpenWindow, NextWindow, OneShot, Position
<1>3. ASSUME NEW b \in {now, now + 1}, Request(b)
      PROVE  /\ b \in Nat
             /\ st' = After(rule, st, now, b)
             /\ rule' = rule /\ now' = now /\ Cycle' = Cycle
             /\ Opening(rule, st, b) \in Nat
             /\ Position(rule, st.count + 1, now) \in Nat
             /\ Progress(rule, st.count + 1, now) \in Nat
    BY <1>3, <1>t, <1>r, Units DEF Request, Cycle
<1>4. ASSUME NEW b \in {now, now + 1}, FaultOpens(b)
      PROVE  IInv'
    <2> DEFINE n == st.count + 1
    <2>1. Opens(rule, st, now, b) /\ Request(b)
        BY <1>4 DEF FaultOpens
    <2>2. /\ st.recover = Nil /\ ~st.done /\ ~Continuous(rule)
          /\ Opening(rule, st, b) <= Position(rule, n, now)
        BY <2>1, <1>3 DEF Opens, Due, Counted
    <2>3. st' = [count |-> n, at |-> Opening(rule, st, b),
                 recover |-> Progress(rule, n, now) + Width(rule), done |-> FALSE]
        BY <2>1, <1>3, <1>r, <1>t, AfterPhases
    <2>4. open' = [from |-> n, since |-> now, hits |-> 1] /\ total' = total + 1
        BY <1>4 DEF FaultOpens
    <2>5. rule.frequency = 0 => ~HasFired
        BY <2>2, <1>t DEF IInv, NextWindow, IsOpen
    <2>6. rule.frequency = 0 => total = 0
        BY <2>5, <2>2, <1>t DEF IInv, OneShot, HasFired
    <2>7. TypeOK'
        BY <2>3, <2>4, <1>3, <2>1, <1>t, <1>c
        DEF IInv, TypeOK, RuleStates, Schedules, Windows
    <2>8. OpenWindow'
        BY <2>2, <2>3, <2>4, <1>3, <2>1, <1>t, <1>c, <1>w
        DEF OpenWindow, IsOpen, HasFired, Nil, Progress, Position
    <2> QED
        BY <2>2, <2>3, <2>4, <2>6, <2>7, <2>8, <1>3, <2>1, <1>t, <1>c
        DEF IInv, NextWindow, OneShot, IsOpen, HasFired, Nil
<1>5. ASSUME NEW b \in {now, now + 1}, FaultContinues(b)
      PROVE  IInv'
    <2> DEFINE n == st.count + 1
    <2>1. Within(rule, st, now, b) /\ Request(b)
        BY <1>5 DEF FaultContinues
    <2>2. /\ IsOpen /\ ~st.done /\ ~Continuous(rule)
          /\ Progress(rule, n, now) < st.recover
        BY <2>1, <1>3 DEF Within, Due, Counted, IsOpen
    <2>3. Opening(rule, st, b) = st.at
        BY <2>2, <1>t, <1>r DEF IInv, OpenWindow, Opening, Modes
    <2>4. st' = [count |-> n, at |-> st.at, recover |-> st.recover, done |-> FALSE]
        BY <2>1, <2>3, <1>3, <1>r, <1>t, AfterPhases
    <2>5. open' = [open EXCEPT !.hits = @ + 1] /\ total' = total + 1
        BY <1>5 DEF FaultContinues
    <2>6. /\ open'.from = open.from /\ open'.since = open.since
          /\ open'.hits = open.hits + 1 /\ open' \in Windows
        BY <2>5, <1>t DEF Windows
    <2>7. TypeOK'
        BY <2>4, <2>5, <2>6, <1>3, <2>1, <1>t
        DEF IInv, TypeOK, RuleStates, Schedules
    <2>8. OpenWindow'
        BY <2>2, <2>4, <2>6, <1>3, <2>1, <1>t, <1>c
        DEF IInv, OpenWindow, IsOpen, HasFired, Progress, Position
    <2>9. OneShot'
        <3>1. rule.mode # "seconds" => open.hits + 1 <= Consecutive(rule)
            BY <2>2, <1>t, <1>c, <1>w DEF IInv, OpenWindow, Progress
        <3> QED
            BY <3>1, <2>2, <2>5, <2>6, <1>3, <2>1, <1>t, <1>c DEF IInv, OneShot
    <2> QED
        BY <2>2, <2>4, <2>6, <2>7, <2>8, <2>9, <1>3, <2>1, <1>t
        DEF IInv, NextWindow, IsOpen, HasFired
<1>6. ASSUME NEW b \in {now, now + 1}, FaultAlways(b)
      PROVE  IInv'
    <2>1. ~st.done /\ Continuous(rule) /\ Request(b)
        BY <1>6 DEF FaultAlways
    <2>2. st' = [st EXCEPT !.count = st.count + 1]
        BY <2>1, <1>3, <1>r, <1>t, AfterPhases
    <2>3. /\ st'.count = st.count + 1 /\ st'.recover = st.recover
          /\ st'.done = st.done /\ st'.at = st.at /\ st' \in RuleStates
        BY <2>2, <1>t DEF RuleStates
    <2>4. open' = open /\ total' = total + 1
        BY <1>6 DEF FaultAlways
    <2> QED
        BY <2>1, <2>3, <2>4, <1>3, <1>t
        DEF IInv, TypeOK, IsOpen, HasFired, OpenWindow, NextWindow, OneShot
<1>7. ASSUME NEW b \in {now, now + 1}, Passes(b)
      PROVE  IInv'
    <2> DEFINE n == st.count + 1
    <2>1. ~Fails(rule, st, now, b) /\ Request(b) /\ UNCHANGED <<open, total>>
        BY <1>7 DEF Passes
    <2>2. CASE st.done
        <3>1. st' = st
            BY <2>2, <2>1, <1>3, <1>r, <1>t, AfterPhases
        <3> QED
            BY <3>1, <2>1, <1>3 DEF IInv, TypeOK, IsOpen, HasFired, OpenWindow,
                NextWindow, OneShot
    <2>3. CASE ~st.done
        <3>1. Counted(rule, st) /\ ~Continuous(rule)
            BY <2>3, <2>1 DEF Fails, Counted
        <3>2. CASE TooEarly(rule, st, now, b)
            <4>1. st' = [count |-> n, at |-> Opening(rule, st, b),
                         recover |-> st.recover, done |-> FALSE]
                BY <3>2, <2>1, <1>3, <1>r, <1>t, AfterPhases
            <4>2. Position(rule, n, now) < Opening(rule, st, b)
                BY <3>2 DEF TooEarly
            <4>3. st.at # Nil => Opening(rule, st, b) = st.at
                BY <1>r DEF Opening, Modes
            <4>4. ~IsOpen
                BY <4>2, <4>3, <1>t, <1>r
                DEF IInv, OpenWindow, IsOpen, Position, Modes
            <4>5. Position(rule, n, now) >= Position(rule, st.count, now)
                BY <1>t DEF Position
            <4>6. Position(rule, st.count, now) \in Nat
                BY <1>t DEF Position
            <4>7. TypeOK'
                BY <4>1, <2>1, <1>3, <1>t DEF IInv, TypeOK, RuleStates, Schedules
            <4>8. NextWindow'
                BY <4>1, <4>3, <4>4, <4>5, <4>6, <3>1, <2>1, <2>3, <1>3, <1>t, <1>c, <1>y
                DEF IInv, NextWindow, IsOpen, HasFired, Position
            <4> QED
                BY <4>1, <4>4, <4>7, <4>8, <3>1, <2>1, <2>3, <1>3, <1>t
                DEF IInv, OpenWindow, OneShot, IsOpen, HasFired
        <3>3. CASE Over(rule, st, now, b)
            <4>1. IsOpen /\ ~(Progress(rule, n, now) < st.recover)
                BY <3>3 DEF Over, Within, IsOpen
            <4>2. CASE rule.frequency > 0
                <5>1. st' = [count |-> n, at |-> Position(rule, n, now) + Gap(rule),
                             recover |-> Nil, done |-> FALSE]
                    BY <3>3, <4>2, <2>1, <1>3, <1>r, <1>t, AfterPhases
                <5>2. Position(rule, n, now) + Gap(rule)
                        >= Position(rule, open.from, open.since) + Cycle
                    BY <4>1, <1>t, <1>c, <1>y, <1>w, <1>r
                    DEF IInv, OpenWindow, Position, Progress, Modes
                <5>3. TypeOK'
                    BY <5>1, <2>1, <1>3, <1>t, <1>c
                    DEF IInv, TypeOK, RuleStates, Schedules
                <5>4. NextWindow'
                    BY <5>1, <5>2, <4>2, <2>1, <1>3, <1>t, <1>c
                    DEF NextWindow, Nil, Position
                <5> QED
                    BY <5>1, <5>3, <5>4, <4>1, <4>2, <3>1, <2>1, <1>3, <1>t
                    DEF IInv, OpenWindow, OneShot, IsOpen, HasFired
            <4>3. CASE rule.frequency = 0
                <5>1. st' = [count |-> n, at |-> Nil, recover |-> Nil, done |-> TRUE]
                    BY <3>3, <4>3, <2>1, <1>3, <1>r, <1>t, AfterPhases
                <5>2. TypeOK'
                    BY <5>1, <2>1, <1>3, <1>t DEF IInv, TypeOK, RuleStates, Schedules
                <5> QED
                    BY <5>1, <5>2, <4>1, <4>3, <3>1, <2>1, <1>3, <1>t
                    DEF IInv, OpenWindow, NextWindow, OneShot, IsOpen, HasFired
            <4> QED BY <4>2, <4>3, <1>r
        <3> QED
            BY <3>1, <3>2, <3>3, <2>1, <2>3, <1>3, <1>t
            DEF Fails, Opens, Within, Over, TooEarly, Due, Counted
    <2> QED BY <2>2, <2>3
<1> QED
    BY <1>1, <1>2, <1>4, <1>5, <1>6, <1>7 DEF Next

(***************************************************************************)
(* The inductive invariant of a rule.                                      *)
(***************************************************************************)
THEOREM Invariance == Spec => []IInv
BY InitIInv, NextIInv, PTL DEF Spec

(***************************************************************************)
(* A one-shot rule has one window, of so many requests where its window is *)
(* counted in requests, whenever the requests come.                        *)
(***************************************************************************)
THEOREM OneShotOnce == Spec => []OneShot
BY Invariance, PTL DEF IInv

(***************************************************************************)
(* What the invariant says of the rule, its state and its latest window.   *)
(***************************************************************************)
LEMMA Parts ==
    ASSUME IInv
    PROVE  /\ rule \in Rules /\ rule.mode \in Modes
           /\ Consecutive(rule) \in Nat \ {0} /\ Width(rule) \in Nat \ {0}
           /\ rule.mode # "seconds" => Width(rule) = Consecutive(rule)
           /\ Cycle \in Nat
           /\ st \in RuleStates /\ st.count \in Nat
           /\ st.at \in Nat \cup {Nil} /\ st.recover \in Nat \cup {Nil}
           /\ now \in Nat /\ total \in Nat
           /\ open.from \in Nat /\ open.since \in Nat /\ open.hits \in Nat
<1>1. rule \in Rules /\ rule.mode \in Modes
    BY CadenceAssumption DEF IInv, TypeOK, Rules
<1>2. st \in RuleStates /\ open \in Windows /\ now \in Nat /\ total \in Nat
    BY DEF IInv, TypeOK
<1> QED
    BY <1>1, <1>2, WindowAndGap, CycleFits
    DEF Width, RuleStates, Schedules, Windows

(***************************************************************************)
(* What opens a window, keeps it open and closes it.                       *)
(***************************************************************************)
LEMMA WindowSteps ==
    ASSUME IInv, NEW b \in {now, now + 1}, Request(b)
    PROVE  /\ rule' = rule /\ now' = now
           /\ Opens(rule, st, now, b) =>
                /\ ~IsOpen /\ ~st.done
                /\ (st.at # Nil => st.at <= Position(rule, st.count + 1, now))
                /\ st'.count = st.count + 1
           /\ Within(rule, st, now, b) =>
                /\ IsOpen /\ st'.recover = st.recover
                /\ Progress(rule, st.count + 1, now) < st.recover
           /\ ~st.done /\ Continuous(rule) => st'.recover = st.recover
           /\ ~Fails(rule, st, now, b) =>
                \/ st'.recover = st.recover
                \/ /\ IsOpen /\ st'.recover = Nil
                   /\ Progress(rule, st.count + 1, now) >= st.recover
<1> DEFINE n == st.count + 1
<1>1. /\ st' = After(rule, st, now, b) /\ rule' = rule /\ now' = now
      /\ now \in Nat /\ b \in Nat
    BY Parts DEF Request
<1>2. /\ Position(rule, n, now) \in Nat /\ Progress(rule, n, now) \in Nat
      /\ Opening(rule, st, b) \in Nat
    BY <1>1, Parts, Units
<1>3. ASSUME Opens(rule, st, now, b)
      PROVE  /\ ~IsOpen /\ ~st.done
             /\ (st.at # Nil => st.at <= Position(rule, n, now))
             /\ st'.count = n
    <2>1. ~st.done /\ Opening(rule, st, b) <= Position(rule, n, now)
        BY <1>2, <1>3 DEF Opens, Due, Counted
    <2>2. st.at # Nil => Opening(rule, st, b) = st.at
        BY Parts DEF Opening, Modes
    <2>3. st' = [count |-> n, at |-> Opening(rule, st, b),
                 recover |-> Progress(rule, n, now) + Width(rule), done |-> FALSE]
        BY <1>1, <1>3, Parts, AfterPhases
    <2> QED
        BY <1>3, <2>1, <2>2, <2>3 DEF Opens, IsOpen
<1>4. ASSUME Within(rule, st, now, b)
      PROVE  /\ IsOpen /\ st'.recover = st.recover
             /\ Progress(rule, n, now) < st.recover
    <2>1. st' = [count |-> n, at |-> Opening(rule, st, b),
                 recover |-> st.recover, done |-> FALSE]
        BY <1>1, <1>4, Parts, AfterPhases
    <2> QED
        BY <1>4, <2>1 DEF Within, IsOpen
<1>5. ASSUME ~st.done, Continuous(rule)
      PROVE  st'.recover = st.recover
    <2>1. st' = [st EXCEPT !.count = n]
        BY <1>1, <1>5, Parts, AfterPhases
    <2> QED
        BY <2>1, Parts DEF RuleStates
<1>6. ASSUME ~Fails(rule, st, now, b)
      PROVE  \/ st'.recover = st.recover
             \/ /\ IsOpen /\ st'.recover = Nil
                /\ Progress(rule, n, now) >= st.recover
    <2>1. CASE st.done
        BY <2>1, <1>1, Parts, AfterPhases
    <2>2. CASE TooEarly(rule, st, now, b)
        <3>1. st' = [count |-> n, at |-> Opening(rule, st, b),
                     recover |-> st.recover, done |-> FALSE]
            BY <1>1, <2>2, Parts, AfterPhases
        <3> QED
            BY <3>1
    <2>3. CASE Over(rule, st, now, b)
        <3>1. /\ IsOpen /\ Progress(rule, n, now) >= st.recover
            BY <2>3, <1>2, Parts DEF Over, Within, IsOpen
        <3>2. CASE rule.frequency > 0
            <4>1. st' = [count |-> n, at |-> Position(rule, n, now) + Gap(rule),
                         recover |-> Nil, done |-> FALSE]
                BY <1>1, <2>3, <3>2, Parts, AfterPhases
            <4> QED
                BY <3>1, <4>1
        <3>3. CASE rule.frequency = 0
            <4>1. st' = [count |-> n, at |-> Nil, recover |-> Nil, done |-> TRUE]
                BY <1>1, <2>3, <3>3, Parts, AfterPhases
            <4> QED
                BY <3>1, <4>1
        <3> QED
            BY <3>2, <3>3, Parts DEF Rules
    <2> QED
        BY <1>2, <1>6, <2>1, <2>2, <2>3
        DEF Fails, Opens, Within, Over, TooEarly, Due, Counted
<1> QED
    BY <1>1, <1>3, <1>4, <1>5, <1>6

(***************************************************************************)
(* A window closes after exactly so many faults, or on the first request   *)
(* so many seconds after it opened; none of its faults comes later.        *)
(***************************************************************************)
THEOREM WindowsExact == Spec => WindowExact
<1> DEFINE Closes ==
             (IsOpen /\ ~IsOpen') =>
               IF rule.mode = "seconds" THEN now >= open.since + Width(rule)
               ELSE open.hits = Consecutive(rule)
           Fills ==
             (total' # total /\ ~Continuous(rule)) =>
               IF rule.mode = "seconds" THEN now < open'.since + Width(rule)
               ELSE open'.hits <= Consecutive(rule)
<1>1. ASSUME IInv, [Next]_vars
      PROVE  [Closes /\ Fills]_vars
    <2>1. CASE Tick \/ UNCHANGED vars
        BY <2>1, Parts, <1>1 DEF Tick, vars, IsOpen
    <2>2. ASSUME NEW b \in {now, now + 1}, FaultOpens(b)
          PROVE  Closes /\ Fills
        <3>1. Opens(rule, st, now, b) /\ Request(b) /\ open'.since = now
              /\ open'.hits = 1
            BY <2>2 DEF FaultOpens
        <3> QED
            BY <3>1, <1>1, WindowSteps, Parts
    <2>3. ASSUME NEW b \in {now, now + 1}, FaultContinues(b)
          PROVE  Closes /\ Fills
        <3>1. /\ Within(rule, st, now, b) /\ Request(b)
              /\ open'.since = open.since /\ open'.hits = open.hits + 1
            BY <2>3, <1>1 DEF FaultContinues, IInv, TypeOK, Windows
        <3>2. /\ IsOpen /\ st'.recover = st.recover
              /\ Progress(rule, st.count + 1, now) < st.recover
            BY <3>1, <1>1, WindowSteps
        <3> QED
            BY <3>1, <3>2, <1>1, Parts DEF IInv, OpenWindow, IsOpen, Progress
    <2>4. ASSUME NEW b \in {now, now + 1}, FaultAlways(b)
          PROVE  Closes /\ Fills
        BY <2>4, <1>1, WindowSteps DEF FaultAlways, IsOpen
    <2>5. ASSUME NEW b \in {now, now + 1}, Passes(b)
          PROVE  Closes /\ Fills
        <3>1. ~Fails(rule, st, now, b) /\ Request(b) /\ total' = total
            BY <2>5 DEF Passes
        <3>2. ASSUME IsOpen, ~IsOpen'
              PROVE  Progress(rule, st.count + 1, now) >= st.recover
            BY <3>1, <3>2, <1>1, WindowSteps DEF IsOpen
        <3> QED
            BY <3>1, <3>2, <1>1, Parts DEF IInv, OpenWindow, IsOpen, Progress
    <2> QED
        BY <1>1, <2>1, <2>2, <2>3, <2>4, <2>5 DEF Next
<1>2. IInv /\ [Next]_vars => [Closes /\ Fills]_vars
    BY <1>1
<1> QED
    BY <1>2, Invariance, PTL DEF Spec, WindowExact

(***************************************************************************)
(* Windows are at least a cycle apart, start to start.                     *)
(***************************************************************************)
THEOREM WindowsApart == Spec => WindowsSpaced
<1> DEFINE Apart ==
             (IsOpen' /\ ~IsOpen /\ HasFired) =>
               Position(rule, st'.count, now) >=
                 Position(rule, open.from, open.since) + Cycle
<1>1. ASSUME IInv, [Next]_vars
      PROVE  [Apart]_vars
    <2>1. CASE Tick \/ UNCHANGED vars
        BY <2>1 DEF Tick, vars, IsOpen
    <2>2. ASSUME NEW b \in {now, now + 1}, FaultOpens(b), HasFired
          PROVE  Apart
        <3>1. Opens(rule, st, now, b) /\ Request(b)
            BY <2>2 DEF FaultOpens
        <3>2. /\ ~IsOpen /\ ~st.done /\ st'.count = st.count + 1
              /\ (st.at # Nil => st.at <= Position(rule, st.count + 1, now))
            BY <3>1, <1>1, WindowSteps
        <3>3. st.at # Nil /\ st.at >= Position(rule, open.from, open.since) + Cycle
            BY <3>2, <2>2, <1>1 DEF IInv, NextWindow
        <3> QED
            BY <3>2, <3>3, <1>1, Parts DEF Position
    <2>3. ASSUME NEW b \in {now, now + 1},
                 FaultContinues(b) \/ FaultAlways(b) \/ Passes(b)
          PROVE  Apart
        BY <2>3, <1>1, WindowSteps DEF FaultContinues, FaultAlways, Passes, IsOpen
    <2> QED
        BY <1>1, <2>1, <2>2, <2>3 DEF Next
<1>2. IInv /\ [Next]_vars => [Apart]_vars
    BY <1>1
<1> QED
    BY <1>2, Invariance, PTL DEF Spec, WindowsSpaced

-----------------------------------------------------------------------------
(***************************************************************************)
(* The transport fault of a port.                                          *)
(***************************************************************************)

(***************************************************************************)
(* The values the handlers and the loops go through.                       *)
(***************************************************************************)
LEMMA PortValues ==
  /\ Returned \in [pc : HandlerPCs, arms : Faults, config : Faults \cup {"absent"}]
  /\ Gone \in [pc : LoopPCs, cadence : Cadences, cancelled : BOOLEAN]
  /\ NoSession \in Sessions /\ Inactive \in Sessions
  /\ \A s \in Sessions, active \in BOOLEAN :
       (IF s.there THEN [s EXCEPT !.active = active] ELSE s) \in Sessions
<1>1. \A s \in Sessions : s = NoSession \/ s = Inactive \/ s = [there |-> TRUE, active |-> TRUE]
  BY DEF Sessions
<1>2. \A s \in Sessions, active \in BOOLEAN :
        (IF s.there THEN [s EXCEPT !.active = active] ELSE s) \in Sessions
  BY <1>1 DEF Sessions, NoSession, Inactive
<1> QED
  BY <1>2 DEF Returned, Gone, HandlerPCs, LoopPCs, Faults, Cadences, Sessions

(***************************************************************************)
(* No handler has begun and no loop runs at first.                         *)
(***************************************************************************)
LEMMA PortInitially == PortInit => PortInvariant
<1> SUFFICES ASSUME PortInit PROVE PortInvariant
  OBVIOUS
<1>1. /\ [Returned EXCEPT !.pc = "idle"]
           \in [pc : HandlerPCs, arms : Faults, config : Faults \cup {"absent"}]
      /\ [Gone EXCEPT !.pc = "idle"]
           \in [pc : LoopPCs, cadence : Cadences, cancelled : BOOLEAN]
      /\ [Returned EXCEPT !.pc = "idle"].pc = "idle"
      /\ [Gone EXCEPT !.pc = "idle"].pc = "idle"
  BY PortValues DEF Returned, Gone, HandlerPCs, LoopPCs
<1>2. PortTypeOK
  BY <1>1, PortValues, Zenon DEF PortInit, PortTypeOK
<1> QED
  BY <1>1, <1>2 DEF PortInit, PortInvariant, EndsClean, StartsLast

(***************************************************************************)
(* A handler moves, and a loop moves: every other one stays what it is.    *)
(***************************************************************************)
LEMMA HandlerMoves ==
  ASSUME PortTypeOK, NEW h \in Handlers,
         NEW to \in [pc : HandlerPCs, arms : Faults, config : Faults \cup {"absent"}],
         handler' = [handler EXCEPT ![h] = to]
  PROVE  /\ handler' \in [Handlers -> [pc : HandlerPCs, arms : Faults,
                                       config : Faults \cup {"absent"}]]
         /\ handler'[h] = to
         /\ \A g \in Handlers : g # h => handler'[g] = handler[g]
BY DEF PortTypeOK

LEMMA LoopMoves ==
  ASSUME PortTypeOK, NEW l \in Handlers,
         NEW to \in [pc : LoopPCs, cadence : Cadences, cancelled : BOOLEAN],
         loop' = [loop EXCEPT ![l] = to]
  PROVE  /\ loop' \in [Handlers -> [pc : LoopPCs, cadence : Cadences,
                                    cancelled : BOOLEAN]]
         /\ loop'[l] = to
         /\ \A k \in Handlers : k # l => loop'[k] = loop[k]
BY DEF PortTypeOK

(***************************************************************************)
(* A handler's step that neither registers nor stops a loop leaves the     *)
(* loops alone, and no rules but those that were there.                    *)
(***************************************************************************)
LEMMA HandlerKeeps ==
  ASSUME PortInvariant, NEW h \in Handlers, handler[h].pc # "done",
         NEW to \in [pc : HandlerPCs, arms : Faults, config : Faults \cup {"absent"}],
         handler' = [handler EXCEPT ![h] = to],
         to.pc = "register" => to.arms # "none",
         to.pc = "fill" => to.config # "absent",
         sess' \in Sessions, rules' \subseteq rules, reg' = reg, loop' = loop
  PROVE  PortInvariant'
<1>1. PortTypeOK'
  BY HandlerMoves DEF PortInvariant, PortTypeOK
<1>2. EndsClean' /\ StartsLast'
  BY HandlerMoves DEF PortInvariant, EndsClean, StartsLast, Ended, PortTypeOK
<1> QED
  BY <1>1, <1>2 DEF PortInvariant

LEMMA HandlersKeep ==
  ASSUME PortInvariant, NEW h \in Handlers, Handle(h)
  PROVE  PortInvariant'
<1> DEFINE States == [pc : HandlerPCs, arms : Faults, config : Faults \cup {"absent"}]
<1>1. /\ handler \in [Handlers -> States]
      /\ sess \in Sessions /\ Inactive \in Sessions /\ NoSession \in Sessions
      /\ Returned \in States /\ Returned.pc = "done"
      /\ \A active \in BOOLEAN :
           (IF sess.there THEN [sess EXCEPT !.active = active] ELSE sess) \in Sessions
  BY PortValues DEF PortInvariant, PortTypeOK, Returned
<1>2. \A pc \in HandlerPCs :
         /\ [handler[h] EXCEPT !.pc = pc] \in States
         /\ [handler EXCEPT ![h].pc = pc]
              = [handler EXCEPT ![h] = [handler[h] EXCEPT !.pc = pc]]
  BY <1>1
<1>3. ASSUME NEW pc \in {"find", "stop"}, NEW fault \in Faults,
             NEW config \in Faults \cup {"absent"}, Starts(h, pc, fault, config),
             sess' \in Sessions
      PROVE  PortInvariant'
  <2>1. [pc |-> pc, arms |-> fault, config |-> config] \in States
    BY DEF HandlerPCs
  <2> QED
    BY <1>3, <2>1, HandlerKeeps DEF Starts
<1>4. CASE Patch(h) \/ PatchPlayer(h) \/ Delete(h) \/ Connect(h)
  <2>1. "absent" \in Faults \cup {"absent"} /\ "none" \in Faults
    BY DEF Faults
  <2> QED
    BY <1>1, <1>3, <1>4, <2>1 DEF Patch, PatchPlayer, Delete, Connect
<1>5. CASE Find(h)
  <2> DEFINE to == IF sess.there THEN [handler[h] EXCEPT !.pc = "stop"] ELSE Returned
  <2>1. to \in States /\ to.pc \notin {"register", "fill"}
    BY <1>1, <1>2 DEF HandlerPCs, Returned
  <2> QED
    BY <1>1, <1>5, <2>1, HandlerKeeps DEF Find, At
<1>6. CASE Stop(h)
  <2>1. /\ reg' = None /\ rules' = rules /\ sess' = sess
        /\ handler' = [handler EXCEPT ![h] = [handler[h] EXCEPT !.pc = "clear"]]
    BY <1>2, <1>6 DEF Stop, Goto, HandlerPCs
  <2>2. /\ loop' \in [Handlers -> [pc : LoopPCs, cadence : Cadences,
                                   cancelled : BOOLEAN]]
        /\ \A l \in Handlers : loop'[l].pc = loop[l].pc
    BY <1>6 DEF Stop, PortInvariant, PortTypeOK
  <2>3. [handler[h] EXCEPT !.pc = "clear"] \in States /\ handler[h].pc # "done"
    BY <1>2, <1>6 DEF Stop, At, HandlerPCs
  <2>4. PortTypeOK'
    BY <2>1, <2>2, <2>3, HandlerMoves DEF PortInvariant, PortTypeOK
  <2> QED
    BY <2>1, <2>2, <2>3, <2>4, HandlerMoves
    DEF PortInvariant, EndsClean, StartsLast, Ended, PortTypeOK
<1>7. CASE Clear(h)
  BY <1>1, <1>2, <1>7, HandlerKeeps DEF Clear, ClearRules, At, Goto, HandlerPCs
<1>8. CASE Report(h)
  <2> DEFINE to == IF handler[h].config = "absent" THEN Returned
                   ELSE [handler[h] EXCEPT !.pc = "fill", !.arms = "none"]
  <2>1. handler' = [handler EXCEPT ![h] = to] /\ handler[h].pc # "done"
    BY <1>1, <1>8 DEF Report, At
  <2>2. /\ to \in States /\ to.pc # "register"
        /\ to.pc = "fill" => to.config # "absent"
    BY <1>1 DEF HandlerPCs, Faults
  <2> QED
    BY <1>1, <1>8, <2>1, <2>2, HandlerKeeps DEF Report, SetState
<1>9. CASE Fill(h)
  <2> DEFINE to == IF handler[h].config = "none" THEN Returned
                   ELSE [pc |-> "stop", arms |-> handler[h].config,
                         config |-> "absent"]
  <2>1. handler' = [handler EXCEPT ![h] = to] /\ handler[h].pc # "done"
    BY <1>1, <1>9 DEF Fill, At
  <2>2. handler[h].config # "absent"
    BY <1>9 DEF PortInvariant, StartsLast, Fill, At
  <2>3. to \in States /\ to.pc \notin {"register", "fill"}
    BY <1>1, <2>2 DEF HandlerPCs, Returned
  <2>4. sess' \in Sessions /\ UNCHANGED <<reg, rules, loop>>
    BY <1>1, <1>9 DEF Fill
  <2> HIDE DEF to
  <2> QED
    BY <2>1, <2>3, <2>4, HandlerKeeps
<1>10. CASE Reject(h)
  BY <1>1, <1>10, HandlerKeeps DEF Reject, At
<1>11. CASE Register(h)
  <2> DEFINE begun == [pc |-> "check", cadence |-> handler[h].arms, cancelled |-> FALSE]
  <2>1. /\ reg' = h /\ sess' = sess /\ rules' = rules
        /\ handler' = [handler EXCEPT ![h] = Returned]
        /\ loop' = [loop EXCEPT ![h] = begun]
        /\ handler[h].pc = "register"
    BY <1>11 DEF Register, At
  <2>2. begun \in [pc : LoopPCs, cadence : Cadences, cancelled : BOOLEAN]
    BY <1>1, <2>1 DEF PortInvariant, StartsLast, LoopPCs, Faults
  <2>3. PortTypeOK'
    BY <1>1, <2>1, <2>2, HandlerMoves, LoopMoves DEF PortInvariant, PortTypeOK
  <2>4. \A l \in rules : ~Ended(l)'
    BY <2>1, <2>2, LoopMoves DEF PortInvariant, EndsClean, Ended, PortTypeOK
  <2>5. loop'[h] = begun /\ begun.pc = "check" /\ begun.cancelled = FALSE
    BY <2>1, <2>2, LoopMoves DEF PortInvariant
  <2>6. \A g \in Handlers : g # h => loop'[g] = loop[g] /\ handler'[g] = handler[g]
    BY <1>1, <2>1, <2>2, HandlerMoves, LoopMoves DEF PortInvariant
  <2>7. handler'[h] = Returned
    BY <1>1, <2>1, HandlerMoves DEF PortInvariant
  <2> HIDE DEF begun
  <2>8. EndsClean'
    BY <2>1, <2>4, <2>5 DEF EndsClean, Ended
  <2>9. StartsLast'
    BY <1>1, <2>1, <2>5, <2>6, <2>7 DEF PortInvariant, StartsLast
  <2> QED
    BY <2>3, <2>8, <2>9 DEF PortInvariant
<1> QED
  BY <1>4, <1>5, <1>6, <1>7, <1>8, <1>9, <1>10, <1>11 DEF Handle

(***************************************************************************)
(* A loop that goes on adds no rule but its own.                           *)
(***************************************************************************)
LEMMA LoopKeeps ==
  ASSUME PortInvariant, NEW l \in Handlers, ~Ended(l),
         NEW to \in [pc : LoopPCs, cadence : Cadences, cancelled : BOOLEAN],
         loop' = [loop EXCEPT ![l] = to],
         to.pc \notin {"idle", "done"}, to.cancelled = loop[l].cancelled,
         to.pc = "sweep" => reg' = None, reg' \in {reg, None},
         sess' \in Sessions, rules' \subseteq rules \cup {l}, handler' = handler
  PROVE  PortInvariant'
<1>1. PortTypeOK'
  BY LoopMoves DEF PortInvariant, PortTypeOK
<1>2. EndsClean' /\ StartsLast'
  BY LoopMoves DEF PortInvariant, EndsClean, StartsLast, Ended, PortTypeOK
<1> QED
  BY <1>1, <1>2 DEF PortInvariant

LEMMA LoopsKeep ==
  ASSUME PortInvariant, NEW l \in Handlers, Run(l) \/ Phase(l) \/ Disarm(l) \/ Resume(l)
  PROVE  PortInvariant'
<1> DEFINE States == [pc : LoopPCs, cadence : Cadences, cancelled : BOOLEAN]
           to(pc) == [loop[l] EXCEPT !.pc = pc]
           Live == LoopPCs \ {"idle", "done", "sweep"}
<1>1. /\ loop \in [Handlers -> States] /\ sess \in Sessions
      /\ \A active \in BOOLEAN :
           (IF sess.there THEN [sess EXCEPT !.active = active] ELSE sess) \in Sessions
  BY PortValues DEF PortInvariant, PortTypeOK
<1>2. \A pc \in LoopPCs :
         /\ to(pc) \in States /\ to(pc).pc = pc
         /\ to(pc).cancelled = loop[l].cancelled
         /\ Becomes(l, pc) => loop' = [loop EXCEPT ![l] = to(pc)]
  BY <1>1 DEF Becomes
<1>3. ASSUME NEW pc \in Live, Becomes(l, pc), ~Ended(l), reg' = reg,
             sess' \in Sessions, rules' \subseteq rules \cup {l}, handler' = handler
      PROVE  PortInvariant'
  BY <1>2, <1>3, LoopKeeps
<1>4. {"add", "arm", "on", "off", "pause", "exit", "check"} \subseteq Live
  BY DEF LoopPCs
<1>5. CASE Apply(l)
  BY <1>1, <1>3, <1>4, <1>5 DEF Apply, Is, Ended, ClearRules
<1>6. CASE Add(l)
  BY <1>1, <1>3, <1>4, <1>6 DEF Add, Is, Ended
<1>7. CASE Arm(l)
  BY <1>1, <1>3, <1>4, <1>7 DEF Arm, Is, Ended, SetState
<1>8. CASE Off(l)
  BY <1>1, <1>3, <1>4, <1>8 DEF Off, Is, Ended, SetState
<1>9. CASE Cancelled(l)
  BY <1>1, <1>3, <1>4, <1>9 DEF Cancelled, Ended
<1>10. CASE Disarm(l) \/ Resume(l)
  BY <1>1, <1>3, <1>4, <1>10 DEF Disarm, Resume, Is, Ended, ClearRules
<1>11. CASE Phase(l)
  <2>1. sess' \in Sessions /\ UNCHANGED <<reg, rules, handler, loop>>
    BY <1>1, <1>11 DEF Phase, SetState
  <2> QED
    BY <2>1 DEF PortInvariant, PortTypeOK, EndsClean, StartsLast, Ended
<1>12. CASE Unregister(l)
  <2>1. "sweep" \in LoopPCs
    BY DEF LoopPCs
  <2> QED
    BY <1>1, <1>2, <1>12, <2>1, LoopKeeps DEF Unregister, Is, Ended
<1>13. CASE Sweep(l)
  <2>1. /\ rules' = {} /\ loop' = [loop EXCEPT ![l] = Gone]
        /\ UNCHANGED <<sess, reg, handler>> /\ loop[l].pc = "sweep"
    BY <1>13 DEF Sweep, ClearRules, Is
  <2>2. /\ Gone \in States /\ Gone.pc = "done" /\ (reg # None => reg # l)
    BY <2>1, PortValues DEF PortInvariant, StartsLast, Gone, EndsClean
  <2>3. PortTypeOK'
    BY <2>1, <2>2, LoopMoves DEF PortInvariant, PortTypeOK
  <2>4. \A k \in Handlers : k # l => loop'[k] = loop[k]
    BY <2>1, <2>2, LoopMoves DEF PortInvariant
  <2>5. reg # None => reg \in Handlers
    BY DEF PortInvariant, PortTypeOK
  <2> QED
    BY <2>1, <2>2, <2>3, <2>4, <2>5 DEF PortInvariant, EndsClean, StartsLast, Ended
<1> QED
  BY <1>5, <1>6, <1>7, <1>8, <1>9, <1>10, <1>11, <1>12, <1>13 DEF Run

LEMMA PortNextKeeps == PortInvariant /\ [PortNext]_portVars => PortInvariant'
<1> SUFFICES ASSUME PortInvariant, [PortNext]_portVars PROVE PortInvariant'
  OBVIOUS
<1>1. CASE UNCHANGED portVars
  BY <1>1 DEF portVars, PortInvariant, PortTypeOK, EndsClean, StartsLast, Ended
<1> QED
  BY <1>1, HandlersKeep, LoopsKeep DEF PortNext

THEOREM EndsCleanly == PortSpec => []EndsClean
<1>1. PortSpec => []PortInvariant
  BY PortInitially, PortNextKeeps, PTL DEF PortSpec
<1> QED
  BY <1>1, PTL DEF PortInvariant

(***************************************************************************)
(* A cancelled loop stays cancelled and goes from stage to stage, in an    *)
(* order that leads to its end, and a step of its own takes it further.    *)
(***************************************************************************)
Further(pc) ==
  CASE pc = "add" -> {"arm"}
    [] pc = "arm" -> {"on"}
    [] pc = "on" -> {"off", "exit"}
    [] pc = "off" -> {"pause", "exit"}
    [] pc = "pause" -> {"check", "exit"}
    [] pc = "check" -> {"exit"}
    [] pc = "exit" -> {"sweep"}
    [] pc = "sweep" -> {"done"}

LEMMA LoopGoesFurther ==
  ASSUME PortInvariant, NEW l \in Handlers, ~Ended(l), loop[l].cancelled,
         Run(l) \/ Disarm(l) \/ Resume(l)
  PROVE  /\ loop'[l].pc \in Further(loop[l].pc)
         /\ loop'[l].cancelled \/ loop'[l].pc = "done"
<1> USE DEF Is, Becomes, Further, Gone
<1>1. loop \in [Handlers -> [pc : LoopPCs, cadence : Cadences,
                            cancelled : BOOLEAN]]
  BY DEF PortInvariant, PortTypeOK
<1>2. CASE Apply(l)
  BY <1>1, <1>2 DEF Apply
<1>6. CASE Add(l)
  <2>1. /\ loop[l].pc = "add"
        /\ loop' = [loop EXCEPT ![l].pc = "arm"]
    BY <1>6 DEF Add
  <2>2. loop'[l].pc = "arm" /\ loop'[l].cancelled
    BY <1>1, <2>1
  <2> QED  BY <2>1, <2>2
<1>7. CASE Arm(l)
  <2>1. /\ loop[l].pc = "arm"
        /\ loop' = [loop EXCEPT ![l].pc = "on"]
    BY <1>7 DEF Arm
  <2>2. loop'[l].pc = "on" /\ loop'[l].cancelled
    BY <1>1, <2>1
  <2> QED  BY <2>1, <2>2
<1>3. CASE Off(l)
  BY <1>1, <1>3 DEF Off
<1>4. CASE Cancelled(l) \/ Unregister(l) \/ Sweep(l)
  BY <1>1, <1>4 DEF Cancelled, Unregister, Sweep
<1>5. CASE Disarm(l) \/ Resume(l)
  BY <1>1, <1>5 DEF Disarm, Resume
<1> QED  BY <1>2, <1>3, <1>4, <1>5, <1>6, <1>7 DEF Run

LEMMA OthersLeaveStage ==
  ASSUME PortInvariant, NEW l \in Handlers, ~Ended(l), loop[l].cancelled,
         [PortNext]_portVars, ~Run(l), ~Disarm(l), ~Resume(l)
  PROVE  loop'[l].pc = loop[l].pc /\ loop'[l].cancelled
<1>1. loop \in [Handlers -> [pc : LoopPCs, cadence : Cadences,
                            cancelled : BOOLEAN]]
  BY DEF PortInvariant, PortTypeOK
<1>2. ASSUME NEW h \in Handlers, Handle(h)
      PROVE  loop'[l].pc = loop[l].pc /\ loop'[l].cancelled
  <2>1. CASE Stop(h)
    BY <1>1, <2>1 DEF Stop
  <2>2. CASE Register(h)
    <3>1. h # l
      BY <2>2 DEF Register, At, PortInvariant, StartsLast, Ended
    <3> QED  BY <3>1, <1>1, <2>2 DEF Register
  <2>3. CASE ~Stop(h) /\ ~Register(h)
    BY <1>2, <2>3
    DEF Handle, Patch, PatchPlayer, Find, Delete, Connect, Clear, Report, Fill,
        Reject, Starts
  <2> QED  BY <2>1, <2>2, <2>3
<1>3. ASSUME NEW k \in Handlers, k # l,
             Run(k) \/ Phase(k) \/ Disarm(k) \/ Resume(k)
      PROVE  loop'[l].pc = loop[l].pc /\ loop'[l].cancelled
  <2>1. loop' = loop \/ \E to : loop' = [loop EXCEPT ![k] = to]
    BY <1>3
    DEF Run, Apply, Add, Arm, Off, Cancelled, Unregister, Sweep, Phase, Disarm,
        Resume, Becomes
  <2> QED  BY <1>1, <1>3, <2>1
<1>4. CASE Phase(l) \/ UNCHANGED portVars
  BY <1>4 DEF Phase, portVars
<1> QED  BY <1>2, <1>3, <1>4 DEF PortNext

(***************************************************************************)
(* Wherever in its cadence a loop is cancelled, it ends, if only it runs   *)
(* on: whatever handlers and other loops do, and though no packet comes    *)
(* and no timer runs out.                                                  *)
(***************************************************************************)
LEMMA CancelledLoopEnds ==
  ASSUME NEW l \in Handlers
  PROVE  PortSpec /\ RunsOn(l) => (loop[l].cancelled ~> Ended(l))
<1> DEFINE Cancel == loop[l].cancelled
           On(pc) == Cancel /\ loop[l].pc = pc
           End == Ended(l)
<1>1. ASSUME PortInvariant, ~End, Cancel, [PortNext]_portVars
      PROVE  LET goes == loop'[l].pc \in Further(loop[l].pc)
                         /\ (Cancel' \/ End')
             IN  /\ goes \/ (loop'[l].pc = loop[l].pc /\ Cancel')
                 /\ Run(l) => goes
  BY <1>1, LoopGoesFurther, OthersLeaveStage DEF Ended
<1>2. ASSUME NEW pc \in LoopPCs \ {"idle", "done"}
      PROVE  LET later == End' \/ \E to \in Further(pc) : On(to)'
             IN  PortInvariant /\ On(pc)
                   => /\ [PortNext]_portVars => On(pc)' \/ later
                      /\ <<Run(l)>>_portVars => later
                      /\ CanRun(l)
  <2>1. Run(l) => PortNext
    BY DEF PortNext
  <2>2. On(pc) => ~End /\ CanRun(l)
    BY DEF Ended, CanRun, LoopPCs
  <2> QED  BY <1>1, <2>1, <2>2
<1>3. PortInvariant /\ Cancel
        => \/ On("add") \/ On("arm") \/ On("on") \/ On("off")
           \/ On("pause") \/ On("check") \/ On("exit") \/ On("sweep") \/ End
  BY DEF PortInvariant, PortTypeOK, LoopPCs, Ended
<1>4. PortSpec => []PortInvariant
  BY PortInitially, PortNextKeeps, PTL DEF PortSpec
<1> DEFINE Later(pc) == End \/ \E to \in Further(pc) : On(to)
           Moves(pc) == On(pc) ~> Later(pc)
<1>5. ASSUME NEW pc \in LoopPCs \ {"idle", "done"}
      PROVE  PortSpec /\ RunsOn(l) => Moves(pc)
  <2> DEFINE P == On(pc)  Q == Later(pc)
  <2>1. PortInvariant /\ P /\ [PortNext]_portVars => P' \/ Q'
    BY <1>2
  <2>2. PortInvariant /\ P /\ <<Run(l)>>_portVars => Q'
    BY <1>2
  <2>3. PortInvariant /\ P => CanRun(l)
    BY <1>2
  <2> HIDE DEF P, Q
  <2>4. PortSpec /\ RunsOn(l) => (P ~> Q)
    BY <1>4, <2>1, <2>2, <2>3, PTL DEF PortSpec, RunsOn
  <2> QED  BY <2>4 DEF P, Q
<1>6. /\ Later("add") => On("arm") \/ End
      /\ Later("arm") => On("on") \/ End
      /\ Later("on") => On("off") \/ On("exit") \/ End
      /\ Later("off") => On("pause") \/ On("exit") \/ End
      /\ Later("pause") => On("check") \/ On("exit") \/ End
      /\ Later("check") => On("exit") \/ End
      /\ Later("exit") => On("sweep") \/ End
      /\ Later("sweep") => End
  BY DEF Further, Ended
<1>7. LoopPCs \ {"idle", "done"}
        = {"add", "arm", "on", "off", "pause", "check", "exit", "sweep"}
  BY DEF LoopPCs
<1> HIDE DEF On, End, Later, Cancel, Moves
<1>8. PortSpec /\ RunsOn(l)
        => /\ Moves("add") /\ Moves("arm") /\ Moves("on") /\ Moves("off")
           /\ Moves("pause") /\ Moves("check") /\ Moves("exit")
           /\ Moves("sweep")
  BY <1>5, <1>7
<1>9. PortSpec /\ RunsOn(l) => (Cancel ~> End)
  BY <1>3, <1>4, <1>6, <1>8, PTL DEF Moves
<1> QED  BY <1>9 DEF Cancel, End

THEOREM CancelledLoopsEnd ==
  PortSpec /\ (\A l \in Handlers : RunsOn(l)) => CancelledEnds
<1> SUFFICES ASSUME NEW l \in Handlers
             PROVE  PortSpec /\ (\A k \in Handlers : RunsOn(k))
                      => (loop[l].cancelled ~> Ended(l))
  BY DEF CancelledEnds
<1>1. (\A k \in Handlers : RunsOn(k)) => RunsOn(l)
  OBVIOUS
<1> QED  BY <1>1, CancelledLoopEnds, PTL
=============================================================================
