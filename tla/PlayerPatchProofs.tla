-------------------------- MODULE PlayerPatchProofs --------------------------
(***************************************************************************)
(* Proofs about PlayerPatch, for any number of clients, fields, requests   *)
(* and tries.                                                              *)
(***************************************************************************)
EXTENDS PlayerPatch, TLAPS

(***************************************************************************)
(* What an accepted request writes is a view of the player's leaves.       *)
(***************************************************************************)
LEMMA AppliedType ==
    ASSUME NEW req \in Requests, NEW val \in Views, NEW r \in Nat
    PROVE  Applied(req, val, r) \in Views
<1> SUFFICES ASSUME NEW l \in Leaves
             PROVE  (IF l \in DOMAIN req.to
                     THEN [by |-> r, there |-> req.to[l]] ELSE val[l]) \in Values
    BY DEF Applied, Views
<1>1. PICK W \in SUBSET Leaves : req.to \in [W -> BOOLEAN]
    BY PatchAssumption DEF RequestType
<1> QED
    BY <1>1 DEF Views, Values

(***************************************************************************)
(* Every variable keeps its type.                                          *)
(***************************************************************************)
LEMMA InitType == Init => TypeOK
<1> SUFFICES ASSUME Init PROVE TypeOK
    OBVIOUS
<1> DEFINE val == [l \in Leaves |-> [by |-> 0, there |-> l \in InitialLeaves]]
<1>1. val \in Views
    BY DEF Views, Values
<1> HIDE DEF val
<1> DEFINE cell == [ptr |-> 0, rev |-> 0, val |-> val]
<1>2. cell \in Cells
    BY <1>1 DEF Cells
<1> HIDE DEF cell
<1>3. snap = cell
    BY DEF Init, val, cell
<1>4. PICK req \in [Clients -> Requests] : client = [c \in Clients |->
            [pc |-> "idle", req |-> req[c], ifMatch |-> 0, seen |-> val,
             rev |-> 0, loaded |-> cell, tries |-> 0, reply |-> "none"]]
    BY DEF Init, val, cell
<1>5. client \in [Clients -> Records]
    BY <1>1, <1>2, <1>4 DEF Records, PCs, Replies
<1>6. /\ tracker = [p \in Paths |-> 0]
      /\ minter = <<>>
      /\ published = 0
    BY DEF Init
<1> QED
    BY <1>2, <1>3, <1>5, <1>6 DEF TypeOK

(* Answering a request keeps the clients' records. *)
LEMMA AnswerType ==
    ASSUME TypeOK, NEW c \in Clients, NEW reply \in Replies, Answer(c, reply)
    PROVE  client' \in [Clients -> Records]
<1>1. client[c] \in Records
    BY DEF TypeOK
<1>2. [client[c] EXCEPT !.pc = "idle", !.reply = reply] \in Records
    BY <1>1 DEF Records, PCs
<1> QED
    BY <1>2 DEF Answer, TypeOK

(* Every step keeps the types. *)
LEMMA NextType == TypeOK /\ [Next]_vars => TypeOK'
<1> SUFFICES ASSUME TypeOK, [Next]_vars
             PROVE  TypeOK'
    OBVIOUS
<1>1. CASE UNCHANGED vars
    BY <1>1 DEF vars, TypeOK
<1>2. ASSUME NEW c \in Clients, Get(c)
      PROVE  TypeOK'
    <2>1. PICK req \in Requests :
            client' = [client EXCEPT ![c] =
            [pc |-> "sent", req |-> req, ifMatch |-> snap.rev, seen |-> snap.val,
             rev |-> 0, loaded |-> snap, tries |-> client[c].tries + 1,
             reply |-> "none"]]
        BY <1>2 DEF Get
    <2>2. /\ client[c].tries + 1 \in Nat
          /\ snap.rev \in Nat /\ snap.val \in Views /\ snap \in Cells
        BY DEF TypeOK, Cells, Records
    <2> DEFINE new ==
            [pc |-> "sent", req |-> req, ifMatch |-> snap.rev, seen |-> snap.val,
             rev |-> 0, loaded |-> snap, tries |-> client[c].tries + 1,
             reply |-> "none"]
    <2>3. new \in Records
        BY <2>2 DEF Records, PCs, Replies
    <2>4. client' = [client EXCEPT ![c] = new]
        BY <2>1
    <2>5. client' \in [Clients -> Records]
        <3> HIDE DEF new
        <3> QED BY <2>3, <2>4 DEF TypeOK
    <2> QED BY <1>2, <2>5 DEF Get, TypeOK
<1>3. ASSUME NEW c \in Clients, FirstCheckPasses(c)
      PROVE  TypeOK'
    <2>1. minter' \in Seq(Clients) /\ Len(minter') \in Nat
        BY <1>3, minter \in Seq(Clients) DEF FirstCheckPasses, TypeOK
    <2>2. [client[c] EXCEPT !.pc = "load", !.rev = Len(minter')] \in Records
        BY <2>1 DEF TypeOK, Records, PCs
    <2>3. client' = [client EXCEPT ![c] =
                        [client[c] EXCEPT !.pc = "load", !.rev = Len(minter')]]
        BY <1>3 DEF FirstCheckPasses, TypeOK
    <2>4. client' \in [Clients -> Records]
        BY <2>2, <2>3 DEF TypeOK
    <2> QED BY <1>3, <2>1, <2>4 DEF FirstCheckPasses, TypeOK
<1>4. ASSUME NEW c \in Clients,
             FirstCheckRefuses(c) \/ ClosureRefuses(c) \/ ClosureMisses(c)
      PROVE  TypeOK'
    <2>1. Answer(c, "conflict") \/ Answer(c, "not_found")
        BY <1>4 DEF FirstCheckRefuses, ClosureRefuses, ClosureMisses
    <2>2. client' \in [Clients -> Records]
        BY <2>1, AnswerType DEF Replies
    <2> QED BY <1>4, <2>2 DEF FirstCheckRefuses, ClosureRefuses, ClosureMisses, TypeOK
<1>5. ASSUME NEW c \in Clients, Load(c)
      PROVE  TypeOK'
    <2>1. [client[c] EXCEPT !.pc = "check", !.loaded = snap] \in Records
        BY DEF TypeOK, Records, PCs
    <2> QED BY <1>5, <2>1 DEF Load, TypeOK
<1>9. ASSUME NEW c \in Clients, ClosurePasses(c) \/ SwapLoses(c)
      PROVE  TypeOK'
    <2>1. /\ [client[c] EXCEPT !.pc = "touch"] \in Records
          /\ [client[c] EXCEPT !.pc = "load"] \in Records
        BY DEF TypeOK, Records, PCs
    <2> QED BY <1>9, <2>1 DEF ClosurePasses, SwapLoses, TypeOK
<1>6. ASSUME NEW c \in Clients, Touch(c)
      PROVE  TypeOK'
    <2>1. client' \in [Clients -> Records]
        BY <1>6 DEF Touch, TypeOK, Records, PCs
    <2>2. client[c].rev \in Nat
        BY DEF TypeOK, Records
    <2>3. tracker' \in [Paths -> Nat]
        BY <1>6, <2>2 DEF Touch, Touched, TypeOK
    <2> QED BY <1>6, <2>1, <2>3 DEF Touch, TypeOK
<1>7. ASSUME NEW c \in Clients, SwapWins(c)
      PROVE  TypeOK'
    <2>1. client' \in [Clients -> Records]
        BY <1>7, AnswerType DEF SwapWins, Replies
    <2>2. /\ client[c].rev \in Nat
          /\ client[c].loaded.val \in Views
          /\ client[c].req \in Requests
        BY DEF TypeOK, Records, Cells
    <2>3. Applied(client[c].req, client[c].loaded.val, client[c].rev) \in Views
        BY <2>2, AppliedType
    <2>4. snap' \in Cells
        BY <1>7, <2>2, <2>3 DEF SwapWins, Publish, TypeOK, Cells
    <2> QED BY <1>7, <2>1, <2>4 DEF SwapWins, TypeOK
<1>8. CASE OtherPublish
    BY <1>8 DEF OtherPublish, TypeOK, Cells
<1> QED
    BY <1>1, <1>2, <1>3, <1>4, <1>5, <1>6, <1>7, <1>8, <1>9 DEF Next, Handle
(***************************************************************************)
(* IInv is inductive: a revision drawn from the shared counter is unknown  *)
(* to everybody but its request until that request is accepted.            *)
(***************************************************************************)
LEMMA InitIInv == Init => IInv
<1> SUFFICES ASSUME Init PROVE IInv
    OBVIOUS
<1>1. TypeOK
    BY InitType
<1>2. /\ snap.rev = 0 /\ snap.ptr = 0 /\ minter = <<>>
      /\ \A c \in Clients :
            /\ client[c].pc = "idle" /\ client[c].ifMatch = 0
            /\ client[c].seen = snap.val /\ client[c].loaded = snap
    BY DEF Init
<1> QED
    BY <1>1, <1>2 DEF IInv, RevisionsFresh, LoadedIsACell, StrongTag, InFlight

(* Every step keeps the invariant. *)
LEMMA NextIInv == IInv /\ [Next]_vars => IInv'
<1> SUFFICES ASSUME IInv, [Next]_vars
             PROVE  IInv'
    OBVIOUS
<1> USE DEF IInv
<1>0. TypeOK'
    BY NextType
<1>t. /\ Len(minter) \in Nat /\ snap.rev \in Nat /\ snap.ptr \in Nat
      /\ \A c \in Clients :
            /\ client[c].ifMatch \in Nat
            /\ client[c].rev \in Nat
            /\ client[c].loaded.ptr \in Nat
    BY DEF TypeOK, Cells, Records
<1>1. CASE UNCHANGED vars
    BY <1>0, <1>1 DEF vars, RevisionsFresh, LoadedIsACell, StrongTag, InFlight
<1>2. ASSUME NEW c \in Clients, Get(c)
      PROVE  IInv'
    <2>1. /\ client[c].pc = "idle"
          /\ client'[c].pc = "sent"
          /\ client'[c].ifMatch = snap.rev
          /\ client'[c].seen = snap.val
          /\ client'[c].loaded = snap
          /\ \A d \in Clients \ {c} : client'[d] = client[d]
          /\ UNCHANGED <<snap, minter>>
        BY <1>2 DEF Get, TypeOK, Records
    <2> HIDE <1>2
    <2>2. RevisionsFresh'
        BY <1>t, <2>1 DEF RevisionsFresh, InFlight
    <2>3. LoadedIsACell'
        BY <1>t, <2>1 DEF LoadedIsACell
    <2>4. StrongTag'
        BY <2>1 DEF StrongTag
    <2> QED BY <1>0, <2>2, <2>3, <2>4
<1>3. ASSUME NEW c \in Clients, FirstCheckPasses(c)
      PROVE  IInv'
    <2>1. /\ Len(minter') = Len(minter) + 1
          /\ client'[c].rev = Len(minter) + 1
        BY <1>3 DEF FirstCheckPasses, TypeOK, Records
    <2>2. /\ client'[c].ifMatch = client[c].ifMatch
          /\ client'[c].seen = client[c].seen
          /\ client'[c].loaded = client[c].loaded
          /\ \A d \in Clients \ {c} : client'[d] = client[d]
          /\ UNCHANGED snap
        BY <1>3 DEF FirstCheckPasses, TypeOK, Records
    <2>3. RevisionsFresh'
        BY <1>t, <2>1, <2>2 DEF RevisionsFresh, InFlight
    <2>4. LoadedIsACell'
        BY <2>2 DEF LoadedIsACell
    <2>5. StrongTag'
        BY <2>2 DEF StrongTag
    <2> QED BY <1>0, <2>3, <2>4, <2>5
<1>4. ASSUME NEW c \in Clients,
             FirstCheckRefuses(c) \/ ClosureRefuses(c) \/ ClosureMisses(c)
      PROVE  IInv'
    <2>1. \E reply \in Replies : Answer(c, reply)
        BY <1>4 DEF FirstCheckRefuses, ClosureRefuses, ClosureMisses, Replies
    <2>2. /\ client'[c].pc = "idle"
          /\ client'[c].ifMatch = client[c].ifMatch
          /\ client'[c].seen = client[c].seen
          /\ client'[c].loaded = client[c].loaded
          /\ \A d \in Clients \ {c} : client'[d] = client[d]
        BY <2>1 DEF Answer, TypeOK, Records
    <2>3. UNCHANGED <<snap, minter>>
        BY <1>4 DEF FirstCheckRefuses, ClosureRefuses, ClosureMisses
    <2>4. RevisionsFresh'
        BY <2>2, <2>3 DEF RevisionsFresh, InFlight
    <2>5. LoadedIsACell'
        BY <2>2, <2>3 DEF LoadedIsACell
    <2>6. StrongTag'
        BY <2>2, <2>3 DEF StrongTag
    <2> QED BY <1>0, <2>4, <2>5, <2>6
<1>5. ASSUME NEW c \in Clients,
             Load(c) \/ ClosurePasses(c) \/ Touch(c) \/ SwapLoses(c)
      PROVE  IInv'
    <2>1. /\ InFlight(c)
          /\ client'[c].ifMatch = client[c].ifMatch
          /\ client'[c].seen = client[c].seen
          /\ client'[c].rev = client[c].rev
          /\ client'[c].loaded \in {client[c].loaded, snap}
          /\ \A d \in Clients \ {c} : client'[d] = client[d]
          /\ UNCHANGED <<snap, minter>>
        <3>1. CASE Load(c)
            BY <3>1 DEF Load, TypeOK, Records, InFlight
        <3>2. CASE ClosurePasses(c) \/ Touch(c) \/ SwapLoses(c)
            BY <3>2 DEF ClosurePasses, Touch, SwapLoses, TypeOK, Records, InFlight
        <3> QED BY <1>5, <3>1, <3>2
    <2>2. RevisionsFresh'
        BY <2>1 DEF RevisionsFresh, InFlight
    <2>3. LoadedIsACell'
        BY <1>t, <2>1 DEF LoadedIsACell
    <2>4. StrongTag'
        BY <2>1 DEF StrongTag
    <2> QED BY <1>0, <2>2, <2>3, <2>4
<1>6. ASSUME NEW c \in Clients, SwapWins(c)
      PROVE  IInv'
    <2>1. /\ InFlight(c)
          /\ client'[c].pc = "idle"
          /\ client'[c].ifMatch = client[c].ifMatch
          /\ client'[c].seen = client[c].seen
          /\ client'[c].loaded = client[c].loaded
          /\ \A d \in Clients \ {c} : client'[d] = client[d]
        BY <1>6 DEF SwapWins, Answer, TypeOK, Records, InFlight
    <2>2. /\ snap'.rev = client[c].rev
          /\ snap'.ptr = snap.ptr + 1
          /\ UNCHANGED minter
        BY <1>6 DEF SwapWins, Publish
    <2> HIDE <1>6
    <2>3. RevisionsFresh'
        BY <1>t, <2>1, <2>2 DEF RevisionsFresh, InFlight
    <2>4. LoadedIsACell'
        BY <1>t, <2>1, <2>2 DEF LoadedIsACell
    <2>5. StrongTag'
        BY <2>1, <2>2 DEF StrongTag, RevisionsFresh
    <2> QED BY <1>0, <2>3, <2>4, <2>5
<1>7. CASE OtherPublish
    <2>1. /\ snap'.ptr = snap.ptr + 1
          /\ snap'.rev = snap.rev
          /\ snap'.val = snap.val
          /\ UNCHANGED <<minter, client>>
        BY <1>7 DEF OtherPublish, TypeOK, Cells
    <2>2. RevisionsFresh'
        BY <2>1 DEF RevisionsFresh, InFlight
    <2>3. LoadedIsACell'
        BY <1>t, <2>1 DEF LoadedIsACell
    <2>4. StrongTag'
        BY <2>1 DEF StrongTag
    <2> QED BY <1>0, <2>2, <2>3, <2>4
<1> QED
    BY <1>1, <1>2, <1>3, <1>4, <1>5, <1>6, <1>7 DEF Next, Handle

(***************************************************************************)
(* The inductive invariant of the field-level concurrency protocol.        *)
(***************************************************************************)
THEOREM Invariance == Spec => []IInv
BY InitIInv, NextIInv, PTL DEF Spec

(***************************************************************************)
(* The ETag is a strong tag (RFC 7232): whoever holds the current one has  *)
(* seen the current leaves.                                                *)
(***************************************************************************)
THEOREM EtagIsStrong == Spec => []StrongTag
BY Invariance, PTL DEF IInv

(***************************************************************************)
(* A leaf changes only when a request that writes it is accepted, so       *)
(* patches of different fields never undo each other.                      *)
(***************************************************************************)
THEOREM FieldsSurvive == Spec => OnlyAcceptedWrites
<1>1. IInv /\ [Next]_vars =>
        [\A l \in Leaves : snap'.val[l] # snap.val[l] =>
            \E c \in Clients :
                /\ l \in DOMAIN client[c].req.to
                /\ client[c].pc = "swap"
                /\ client'[c].reply = "accepted"]_vars
    <2> SUFFICES ASSUME IInv, [Next]_vars,
                        NEW l \in Leaves, snap'.val[l] # snap.val[l]
                 PROVE  \E c \in Clients :
                            /\ l \in DOMAIN client[c].req.to
                            /\ client[c].pc = "swap"
                            /\ client'[c].reply = "accepted"
        OBVIOUS
    <2>1. ~OtherPublish
        BY DEF OtherPublish, IInv, TypeOK, Cells
    <2>2. PICK c \in Clients : SwapWins(c)
        BY <2>1 DEF Next, Handle, vars, Get, FirstCheckRefuses, FirstCheckPasses,
            Load, ClosureRefuses, ClosureMisses, ClosurePasses, Touch, SwapLoses
    <2>3. client[c].loaded.val = snap.val
        BY <2>2 DEF SwapWins, IInv, LoadedIsACell
    <2>4. snap'.val = Applied(client[c].req, snap.val, client[c].rev)
        BY <2>2, <2>3 DEF SwapWins, Publish
    <2>5. l \in DOMAIN client[c].req.to
        BY <2>4 DEF Applied
    <2>6. client[c].pc = "swap" /\ client'[c].reply = "accepted"
        BY <2>2 DEF SwapWins, Answer, IInv, TypeOK, Records
    <2> QED BY <2>5, <2>6
<1> QED
    BY <1>1, Invariance, PTL DEF Spec, OnlyAcceptedWrites

(***************************************************************************)
(* How far an attempt is.  One that started from the session that is still *)
(* published is fresh; without a publication it goes from stage to stage,  *)
(* in an order that leads to an answer.                                    *)
(***************************************************************************)
Fresh(c) == client[c].loaded.ptr = snap.ptr

Stage(c, pc) == client[c].pc = pc

LEMMA HandlerGoesFurther ==
    ASSUME IInv, NEW c \in Clients, Handle(c), snap' = snap
    PROVE  \/ Stage(c, "sent") /\ Stage(c, "load")'
           \/ Stage(c, "load") /\ Stage(c, "check")' /\ Fresh(c)'
           \/ Stage(c, "check") /\ Stage(c, "touch")' /\ (Fresh(c) <=> Fresh(c)')
           \/ Stage(c, "touch") /\ Stage(c, "swap")' /\ (Fresh(c) <=> Fresh(c)')
           \/ Stage(c, "swap") /\ ~Fresh(c) /\ Stage(c, "load")'
           \/ Stage(c, "idle")'
<1> USE DEF Fresh, Stage
<1>1. client[c] \in Records /\ client \in [Clients -> Records]
    BY DEF IInv, TypeOK
<1>2. CASE FirstCheckRefuses(c) \/ ClosureRefuses(c) \/ ClosureMisses(c) \/ SwapWins(c)
    BY <1>1, <1>2
    DEF FirstCheckRefuses, ClosureRefuses, ClosureMisses, SwapWins, Answer, Records
<1>3. CASE FirstCheckPasses(c)
    BY <1>1, <1>3 DEF FirstCheckPasses, Records
<1>4. CASE Load(c)
    BY <1>1, <1>4 DEF Load, Records
<1>5. CASE ClosurePasses(c)
    BY <1>1, <1>5 DEF ClosurePasses, Records
<1>6. CASE Touch(c)
    BY <1>1, <1>6 DEF Touch, Records
<1>7. CASE SwapLoses(c)
    BY <1>1, <1>7 DEF SwapLoses, Records
<1> QED
    BY <1>2, <1>3, <1>4, <1>5, <1>6, <1>7 DEF Handle

LEMMA OthersLeaveRequest ==
    ASSUME IInv, NEW c \in Clients, [Next]_vars, ~Handle(c), ~Stage(c, "idle"),
           snap' = snap
    PROVE  client'[c] = client[c]
<1>1. client \in [Clients -> Records]
    BY DEF IInv, TypeOK
<1>2. CASE UNCHANGED vars \/ OtherPublish
    BY <1>2 DEF vars, OtherPublish
<1>3. ~Get(c)
    BY DEF Get, Stage
<1>4. ASSUME NEW d \in Clients, d # c, Get(d) \/ Handle(d)
      PROVE  client'[c] = client[c]
    <2>1. \E r : client' = [client EXCEPT ![d] = r]
        BY <1>1, <1>4
        DEF Get, Handle, FirstCheckRefuses, FirstCheckPasses, Load, ClosureRefuses,
            ClosureMisses, ClosurePasses, Touch, SwapWins, SwapLoses, Answer
    <2> QED
        BY <1>1, <1>4, <2>1
<1> QED
    BY <1>2, <1>3, <1>4 DEF Next

(***************************************************************************)
(* A handler that goes on answers, or the session is published for ever:   *)
(* its swap is lost only to a publication that has won.                    *)
(***************************************************************************)
LEMMA AnswersOrLoses ==
    ASSUME NEW c \in Clients
    PROVE  Spec /\ RunsOn(c)
             => (InFlight(c) ~> client[c].pc = "idle") \/ []<><<snap' # snap>>_vars
<1> DEFINE Idle == client[c].pc = "idle"
           Sent == Stage(c, "sent")
           Stale == Stage(c, "check") /\ ~Fresh(c)
           Touches == Stage(c, "touch") /\ ~Fresh(c)
           Lost == Stage(c, "swap") /\ ~Fresh(c)
           Begins == Stage(c, "load")
           Checks == Stage(c, "check") /\ Fresh(c)
           Passes == Stage(c, "touch") /\ Fresh(c)
           Swaps == Stage(c, "swap") /\ Fresh(c)
           Quiet == ~(snap' # snap)
           Busy == InFlight(c)
<1>0. IInv => client[c].pc \in PCs
    BY DEF IInv, TypeOK, Records
<1>1. IInv => \/ Idle \/ Sent \/ Stale \/ Touches \/ Lost
              \/ Begins \/ Checks \/ Passes \/ Swaps
    BY <1>0 DEF Stage, PCs
<1>2. IInv /\ [Next]_vars /\ [Quiet]_vars
        => /\ Sent => Sent' \/ Begins' \/ Idle'
           /\ Stale => Stale' \/ Touches' \/ Idle'
           /\ Touches => Touches' \/ Lost' \/ Idle'
           /\ Lost => Lost' \/ Begins' \/ Idle'
           /\ Begins => Begins' \/ Checks' \/ Idle'
           /\ Checks => Checks' \/ Passes' \/ Idle'
           /\ Passes => Passes' \/ Swaps' \/ Idle'
           /\ Swaps => Swaps' \/ Idle'
    <2> SUFFICES ASSUME IInv, [Next]_vars, [Quiet]_vars, ~Idle, ~Idle'
                 PROVE  /\ Sent => Sent' \/ Begins'
                        /\ Stale => Stale' \/ Touches'
                        /\ Touches => Touches' \/ Lost'
                        /\ Lost => Lost' \/ Begins'
                        /\ Begins => Begins' \/ Checks'
                        /\ Checks => Checks' \/ Passes'
                        /\ Passes => Passes' \/ Swaps'
                        /\ Swaps => Swaps'
        BY DEF Stage
    <2>1. snap' = snap
        BY DEF vars
    <2>2. CASE Handle(c)
        BY <2>1, <2>2, HandlerGoesFurther DEF Stage
    <2>3. CASE ~Handle(c)
        <3>1. client'[c] = client[c]
            BY <2>1, <2>3, OthersLeaveRequest DEF Stage
        <3> QED
            BY <2>1, <3>1 DEF Stage, Fresh
    <2> QED
        BY <2>2, <2>3
<1>3. IInv /\ <<Handle(c)>>_vars /\ [Quiet]_vars
        => /\ Sent => Begins' \/ Idle'
           /\ Stale => Touches' \/ Idle'
           /\ Touches => Lost' \/ Idle'
           /\ Lost => Begins' \/ Idle'
           /\ Begins => Checks' \/ Idle'
           /\ Checks => Passes' \/ Idle'
           /\ Passes => Swaps' \/ Idle'
           /\ Swaps => Idle'
    BY HandlerGoesFurther DEF Stage, vars
<1>4. Sent \/ Stale \/ Touches \/ Lost \/ Begins \/ Checks \/ Passes \/ Swaps => ~Idle
    BY DEF Stage
<1> HIDE DEF Idle, Sent, Stale, Touches, Lost, Begins, Checks, Passes, Swaps, Busy
<1>5. Spec /\ ([]<>Idle \/ []<><<Handle(c)>>_vars)
        => (Busy ~> Idle) \/ []<><<snap' # snap>>_vars
    BY <1>1, <1>2, <1>3, <1>4, Invariance, PTL DEF Spec
<1> QED
    BY <1>5 DEF RunsOn, Idle, Busy

THEOREM RequestsAreLockFree ==
    Spec /\ (\A c \in Clients : RunsOn(c)) => LockFree
<1> SUFFICES ASSUME NEW c \in Clients
             PROVE  Spec /\ (\A d \in Clients : RunsOn(d))
                      => (InFlight(c) ~> client[c].pc = "idle")
                           \/ []<><<snap' # snap>>_vars
    BY DEF LockFree
<1>1. (\A d \in Clients : RunsOn(d)) => RunsOn(c)
    OBVIOUS
<1> QED
    BY <1>1, AnswersOrLoses, PTL
=============================================================================
