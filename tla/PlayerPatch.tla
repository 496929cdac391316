----------------------------- MODULE PlayerPatch -----------------------------
(***************************************************************************)
(* Field-level optimistic concurrency of the v2 control API: PATCH         *)
(* /players/{id} and POST, PATCH and DELETE on its fault_rules, each with  *)
(* an If-Match ETag (go-proxy/internal/v2/server).  A handler checks the   *)
(* paths it writes against the per-path revision tracker, mints its        *)
(* revision, and passes mutateSessions a closure that checks again, edits  *)
(* the draft and touches the tracker.  The closure runs again when the     *)
(* compare-and-swap loses; the tracker is not part of what is swapped.     *)
(*                                                                         *)
(* One player, in no group, that exists throughout.  A revision is the     *)
(* number of the newRevision() call that made it; the session starts with  *)
(* revision 0, stamped when it was created.                                *)
(***************************************************************************)
EXTENDS Naturals, Sequences, SequencesExt

CONSTANTS
    Clients,
    Leaves,         \* the fields and fault rules of the player
    InitialLeaves,  \* those that are there at first
    Requests,       \* what may be asked: see RequestType
    Paths,          \* every path a request touches, as sequences of names
    MaxTries,       \* bound: requests per client
    MaxPublishes    \* bound: publications by writers outside this API

\* "to" gives the leaves written and whether they are there afterwards;
\* "mustExist" holds of the per-rule PATCH and DELETE, which answer 404.
RequestType ==
    [paths : SUBSET Paths,
     to : UNION {[W -> BOOLEAN] : W \in SUBSET Leaves},
     mustExist : BOOLEAN]

ASSUME PatchAssumption ==
    /\ InitialLeaves \subseteq Leaves
    /\ Requests \subseteq RequestType
    /\ MaxTries \in Nat
    /\ MaxPublishes \in Nat

Values == [by : Nat, there : BOOLEAN]
Views == [Leaves -> Values]
Cells == [ptr : Nat, rev : Nat, val : Views]

VARIABLES
    snap,       \* the published session: pointer, control_revision, leaves
    tracker,    \* FieldRevisions.revs, 0 for a path never touched
    minter,     \* minter[r]: the client whose request drew revision r
    published,  \* publications by the other writers so far
    client      \* the request each client has in progress, see Records

vars == <<snap, tracker, minter, published, client>>

PCs == {"idle", "sent", "load", "check", "touch", "swap"}
Replies == {"none", "accepted", "conflict", "not_found"}

\* seen, what the GET showed, is the client's own memory; loaded is the
\* pointer the current attempt will compare against.
Records ==
    [pc : PCs, req : Requests, ifMatch : Nat, seen : Views, rev : Nat,
     loaded : Cells, tries : Nat, reply : Replies]

-----------------------------------------------------------------------------
\* pathsRelated: equal, or one a '.'-bounded ancestor of the other.
Related(p, q) == IsPrefix(p, q) \/ IsPrefix(q, p)

\* FieldRevisions.Conflicts is not empty.
Conflicts(ifMatch, paths) ==
    \E q \in paths, p \in Paths : Related(p, q) /\ tracker[p] > ifMatch

\* FieldRevisions.Top
Top == CHOOSE r \in {0} \cup {tracker[p] : p \in Paths} :
            \A p \in Paths : tracker[p] <= r

\* FieldRevisions.TouchWith: assigned, not maximised.
Touched(paths, r) == [p \in Paths |-> IF p \in paths THEN r ELSE tracker[p]]

Found(req, val) == req.mustExist => \A l \in DOMAIN req.to : val[l].there

\* applyPatchToSession, and the edits of the fault rule handlers.
Applied(req, val, r) ==
    [l \in Leaves |-> IF l \in DOMAIN req.to
                      THEN [by |-> r, there |-> req.to[l]] ELSE val[l]]

Init ==
    LET val == [l \in Leaves |-> [by |-> 0, there |-> l \in InitialLeaves]]
        cell == [ptr |-> 0, rev |-> 0, val |-> val]
    IN  /\ snap = cell
        /\ tracker = [p \in Paths |-> 0]
        /\ minter = <<>>
        /\ published = 0
        /\ \E req \in [Clients -> Requests] :
            client = [c \in Clients |->
                [pc |-> "idle", req |-> req[c], ifMatch |-> 0, seen |-> val,
                 rev |-> 0, loaded |-> cell, tries |-> 0, reply |-> "none"]]

\* The request's answer: the client is free to read and try again.
Answer(c, reply) ==
    client' = [client EXCEPT ![c].pc = "idle", ![c].reply = reply]

\* GET: the ETag is the session's control_revision.  The client then sends
\* a write with it; its handler has drawn no revision yet, and what it has
\* loaded does not matter before Load.
Get(c) ==
    /\ client[c].pc = "idle"
    /\ client[c].tries < MaxTries
    /\ \E req \in Requests :
        client' = [client EXCEPT ![c] =
            [pc |-> "sent", req |-> req, ifMatch |-> snap.rev, seen |-> snap.val,
             rev |-> 0, loaded |-> snap, tries |-> client[c].tries + 1,
             reply |-> "none"]]
    /\ UNCHANGED <<snap, tracker, minter, published>>

\* The check outside the closure, refusing.
FirstCheckRefuses(c) ==
    /\ client[c].pc = "sent"
    /\ Conflicts(client[c].ifMatch, client[c].req.paths)
    /\ Answer(c, "conflict")
    /\ UNCHANGED <<snap, tracker, minter, published>>

\* Mutant: the revision follows the one the session has, so two requests in
\* flight draw the same.
FirstCheckPasses_RevFromSession(c) ==
    /\ client[c].pc = "sent"
    /\ ~Conflicts(client[c].ifMatch, client[c].req.paths)
    /\ minter' = Append(minter, c)
    /\ client' = [client EXCEPT ![c].pc = "load", ![c].rev = snap.rev + 1]
    /\ UNCHANGED <<snap, tracker, published>>

\* The check passes and newRevision() is called, before MutatePlayer.
FirstCheckPasses(c) ==
    /\ client[c].pc = "sent"
    /\ ~Conflicts(client[c].ifMatch, client[c].req.paths)
    /\ minter' = Append(minter, c)
    /\ client' = [client EXCEPT ![c].pc = "load", ![c].rev = Len(minter')]
    /\ UNCHANGED <<snap, tracker, published>>

\* mutateSessions: an attempt begins with the published list.
Load(c) ==
    /\ client[c].pc = "load"
    /\ client' = [client EXCEPT ![c].pc = "check", ![c].loaded = snap]
    /\ UNCHANGED <<snap, tracker, minter, published>>

\* The closure's own check refuses: the error makes the call publish nothing.
ClosureRefuses(c) ==
    /\ client[c].pc = "check"
    /\ Conflicts(client[c].ifMatch, client[c].req.paths)
    /\ Answer(c, "conflict")
    /\ UNCHANGED <<snap, tracker, minter, published>>

\* errFaultRuleNotFound
ClosureMisses(c) ==
    /\ client[c].pc = "check"
    /\ ~Conflicts(client[c].ifMatch, client[c].req.paths)
    /\ ~Found(client[c].req, client[c].loaded.val)
    /\ Answer(c, "not_found")
    /\ UNCHANGED <<snap, tracker, minter, published>>

ClosurePasses(c) ==
    /\ client[c].pc = "check"
    /\ ~Conflicts(client[c].ifMatch, client[c].req.paths)
    /\ Found(client[c].req, client[c].loaded.val)
    /\ client' = [client EXCEPT ![c].pc = "touch"]
    /\ UNCHANGED <<snap, tracker, minter, published>>

\* The end of the closure: the draft is ready and the tracker, shared with
\* every other request, is touched before the swap is tried.
Touch(c) ==
    /\ client[c].pc = "touch"
    /\ tracker' = Touched(client[c].req.paths, client[c].rev)
    /\ client' = [client EXCEPT ![c].pc = "swap"]
    /\ UNCHANGED <<snap, minter, published>>

Publish(c) ==
    snap' = [ptr |-> snap.ptr + 1, rev |-> client[c].rev,
             val |-> Applied(client[c].req, client[c].loaded.val, client[c].rev)]

\* Mutant: the draft is stored without comparing the pointer.
SwapWins_NoCompare(c) ==
    /\ client[c].pc = "swap"
    /\ Publish(c)
    /\ Answer(c, "accepted")
    /\ UNCHANGED <<tracker, minter, published>>

SwapWins(c) ==
    /\ client[c].pc = "swap"
    /\ client[c].loaded.ptr = snap.ptr
    /\ Publish(c)
    /\ Answer(c, "accepted")
    /\ UNCHANGED <<tracker, minter, published>>

\* Mutant: the loser compares against the same pointer again.
SwapLoses_NoReload(c) ==
    /\ client[c].pc = "swap"
    /\ client[c].loaded.ptr # snap.ptr
    /\ UNCHANGED vars

\* The whole closure runs again; what it touched stays touched.
SwapLoses(c) ==
    /\ client[c].pc = "swap"
    /\ client[c].loaded.ptr # snap.ptr
    /\ client' = [client EXCEPT ![c].pc = "load"]
    /\ UNCHANGED <<snap, tracker, minter, published>>

\* Any other writer of the session list: a metrics POST, a request's save, a
\* registration.
OtherPublish ==
    /\ published < MaxPublishes
    /\ published' = published + 1
    /\ snap' = [snap EXCEPT !.ptr = @ + 1]
    /\ UNCHANGED <<tracker, minter, client>>

Handle(c) ==
    \/ FirstCheckRefuses(c)
    \/ FirstCheckPasses(c)
    \/ Load(c)
    \/ ClosureRefuses(c)
    \/ ClosureMisses(c)
    \/ ClosurePasses(c)
    \/ Touch(c)
    \/ SwapWins(c)
    \/ SwapLoses(c)

Next == (\E c \in Clients : Get(c) \/ Handle(c)) \/ OtherPublish

Spec == Init /\ [][Next]_vars

\* A handler's goroutine that can run eventually does; clients owe nothing.
FairSpec == Spec /\ \A c \in Clients : WF_vars(Handle(c))

-----------------------------------------------------------------------------
TypeOK ==
    /\ snap \in Cells
    /\ tracker \in [Paths -> Nat]
    /\ minter \in Seq(Clients)
    /\ published \in Nat
    /\ client \in [Clients -> Records]

InFlight(c) == client[c].pc \in {"load", "check", "touch", "swap"}

\* A revision is in the hands of one request, and neither the session nor
\* anybody's If-Match has it before that request is accepted.
RevisionsFresh ==
    /\ snap.rev <= Len(minter)
    /\ \A c \in Clients : client[c].ifMatch <= Len(minter)
    /\ \A c \in Clients : InFlight(c) =>
        /\ client[c].rev \in 1..Len(minter)
        /\ snap.rev # client[c].rev
        /\ \A d \in Clients :
            /\ client[d].ifMatch # client[c].rev
            /\ (d # c /\ InFlight(d)) => client[d].rev # client[c].rev

\* A pointer that still compares equal is the session that was loaded.
LoadedIsACell ==
    \A c \in Clients :
        /\ client[c].loaded.ptr <= snap.ptr
        /\ client[c].loaded.ptr = snap.ptr => client[c].loaded.val = snap.val

\* RFC 7232 strong tag: a client whose If-Match is still the ETag of the
\* session has seen the session's current leaves.
StrongTag ==
    \A c \in Clients : client[c].ifMatch = snap.rev => client[c].seen = snap.val

IInv == TypeOK /\ RevisionsFresh /\ LoadedIsACell /\ StrongTag

\* Patches of different fields never undo each other: a leaf of the published
\* session changes only in the step that accepts a request that writes it.
OnlyAcceptedWrites ==
    [][\A l \in Leaves : snap'.val[l] # snap.val[l] =>
        \E c \in Clients :
            /\ l \in DOMAIN client[c].req.to
            /\ client[c].pc = "swap"
            /\ client'[c].reply = "accepted"]_vars

\* Every request is answered, however often its swap loses.
EveryRequestAnswered == \A c \in Clients : InFlight(c) ~> client[c].pc = "idle"

\* Weak fairness of a handler's steps with ENABLED spelled out, which is the
\* form the proofs use: a handler can go on until it has answered.
CanHandleIsEnabled ==
    \A c \in Clients : client[c].pc # "idle" <=> ENABLED <<Handle(c)>>_vars

RunsOn(c) == []<>(client[c].pc = "idle") \/ []<><<Handle(c)>>_vars

\* Without a bound on publications: a request that is never answered is one
\* that other publications never cease to beat.
LockFree ==
    \A c \in Clients :
        (InFlight(c) ~> client[c].pc = "idle") \/ []<><<snap' # snap>>_vars

-----------------------------------------------------------------------------
\* What the documents say that the code does not do.

\* DESIGN.md: "412 only fires when two clients actually contend on the same
\* field": a refused client is refused for a revision of somebody else.
RefusedOnlyOnContention ==
    [][\A c \in Clients :
        client[c].pc # "idle" /\ client'[c].reply = "conflict" =>
            \E q \in client[c].req.paths, p \in Paths :
                /\ Related(p, q)
                /\ tracker[p] > client[c].ifMatch
                /\ minter[tracker[p]] # c]_vars

\* concurrency.go: "The current resource ETag is the lexicographic maximum of
\* all field revisions", when no write is under way.
EtagIsTop == (\A c \in Clients : ~InFlight(c)) => snap.rev = Top

\* DESIGN.md: a path modified after If-Match is refused: an accepted write
\* replaces what its client was shown.
NoBlindOverwrite ==
    [][\A c \in Clients :
        client[c].pc = "swap" /\ client'[c].reply = "accepted" =>
            \A l \in DOMAIN client[c].req.to : snap.val[l] = client[c].seen[l]]_vars
=============================================================================
