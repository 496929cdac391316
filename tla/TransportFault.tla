--------------------------- MODULE TransportFault ---------------------------
(* The transport fault of one port: the loop that arms and clears an       *)
(* nftables rule in a cadence, the map of cancel functions by which a loop *)
(* is stopped, and the handlers that stop one and start the next: PATCH,   *)
(* DELETE and the bootstrap of a session (go-proxy/cmd/server/main.go).    *)
(*                                                                         *)
(* A handler starts at most one loop, which has its name.  nft is taken to *)
(* succeed, and to list and delete a port's rules in one step; the session *)
(* of the port is always that of the same player.                          *)
EXTENDS Naturals, FiniteSets

CONSTANTS
  Handlers,   \* the handlers, and the loops they start
  None        \* no loop

ASSUME TransportAssumption == None \notin Handlers

VARIABLES
  sess,     \* whether there is a session, and whether its fault is active
  reg,      \* faultLoops[port]: the loop whose cancel function is there
  rules,    \* the rules of the port, each named by the loop that added it
  handler,  \* where each handler is, what it arms and what it arms then
  loop      \* where each loop is, its cadence, and whether it is cancelled

portVars == <<sess, reg, rules, handler, loop>>

(* Until it is cancelled; a number of seconds or packets, once; the same   *)
(* with pauses.                                                            *)
Cadences == {"forever", "once", "cycle"}
Faults == Cadences \cup {"none"}

NoSession == [there |-> FALSE, active |-> FALSE]
Inactive == [there |-> TRUE, active |-> FALSE]
Sessions == {NoSession, Inactive, [there |-> TRUE, active |-> TRUE]}

HandlerPCs ==
  {"idle", "find", "stop", "clear", "report", "register", "fill", "done"}
LoopPCs ==
  {"idle", "check", "add", "arm", "on", "off", "pause", "exit", "sweep",
   "done"}

(* A handler and a loop that have ended keep nothing.                      *)
Returned == [pc |-> "done", arms |-> "none", config |-> "absent"]
Gone == [pc |-> "done", cadence |-> "once", cancelled |-> FALSE]

PortInit ==
  /\ sess = Inactive
  /\ reg = None
  /\ rules = {}
  /\ handler = [h \in Handlers |-> [Returned EXCEPT !.pc = "idle"]]
  /\ loop = [l \in Handlers |-> [Gone EXCEPT !.pc = "idle"]]

(* setTransportFaultSessionState: of the session there is, if any.         *)
SetState(active) ==
  sess' = IF sess.there THEN [sess EXCEPT !.active = active] ELSE sess

(* clearTransportFaultRule: the port's rules, whoever added them.          *)
ClearRules == rules' = {}

-----------------------------------------------------------------------------
(* The handlers.                                                           *)

Starts(h, pc, fault, config) ==
  /\ handler[h].pc = "idle"
  /\ handler' = [handler EXCEPT ![h] =
                   [pc |-> pc, arms |-> fault, config |-> config]]
  /\ UNCHANGED <<reg, rules, loop>>

(* The v1 PATCH saves the session with the fault inactive.                 *)
Patch(h) ==
  /\ sess.there
  /\ sess' = Inactive
  /\ \E fault \in Faults : Starts(h, "stop", fault, "absent")

(* The v2 PATCH leaves the active flag, counts one packet or second at     *)
(* least, and looks the player up again before it arms.                    *)
PatchPlayer(h) ==
  /\ sess.there
  /\ sess' = sess
  /\ \E fault \in Faults \ {"forever"} : Starts(h, "find", fault, "absent")

Delete(h) ==
  /\ sess.there
  /\ sess' = NoSession
  /\ Starts(h, "stop", "none", "absent")

(* The bootstrap reserves a session, sweeps the port, and arms what the    *)
(* player has asked for when the session is filled in.                     *)
Connect(h) ==
  /\ ~sess.there
  /\ sess' = Inactive
  /\ \E config \in Faults \ {"forever"} : Starts(h, "stop", "none", config)

At(h, pc) == handler[h].pc = pc
Goto(h, pc) == handler' = [handler EXCEPT ![h].pc = pc]

Find(h) ==
  /\ At(h, "find")
  /\ handler' = [handler EXCEPT ![h] =
                   IF sess.there THEN [@ EXCEPT !.pc = "stop"] ELSE Returned]
  /\ UNCHANGED <<sess, reg, rules, loop>>

(* stopTransportFaultLoop: whoever takes the function out of the map calls *)
(* it, here at once, and nobody else has it.                               *)
Stop(h) ==
  /\ At(h, "stop")
  /\ reg' = None
  /\ loop' = [l \in Handlers |->
                IF l = reg THEN [loop[l] EXCEPT !.cancelled = TRUE]
                ELSE loop[l]]
  /\ Goto(h, "clear")
  /\ UNCHANGED <<sess, rules>>

(* A session degraded by force, or a host without nftables, arms nothing.  *)
Clear(h) ==
  /\ At(h, "clear")
  /\ ClearRules
  /\ \/ Goto(h, "report")
     \/ handler[h].arms # "none" /\ Goto(h, "register")
  /\ UNCHANGED <<sess, reg, loop>>

Report(h) ==
  /\ At(h, "report")
  /\ SetState(FALSE)
  /\ handler' = [handler EXCEPT ![h] =
                   IF @.config = "absent" THEN Returned
                   ELSE [@ EXCEPT !.pc = "fill", !.arms = "none"]]
  /\ UNCHANGED <<reg, rules, loop>>

(* The session takes the place of the reservation, or is added again.      *)
Fill(h) ==
  /\ At(h, "fill")
  /\ sess' = Inactive
  /\ handler' = [handler EXCEPT ![h] =
                   IF @.config = "none" THEN Returned
                   ELSE [pc |-> "stop", arms |-> @.config,
                         config |-> "absent"]]
  /\ UNCHANGED <<reg, rules, loop>>

(* A configuration that is rejected takes the reservation back.            *)
Reject(h) ==
  /\ At(h, "fill")
  /\ sess' = NoSession
  /\ handler' = [handler EXCEPT ![h] = Returned]
  /\ UNCHANGED <<reg, rules, loop>>

Register(h) ==
  /\ At(h, "register")
  /\ reg' = h
  /\ loop' = [loop EXCEPT ![h] = [pc |-> "check", cadence |-> handler[h].arms,
                                  cancelled |-> FALSE]]
  /\ handler' = [handler EXCEPT ![h] = Returned]
  /\ UNCHANGED <<sess, rules>>

-----------------------------------------------------------------------------
(* runTransportFaultLoop.                                                  *)

Is(l, pc) == loop[l].pc = pc
Becomes(l, pc) == loop' = [loop EXCEPT ![l].pc = pc]

(* Mutant: the loop does not look whether it has been cancelled.           *)
Apply_Unchecked(l) ==
  /\ Is(l, "check")
  /\ ClearRules
  /\ Becomes(l, "add")
  /\ UNCHANGED <<sess, reg, handler>>

(* A loop that is not cancelled clears the rules of the port and adds one; *)
(* to be cancelled before it clears them is to be cancelled after.         *)
Apply(l) ==
  /\ Is(l, "check")
  /\ IF loop[l].cancelled THEN Becomes(l, "exit") /\ rules' = rules
     ELSE Becomes(l, "add") /\ ClearRules
  /\ UNCHANGED <<sess, reg, handler>>

Add(l) ==
  /\ Is(l, "add")
  /\ rules' = rules \cup {l}
  /\ Becomes(l, "arm")
  /\ UNCHANGED <<sess, reg, handler>>

Arm(l) ==
  /\ Is(l, "arm")
  /\ SetState(TRUE)
  /\ Becomes(l, "on")
  /\ UNCHANGED <<reg, rules, handler>>

(* Every 100 ms while packets are counted, the phase is published.         *)
Phase(l) ==
  /\ Is(l, "on") /\ loop[l].cadence # "forever"
  /\ SetState(TRUE)
  /\ UNCHANGED <<reg, rules, handler, loop>>

(* The time is up or the packets have come.  A select whose timer and      *)
(* cancellation are both there takes either.                               *)
Disarm(l) ==
  /\ Is(l, "on") /\ loop[l].cadence # "forever"
  /\ ClearRules
  /\ Becomes(l, "off")
  /\ UNCHANGED <<sess, reg, handler>>

Off(l) ==
  /\ Is(l, "off")
  /\ SetState(FALSE)
  /\ Becomes(l, IF loop[l].cadence = "cycle" THEN "pause" ELSE "exit")
  /\ UNCHANGED <<reg, rules, handler>>

Resume(l) ==
  /\ Is(l, "pause")
  /\ Becomes(l, "check")
  /\ UNCHANGED <<sess, reg, rules, handler>>

Cancelled(l) ==
  /\ loop[l].pc \in {"on", "pause"}
  /\ loop[l].cancelled
  /\ Becomes(l, "exit")
  /\ UNCHANGED <<sess, reg, rules, handler>>

(* The deferred function: whatever loop the map has for the port is taken  *)
(* out, then the rules of the port are cleared.                            *)
Unregister(l) ==
  /\ Is(l, "exit")
  /\ reg' = None
  /\ Becomes(l, "sweep")
  /\ UNCHANGED <<sess, rules, handler>>

(* Mutant: the deferred function leaves the rules.                         *)
Sweep_Nothing(l) ==
  /\ Is(l, "sweep")
  /\ loop' = [loop EXCEPT ![l] = Gone]
  /\ UNCHANGED <<sess, reg, rules, handler>>

Sweep(l) ==
  /\ Is(l, "sweep")
  /\ ClearRules
  /\ loop' = [loop EXCEPT ![l] = Gone]
  /\ UNCHANGED <<sess, reg, handler>>

-----------------------------------------------------------------------------
Handle(h) ==
  \/ Patch(h) \/ PatchPlayer(h) \/ Find(h) \/ Delete(h) \/ Connect(h)
  \/ Stop(h) \/ Clear(h) \/ Report(h) \/ Register(h) \/ Fill(h) \/ Reject(h)

(* What a loop does when nothing but the scheduler makes it wait.          *)
Run(l) ==
  \/ Apply(l) \/ Add(l) \/ Arm(l) \/ Off(l) \/ Cancelled(l)
  \/ Unregister(l) \/ Sweep(l)

PortNext ==
  \/ \E h \in Handlers : Handle(h)
  \/ \E l \in Handlers : Run(l) \/ Phase(l) \/ Disarm(l) \/ Resume(l)

PortSpec == PortInit /\ [][PortNext]_portVars

(* A loop that can go on does.  Packets need not come, nor is a timer      *)
(* needed for what is claimed.                                             *)
PortFairSpec == PortSpec /\ \A l \in Handlers : WF_portVars(Run(l))

-----------------------------------------------------------------------------
PortTypeOK ==
  /\ sess \in Sessions
  /\ reg \in Handlers \cup {None}
  /\ rules \subseteq Handlers
  /\ handler \in [Handlers -> [pc : HandlerPCs, arms : Faults,
                               config : Faults \cup {"absent"}]]
  /\ loop \in [Handlers -> [pc : LoopPCs, cadence : Cadences,
                            cancelled : BOOLEAN]]

Ended(l) == loop[l].pc \in {"idle", "done"}

(* A loop that has ended leaves nothing behind, whoever cleared, armed and *)
(* registered while it did: no rule of it drops packets, and the map has   *)
(* the function of a loop that runs and has not been cancelled.            *)
EndsClean ==
  /\ \A l \in rules : ~Ended(l)
  /\ reg # None => ~Ended(reg) /\ ~loop[reg].cancelled

(* A handler starts its loop with its last step, for a fault, and fills in *)
(* the session that it has reserved; a loop that sweeps has left the map   *)
(* for good.                                                               *)
StartsLast ==
  /\ \A h \in Handlers :
       /\ handler[h].pc # "done" => loop[h].pc = "idle"
       /\ handler[h].pc = "register" => handler[h].arms # "none"
       /\ handler[h].pc = "fill" => handler[h].config # "absent"
  /\ reg # None => loop[reg].pc # "sweep"

PortInvariant == PortTypeOK /\ EndsClean /\ StartsLast

(* A loop that is cancelled ends, wherever in its cadence it is.           *)
CancelledEnds ==
  \A l \in Handlers : loop[l].cancelled ~> Ended(l)

(* Weak fairness of a loop's steps with ENABLED spelled out, which is the  *)
(* form the proofs use: when one can be taken, and that it then is.        *)
CanRun(l) ==
  \/ loop[l].pc \in {"check", "add", "arm", "off", "exit", "sweep"}
  \/ loop[l].pc \in {"on", "pause"} /\ loop[l].cancelled

CanRunIsEnabled ==
  \A l \in Handlers : CanRun(l) <=> ENABLED <<Run(l)>>_portVars

RunsOn(l) == []<>~CanRun(l) \/ []<><<Run(l)>>_portVars

-----------------------------------------------------------------------------
(* What the comments of the code say and its steps do not keep.            *)

(* The sweep "cancels any still-running fault-loop goroutine": main.go     *)
(* 6423.  The deferred function of a loop takes the next loop's function   *)
(* out of the map, and of two handlers that register only one is there.    *)
Stoppable ==
  \A l \in Handlers : ~Ended(l) /\ ~loop[l].cancelled => reg = l

Settled ==
  /\ \A h \in Handlers : handler[h].pc \in {"idle", "done"}
  /\ \A l \in Handlers :
       Ended(l) \/ (loop[l].pc \in {"on", "pause"} /\ ~loop[l].cancelled)

(* "The session can't keep dropping packets while the UI shows the         *)
(* Transport control disabled": main.go 5493, nor the other way round.     *)
ShownAsItIs ==
  Settled /\ sess.there => (sess.active <=> rules # {})
=============================================================================
