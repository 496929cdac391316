------------------------------ MODULE EventRing ------------------------------
(***************************************************************************)
(* The v2 event stream: the bounded ring of published frames and its       *)
(* fan-out (internal/v2/server/eventring.go), and the SSE handler that     *)
(* replays from the ring and then follows the live channel                 *)
(* (handlers_sse.go).                                                      *)
(*                                                                         *)
(* One goroutine publishes (EventSource.run), so a frame is its id and the *)
(* ring is the interval tail .. seq.  A client is an SSE library: it keeps *)
(* the id of the last frame it received and sends it as Last-Event-ID when *)
(* it connects again.  A connection may break between any two frames, and  *)
(* frames written but never received are not told apart from frames not    *)
(* written.                                                                *)
(***************************************************************************)
EXTENDS Naturals, Sequences, SequencesExt

CONSTANTS
  Clients,      \* SSE clients
  MaxFrames,    \* the ring's bound on frames (10 000)
  Buffer,       \* a subscriber's channel (256)
  MaxSeq,       \* bound: frames published in one life of the server
  MaxRestarts   \* bound: restarts of the server

ASSUME RingAssumption ==
  /\ MaxFrames \in Nat \ {0}
  /\ Buffer \in Nat \ {0}
  /\ MaxSeq \in Nat
  /\ MaxRestarts \in Nat

VARIABLES
  tail, seq,    \* the ring holds the frames tail .. seq
  appended,     \* frame seq is in the ring and its fan-out has not begun
  todo,         \* subscribers the fan-out has still to serve; subsMu is held
  full,         \* the one whose channel the fan-out has found full
  conn,         \* the SSE handler of each client
  cursor,       \* the Last-Event-ID each client holds (0: none)
  seen,         \* what became of the frames of this life, per client (ghost)
  restarts

publisher == <<tail, seq, appended, todo, full>>
vars == <<publisher, conn, cursor, seen, restarts>>

-----------------------------------------------------------------------------
(* The handler of one connection.  from .. to is what is left of the       *)
(* replay, gap says that the replay.gap frame is still to be written, and  *)
(* last is lastDelivered.                                                  *)
Away == [pc |-> "away", gap |-> FALSE, from |-> 1, to |-> 0, last |-> 0,
         ch |-> << >>]

(* first is the first id the client received in this life of the server,   *)
(* dropped the ids its full channel lost, told those a replay.gap named.   *)
Nothing == [first |-> 0, have |-> {}, told |-> {}, dropped |-> {}]

Subscribed == {c \in Clients : conn[c].pc \in {"subscribed", "serving"}}

InChannel(c) == ToSet(conn[c].ch)

(* The last id that has been offered to the subscription of c.             *)
Offered(c) == IF appended \/ c \in todo THEN seq - 1 ELSE seq

Init ==
  /\ tail = 1 /\ seq = 0
  /\ appended = FALSE /\ todo = {} /\ full = {}
  /\ conn = [c \in Clients |-> Away]
  /\ cursor = [c \in Clients |-> 0]
  /\ seen = [c \in Clients |-> Nothing]
  /\ restarts = 0

-----------------------------------------------------------------------------
(* The publisher.                                                          *)

(* Publish up to mu.Unlock: take an id, append, evict.  The count bound is *)
(* exact; the age bound may take any more of the old frames, never the one *)
(* just made.                                                              *)
Publish ==
  /\ ~appended /\ todo = {} /\ seq < MaxSeq
  /\ seq' = seq + 1
  /\ tail' \in {t \in tail .. seq + 1 : t + MaxFrames > seq + 1}
  /\ appended' = TRUE
  /\ UNCHANGED <<todo, full, conn, cursor, seen, restarts>>

(* fanOut takes subsMu: from here until it has served everyone, nobody     *)
(* subscribes.                                                             *)
FanOut ==
  /\ appended
  /\ appended' = FALSE
  /\ todo' = Subscribed
  /\ UNCHANGED <<tail, seq, full, conn, cursor, seen, restarts>>

(* case c <- f: there is room.                                             *)
Offer(c) ==
  /\ c \in todo /\ full = {}
  /\ Len(conn[c].ch) < Buffer
  /\ conn' = [conn EXCEPT ![c].ch = Append(@, seq)]
  /\ todo' = todo \ {c}
  /\ UNCHANGED <<tail, seq, appended, full, cursor, seen, restarts>>

(* default: the channel is full.  The handler may still read from it       *)
(* before the fan-out does.                                                *)
FindFull(c) ==
  /\ c \in todo /\ full = {}
  /\ Len(conn[c].ch) >= Buffer
  /\ full' = {c}
  /\ UNCHANGED <<tail, seq, appended, todo, conn, cursor, seen, restarts>>

(* Mutants of Replace: a send that waits for room, and dropping the frame  *)
(* that does not fit instead of the oldest one.                            *)
Replace_Waits(c) ==
  /\ c \in full
  /\ Len(conn[c].ch) < Buffer
  /\ conn' = [conn EXCEPT ![c].ch = Append(@, seq)]
  /\ todo' = todo \ {c} /\ full' = {}
  /\ UNCHANGED <<tail, seq, appended, cursor, seen, restarts>>

Replace_DropsNew(c) ==
  /\ c \in full
  /\ seen' = [seen EXCEPT ![c].dropped = @ \cup {seq}]
  /\ todo' = todo \ {c} /\ full' = {}
  /\ UNCHANGED <<tail, seq, appended, conn, cursor, restarts>>

(* Drop the oldest frame, if one is left, and send the new one.            *)
Replace(c) ==
  /\ c \in full
  /\ IF conn[c].ch = << >>
     THEN /\ conn' = [conn EXCEPT ![c].ch = <<seq>>]
          /\ UNCHANGED seen
     ELSE /\ conn' = [conn EXCEPT ![c].ch = Append(Tail(@), seq)]
          /\ seen' = [seen EXCEPT ![c].dropped = @ \cup {Head(conn[c].ch)}]
  /\ todo' = todo \ {c}
  /\ full' = {}
  /\ UNCHANGED <<tail, seq, appended, cursor, restarts>>

-----------------------------------------------------------------------------
(* The handler of client c.                                                *)

(* A request arrives; Subscribe waits for subsMu.                          *)
Subscribe(c) ==
  /\ conn[c].pc = "away" /\ todo = {}
  /\ conn' = [conn EXCEPT ![c].pc = "subscribed"]
  /\ UNCHANGED <<publisher, cursor, seen, restarts>>

(* The header is present and the ring is not empty.                        *)
Resumes(c) == cursor[c] # 0 /\ seq # 0

(* lastID is older than the frame before the oldest one that is left.      *)
Missed(c) == Resumes(c) /\ cursor[c] < tail - 1

(* A mutant of Since: the survivors are replayed without a gap frame.      *)
Since_Silent(c) ==
  /\ conn[c].pc = "subscribed"
  /\ conn' = [conn EXCEPT
       ![c] = [@ EXCEPT
         !.pc = "serving",
         !.from = IF Missed(c) THEN tail ELSE cursor[c] + 1,
         !.to = IF Resumes(c) THEN seq ELSE 0]]
  /\ UNCHANGED <<publisher, cursor, seen, restarts>>

(* Since: a copy of what the ring holds after Last-Event-ID.               *)
Since(c) ==
  /\ conn[c].pc = "subscribed"
  /\ conn' = [conn EXCEPT
       ![c] = [@ EXCEPT
         !.pc = "serving",
         !.gap = Missed(c),
         !.from = IF Missed(c) THEN tail ELSE cursor[c] + 1,
         !.to = IF Resumes(c) THEN seq ELSE 0]]
  /\ UNCHANGED <<publisher, cursor, seen, restarts>>

(* Client c receives frame i: the id becomes its Last-Event-ID.            *)
Receives(c, i) ==
  /\ cursor' = [cursor EXCEPT ![c] = i]
  /\ seen' = [seen EXCEPT
       ![c].have = @ \cup {i},
       ![c].first = IF @ = 0 THEN i ELSE @]

(* A mutant of WriteGap: the range ends with the first frame that is left. *)
WriteGap_ToTail(c) ==
  LET id == conn[c].from - 1 IN
  /\ conn[c].pc = "serving" /\ conn[c].gap
  /\ cursor' = [cursor EXCEPT ![c] = id]
  /\ seen' = [seen EXCEPT
       ![c].told = @ \cup (cursor[c] + 1 .. id + 1),
       ![c].first = IF @ = 0 THEN id ELSE @]
  /\ conn' = [conn EXCEPT ![c].gap = FALSE, ![c].last = id]
  /\ UNCHANGED <<publisher, restarts>>

(* The replay.gap frame names the missed ids and carries the id before the *)
(* first frame that is left.                                               *)
WriteGap(c) ==
  LET id == conn[c].from - 1 IN
  /\ conn[c].pc = "serving" /\ conn[c].gap
  /\ cursor' = [cursor EXCEPT ![c] = id]
  /\ seen' = [seen EXCEPT
       ![c].told = @ \cup (cursor[c] + 1 .. id),
       ![c].first = IF @ = 0 THEN id ELSE @]
  /\ conn' = [conn EXCEPT ![c].gap = FALSE, ![c].last = id]
  /\ UNCHANGED <<publisher, restarts>>

WriteReplay(c) ==
  LET i == conn[c].from IN
  /\ conn[c].pc = "serving" /\ ~conn[c].gap
  /\ i <= conn[c].to
  /\ Receives(c, i)
  /\ conn' = [conn EXCEPT ![c].from = i + 1, ![c].last = i]
  /\ UNCHANGED <<publisher, restarts>>

(* The replay is over and the live channel has something to read.          *)
Live(c) ==
  /\ conn[c].pc = "serving" /\ ~conn[c].gap
  /\ conn[c].from > conn[c].to
  /\ conn[c].ch # << >>

(* A mutant of WriteLive: frames of the replay are delivered again.        *)
WriteLive_Again(c) ==
  LET i == Head(conn[c].ch) IN
  /\ Live(c)
  /\ Receives(c, i)
  /\ conn' = [conn EXCEPT ![c].ch = Tail(@), ![c].last = i]
  /\ UNCHANGED <<publisher, restarts>>

WriteLive(c) ==
  LET i == Head(conn[c].ch) IN
  /\ Live(c)
  /\ i > conn[c].last
  /\ Receives(c, i)
  /\ conn' = [conn EXCEPT ![c].ch = Tail(@), ![c].last = i]
  /\ UNCHANGED <<publisher, restarts>>

(* The frame was delivered during replay.                                  *)
SkipLive(c) ==
  /\ Live(c)
  /\ Head(conn[c].ch) <= conn[c].last
  /\ conn' = [conn EXCEPT ![c].ch = Tail(@)]
  /\ UNCHANGED <<publisher, cursor, seen, restarts>>

(* The connection breaks.  The handler's deferred cancel waits for subsMu; *)
(* until it runs the fan-out serves a channel nobody reads.                *)
Disconnect(c) ==
  /\ conn[c].pc # "away"
  /\ conn' = [conn EXCEPT ![c] = Away]
  /\ todo' = todo \ {c}
  /\ full' = full \ {c}
  /\ UNCHANGED <<tail, seq, appended, cursor, seen, restarts>>

(* The server restarts: ring, ids and subscriptions are gone, and ids      *)
(* begin again at 1.  The clients keep their cursors.                      *)
Restart ==
  /\ restarts < MaxRestarts
  /\ restarts' = restarts + 1
  /\ tail' = 1 /\ seq' = 0
  /\ appended' = FALSE /\ todo' = {} /\ full' = {}
  /\ conn' = [c \in Clients |-> Away]
  /\ seen' = [c \in Clients |-> Nothing]
  /\ UNCHANGED cursor

-----------------------------------------------------------------------------
FansOut ==
  \/ FanOut
  \/ \E c \in Clients : Offer(c) \/ FindFull(c) \/ Replace(c)

Serves(c) ==
  Since(c) \/ WriteGap(c) \/ WriteReplay(c) \/ WriteLive(c) \/ SkipLive(c)

Next ==
  \/ Publish
  \/ FansOut
  \/ \E c \in Clients : Subscribe(c) \/ Serves(c) \/ Disconnect(c)
  \/ Restart

Spec == Init /\ [][Next]_vars

(* The publisher's goroutine is scheduled, and a client that stays         *)
(* connected keeps reading, so that its handler runs.                      *)
FairSpec ==
  /\ Spec
  /\ WF_vars(FansOut)
  /\ \A c \in Clients : WF_vars(Serves(c))

-----------------------------------------------------------------------------
Handlers ==
  [pc: {"away", "subscribed", "serving"}, gap: BOOLEAN,
   from: Nat, to: Nat, last: Nat, ch: Seq(Nat)]

Accounts ==
  [first: Nat, have: SUBSET Nat, told: SUBSET Nat, dropped: SUBSET Nat]

(* Every variable has its type, and a foreign cursor (one from an earlier  *)
(* life of the server) is told by first = 0.                               *)
TypeOK ==
  /\ seq \in Nat /\ tail \in Nat /\ restarts \in Nat
  /\ tail >= 1 /\ (seq # 0 => tail <= seq) /\ (seq = 0 => tail = 1)
  /\ appended \in BOOLEAN /\ (appended => seq # 0 /\ todo = {})
  /\ todo \in SUBSET Subscribed /\ (todo # {} => seq # 0)
  /\ full \in SUBSET todo
  /\ cursor \in [Clients -> Nat]
  /\ conn \in [Clients -> Handlers]
  /\ seen \in [Clients -> Accounts]

(* The ids of a channel are consecutive and end with n.                    *)
EndsWith(s, n) ==
  /\ Len(s) <= n
  /\ \A k \in DOMAIN s : s[k] = n - Len(s) + k

(* A subscriber's channel holds consecutive ids that end with the one      *)
(* offered last: only its oldest frames are ever lost.                     *)
ChannelEndsWithNewest(c) == EndsWith(conn[c].ch, Offered(c))

(* The ghosts agree with the cursor, and an id was reported missing only   *)
(* when the ring no longer held it.                                        *)
SeenOK(c) ==
  /\ seen[c].first = 0 =>
       seen[c].have = {} /\ seen[c].told = {}
  /\ seen[c].first # 0 =>
       /\ seen[c].first <= cursor[c] /\ cursor[c] <= seq
       /\ \A i \in seen[c].have \cup seen[c].told : i <= cursor[c]
  /\ \A i \in seen[c].told : i < tail

(* Until its replay is taken, a subscription begins no later than the      *)
(* frame after the client's cursor.                                        *)
SubscribedInTime(c) ==
  seen[c].first # 0 => cursor[c] <= Offered(c) - Len(conn[c].ch) + 1

(* What is left of the replay follows the cursor, the live channel follows *)
(* the replay, and nothing in between is lost but by overflow.             *)
ReplayMeetsLive(c) ==
  LET s == conn[c] IN
  /\ s.from >= 1 /\ s.to <= seq
  /\ s.gap => cursor[c] < s.from - 1 /\ s.from <= s.to /\ s.from <= tail
  /\ ~s.gap /\ s.from <= s.to => cursor[c] = s.from - 1
  /\ s.from > s.to =>
       /\ s.last # 0 => seen[c].first # 0 /\ cursor[c] = s.last
       /\ s.last = 0 => SubscribedInTime(c) /\ cursor[c] \notin seen[c].told
  /\ s.gap \/ s.from <= s.to \/ seen[c].first # 0 =>
       \A i \in 1 .. Offered(c) :
         \/ i <= IF s.gap \/ s.from <= s.to THEN s.to ELSE cursor[c]
         \/ i \in InChannel(c)
         \/ i \in seen[c].dropped

(* The ids from the first one the client received to its cursor are        *)
(* accounted for, and none of them in two ways.                            *)
Explained(c) == seen[c].first # 0 =>
  \A i \in seen[c].first .. cursor[c] :
    i \in seen[c].have \cup seen[c].told \cup seen[c].dropped

ToldOnce(c) == seen[c].told \cap seen[c].have = {}

(* A client that has received a frame since the server started has an      *)
(* account of every id from that one up to its Last-Event-ID: it received  *)
(* the frame, a replay.gap told it that the frame is gone, or its own      *)
(* channel overflowed.  Neither subscribing while frames are published nor *)
(* breaking off in the middle of a replay loses a frame in silence         *)
(* (handlers_sse.go:60-62, DESIGN.md "Why surface gaps explicitly").       *)
HolesExplained == \A c \in Clients : Explained(c)

(* No frame is both reported missing and delivered, whatever the ring      *)
(* evicts between the report and the replay (SinceResult.MissedTo).        *)
ToldMissing == \A c \in Clients : ToldOnce(c)

(* What a handler has of its own in each of its states.                    *)
HandlerOK(c) ==
  /\ conn[c].pc = "away" => conn[c] = Away
  /\ conn[c].pc = "subscribed" =>
       /\ conn[c].last = 0
       /\ ChannelEndsWithNewest(c)
       /\ SubscribedInTime(c)
  /\ conn[c].pc = "serving" =>
       /\ ChannelEndsWithNewest(c)
       /\ ReplayMeetsLive(c)

ClientOK(c) == SeenOK(c) /\ HandlerOK(c) /\ Explained(c) /\ ToldOnce(c)

IInv == TypeOK /\ \A c \in Clients : ClientOK(c)

(* Within one life of the server the ids a client receives never go back,  *)
(* across reconnections too: its Last-Event-ID never asks for frames it    *)
(* has had.                                                                *)
InOrder ==
  [][\A c \in Clients : restarts' = restarts /\ seen[c].first # 0 =>
       cursor'[c] >= cursor[c]]_vars

(* Publish is never held up: until the fan-out is over one of its steps    *)
(* can be taken, whatever the clients do or fail to do with their channels *)
(* ("the publisher never blocks", eventring.go:46-48).                     *)
NeverBlocks == appended \/ todo # {} => ENABLED FansOut

(* A subscriber that stays connected and reads catches up with the newest  *)
(* frame as soon as publishing pauses, however far behind it fell:         *)
(* overflow costs it old frames only.                                      *)
NewestArrives ==
  \A c \in Clients : c \in todo ~> (cursor[c] >= seq \/ conn[c].pc = "away")

(* eventring.go:130-133 says that the frames a full channel dropped "are   *)
(* recoverable via Last-Event-ID reconnect": a dropped frame that has not  *)
(* been delivered or reported is still ahead of the client's cursor.       *)
DroppedRecoverable ==
  \A c \in Clients :
    \A i \in seen[c].dropped \ (seen[c].have \cup seen[c].told) :
      seen[c].first # 0 => cursor[c] < i

(* DESIGN.md:748-750: a client that lost frames is told so.  Here: the     *)
(* first id it receives after a restart of the server is 1, or a           *)
(* replay.gap.                                                             *)
RestartTold ==
  [][\A c \in Clients :
       restarts' = restarts /\ cursor[c] # 0 /\ seen[c].first = 0
         /\ seen'[c].first # 0 =>
       seen'[c].first = 1 \/ seen'[c].told # {}]_vars
=============================================================================
