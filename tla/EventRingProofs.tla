--------------------------- MODULE EventRingProofs ---------------------------
(***************************************************************************)
(* Proofs about EventRing, for any set of clients, any bound on the ring,  *)
(* any channel and any number of frames and restarts.                      *)
(***************************************************************************)
EXTENDS EventRing, TLAPS

(* The members of a sequence are what stands at its places. *)
LEMMA Places ==
    ASSUME NEW s
    PROVE  /\ \A k \in DOMAIN s : s[k] \in ToSet(s)
           /\ \A x \in ToSet(s) : \E k \in DOMAIN s : x = s[k]
BY DEF ToSet

(***************************************************************************)
(* Sending the next id keeps a channel consecutive.                        *)
(***************************************************************************)
LEMMA AppendEnds ==
    ASSUME NEW s \in Seq(Nat), NEW n \in Nat, n # 0, EndsWith(s, n - 1)
    PROVE  /\ Append(s, n) \in Seq(Nat) /\ Len(Append(s, n)) = Len(s) + 1
           /\ EndsWith(Append(s, n), n)
           /\ ToSet(Append(s, n)) = ToSet(s) \cup {n}
<1> DEFINE t == Append(s, n)
<1>1. /\ t \in Seq(Nat) /\ Len(t) = Len(s) + 1
      /\ DOMAIN t = 1 .. Len(s) + 1 /\ DOMAIN s = 1 .. Len(s)
      /\ t[Len(s) + 1] = n
      /\ \A k \in 1 .. Len(s) : t[k] = s[k]
      /\ Len(s) \in Nat
    OBVIOUS
<1> HIDE DEF t
<1>2. EndsWith(t, n)
    <2>1. Len(s) <= n - 1 /\ \A k \in 1 .. Len(s) : s[k] = (n - 1) - Len(s) + k
        BY <1>1 DEF EndsWith
    <2>2. ASSUME NEW k \in 1 .. Len(s) + 1 PROVE t[k] = n - Len(t) + k
        <3>1. CASE k = Len(s) + 1
            BY <1>1, <3>1
        <3>2. CASE k # Len(s) + 1
            <4>1. k \in 1 .. Len(s)
                BY <1>1, <3>2
            <4> QED BY <1>1, <2>1, <4>1
        <3> QED BY <3>1, <3>2
    <2>3. Len(t) <= n
        BY <1>1, <2>1
    <2>4. \A k \in DOMAIN t : t[k] = n - Len(t) + k
        BY <1>1, <2>2
    <2> QED BY <2>3, <2>4 DEF EndsWith
<1>3. ToSet(t) = ToSet(s) \cup {n}
    <2>1. ASSUME NEW k \in 1 .. Len(s) PROVE k \in DOMAIN t /\ t[k] = s[k]
        BY <1>1
    <2>2. Len(s) + 1 \in DOMAIN t
        BY <1>1
    <2>3. ASSUME NEW k \in DOMAIN t PROVE t[k] \in ToSet(s) \cup {n}
        <3>1. k \in 1 .. Len(s) \/ k = Len(s) + 1
            BY <1>1
        <3> QED BY <1>1, <3>1, Places
    <2>4. ASSUME NEW x \in ToSet(t) PROVE x \in ToSet(s) \cup {n}
        BY <2>3, Places
    <2>5. ASSUME NEW x \in ToSet(s) PROVE x \in ToSet(t)
        <3>1. PICK k \in DOMAIN s : x = s[k]
            BY Places
        <3>2. k \in DOMAIN t /\ t[k] = x
            BY <1>1, <2>1, <3>1
        <3> QED BY <3>2, Places
    <2>6. n \in ToSet(t)
        BY <1>1, <2>2, Places
    <2> QED BY <2>4, <2>5, <2>6
<1> QED BY <1>1, <1>2, <1>3 DEF t

(***************************************************************************)
(* Taking the oldest id from a channel keeps it consecutive, and what is   *)
(* left is newer.                                                          *)
(***************************************************************************)
LEMMA TailEnds ==
    ASSUME NEW s \in Seq(Nat), NEW n \in Nat, EndsWith(s, n), s # << >>
    PROVE  /\ Tail(s) \in Seq(Nat) /\ Len(Tail(s)) = Len(s) - 1
           /\ Head(s) \in Nat /\ Head(s) = n - Len(s) + 1
           /\ EndsWith(Tail(s), n)
           /\ ToSet(s) = ToSet(Tail(s)) \cup {Head(s)}
           /\ \A i \in ToSet(Tail(s)) : i > Head(s)
<1> DEFINE t == Tail(s)
<1>1. /\ t \in Seq(Nat) /\ Len(t) = Len(s) - 1
      /\ Len(s) \in Nat /\ Len(s) # 0
      /\ DOMAIN t = 1 .. Len(s) - 1 /\ DOMAIN s = 1 .. Len(s)
      /\ Head(s) = s[1] /\ s[1] \in Nat
      /\ \A k \in 1 .. Len(s) - 1 : t[k] = s[k + 1]
    OBVIOUS
<1> HIDE DEF t
<1>2. Len(s) <= n /\ \A k \in 1 .. Len(s) : s[k] = n - Len(s) + k
    BY <1>1 DEF EndsWith
<1>3. Head(s) = n - Len(s) + 1
    <2>1. 1 \in 1 .. Len(s)
        BY <1>1
    <2> QED BY <1>1, <1>2, <2>1
<1>4. \A k \in 1 .. Len(s) - 1 : t[k] = n - Len(t) + k /\ t[k] > Head(s)
    <2> SUFFICES ASSUME NEW k \in 1 .. Len(s) - 1
                 PROVE  t[k] = n - Len(t) + k /\ t[k] > Head(s)
        OBVIOUS
    <2>1. k + 1 \in 1 .. Len(s)
        BY <1>1
    <2>2. t[k] = n - Len(s) + (k + 1)
        BY <1>1, <1>2, <2>1
    <2> QED BY <1>1, <1>3, <2>2
<1>5. EndsWith(t, n)
    BY <1>1, <1>2, <1>4 DEF EndsWith
<1>6. ToSet(s) = ToSet(t) \cup {Head(s)}
    <2>1. ASSUME NEW k \in 1 .. Len(s), k # 1
          PROVE  k - 1 \in 1 .. Len(s) - 1 /\ t[k - 1] = s[k]
        <3>1. k - 1 \in 1 .. Len(s) - 1 /\ (k - 1) + 1 = k
            BY <1>1, <2>1
        <3> QED BY <1>1, <3>1
    <2>2. ASSUME NEW k \in 1 .. Len(s) - 1 PROVE k + 1 \in 1 .. Len(s) /\ t[k] = s[k + 1]
        BY <1>1
    <2>3. ASSUME NEW x \in ToSet(s) PROVE x \in ToSet(t) \cup {Head(s)}
        <3>1. PICK k \in DOMAIN s : x = s[k]
            BY Places
        <3>2. CASE k = 1
            BY <1>1, <3>1, <3>2
        <3>3. CASE k # 1
            <4>1. k - 1 \in DOMAIN t /\ t[k - 1] = x
                BY <1>1, <2>1, <3>1, <3>3
            <4> QED BY <4>1, Places
        <3> QED BY <3>2, <3>3
    <2>4. ASSUME NEW x \in ToSet(t) PROVE x \in ToSet(s)
        <3>1. PICK k \in DOMAIN t : x = t[k]
            BY Places
        <3>2. k + 1 \in DOMAIN s /\ s[k + 1] = x
            BY <1>1, <2>2, <3>1
        <3> QED BY <3>2, Places
    <2>5. Head(s) \in ToSet(s)
        <3>1. 1 \in DOMAIN s
            BY <1>1
        <3> QED BY <1>1, <3>1, Places
    <2> QED BY <2>3, <2>4, <2>5
<1>7. \A i \in ToSet(t) : i > Head(s)
    BY <1>1, <1>4, Places
<1> QED BY <1>1, <1>3, <1>5, <1>6, <1>7 DEF t

(***************************************************************************)
(* A channel that ends with n holds every id from its oldest one to n.     *)
(***************************************************************************)
LEMMA ChannelHolds ==
    ASSUME NEW s \in Seq(Nat), NEW n \in Nat, EndsWith(s, n),
           NEW i \in Nat, n - Len(s) < i, i <= n
    PROVE  i \in ToSet(s)
<1> DEFINE k == i - (n - Len(s))
<1>1. k \in 1 .. Len(s) /\ DOMAIN s = 1 .. Len(s)
    BY DEF EndsWith
<1>2. s[k] = i
    BY <1>1 DEF EndsWith
<1> QED BY <1>1, <1>2 DEF ToSet

(***************************************************************************)
(* A step that leaves a client's handler, cursor and account alone, and    *)
(* offers nothing to its subscription, keeps what is known of the client.  *)
(***************************************************************************)
LEMMA Kept ==
    ASSUME TypeOK, seq' \in Nat, tail' \in Nat, seq' >= seq, tail' >= tail,
           NEW c \in Clients, ClientOK(c),
           conn'[c] = conn[c], cursor'[c] = cursor[c], seen'[c] = seen[c],
           conn[c].pc # "away" => Offered(c)' = Offered(c)
    PROVE  ClientOK(c)'
<1> USE DEF TypeOK, Handlers, Accounts
<1>1. SeenOK(c)'
    BY DEF ClientOK, SeenOK
<1>2. Explained(c)' /\ ToldOnce(c)'
    BY DEF ClientOK, Explained, ToldOnce
<1>3. conn[c].pc # "away" => (ChannelEndsWithNewest(c)' <=> ChannelEndsWithNewest(c))
    BY DEF ChannelEndsWithNewest
<1>4. conn[c].pc # "away" => (SubscribedInTime(c)' <=> SubscribedInTime(c))
    BY DEF SubscribedInTime
<1>5. conn[c].pc = "serving" => ReplayMeetsLive(c)'
    <2> SUFFICES ASSUME conn[c].pc = "serving", ReplayMeetsLive(c)
                 PROVE  ReplayMeetsLive(c)'
        BY DEF ClientOK, HandlerOK
    <2> QED BY <1>4 DEF ReplayMeetsLive, InChannel
<1>6. HandlerOK(c)'
    BY <1>3, <1>4, <1>5 DEF ClientOK, HandlerOK, Away
<1> QED BY <1>1, <1>2, <1>6 DEF ClientOK

(***************************************************************************)
(* A handler whose channel is replaced is a handler.                       *)
(***************************************************************************)
LEMMA WithChannel ==
    ASSUME NEW r \in Handlers, NEW s \in Seq(Nat)
    PROVE  [r EXCEPT !.ch = s] \in Handlers
BY DEF Handlers

(* The record of a closed connection and the empty account have their types. *)
LEMMA AwayType == Away \in Handlers /\ Nothing \in Accounts
<1>1. << >> \in Seq(Nat) /\ 0 \in Nat /\ 1 \in Nat
    OBVIOUS
<1> QED BY <1>1 DEF Away, Nothing, Handlers, Accounts

(* The invariant holds initially. *)
THEOREM InitIInv == Init => IInv
<1> SUFFICES ASSUME Init PROVE IInv
    OBVIOUS
<1>1. TypeOK
    <2>1. conn \in [Clients -> Handlers] /\ seen \in [Clients -> Accounts]
        BY AwayType DEF Init
    <2>2. cursor \in [Clients -> Nat]
        BY DEF Init
    <2>3. /\ seq \in Nat /\ tail \in Nat /\ restarts \in Nat
          /\ tail >= 1 /\ (seq # 0 => tail <= seq) /\ (seq = 0 => tail = 1)
        BY DEF Init
    <2>4. /\ todo \in SUBSET Subscribed /\ todo = {} /\ full \in SUBSET todo
          /\ appended \in BOOLEAN /\ ~appended
        BY DEF Init
    <2> QED BY <2>1, <2>2, <2>3, <2>4 DEF TypeOK
<1>2. ASSUME NEW c \in Clients PROVE ClientOK(c)
    BY DEF Init, ClientOK, SeenOK, HandlerOK, Explained, ToldOnce, Away, Nothing
<1> QED BY <1>1, <1>2 DEF IInv

-----------------------------------------------------------------------------
(***************************************************************************)
(* The publisher.                                                          *)
(***************************************************************************)
(* A publication keeps it: nothing has been offered yet, and the ring only moves on. *)
LEMMA PublishKeeps == IInv /\ Publish => IInv'
<1> SUFFICES ASSUME IInv, Publish PROVE IInv'
    OBVIOUS
<1>1. TypeOK'
    BY RingAssumption DEF IInv, TypeOK, Publish, Subscribed
<1>2. ASSUME NEW c \in Clients PROVE ClientOK(c)'
    <2>1. Offered(c)' = Offered(c)
        BY DEF IInv, TypeOK, Publish, Offered
    <2> QED BY <2>1, Kept DEF IInv, TypeOK, Publish
<1> QED BY <1>1, <1>2 DEF IInv

(* Beginning the fan-out keeps it. *)
LEMMA FanOutKeeps == IInv /\ FanOut => IInv'
<1> SUFFICES ASSUME IInv, FanOut PROVE IInv'
    OBVIOUS
<1>1. TypeOK'
    BY DEF IInv, TypeOK, FanOut, Subscribed
<1>2. ASSUME NEW c \in Clients PROVE ClientOK(c)'
    <2>1. conn[c].pc # "away" => Offered(c)' = Offered(c)
        BY DEF IInv, TypeOK, Handlers, FanOut, Offered, Subscribed
    <2> QED BY <2>1, Kept DEF IInv, TypeOK, FanOut
<1> QED BY <1>1, <1>2 DEF IInv

(* Finding a channel full keeps it. *)
LEMMA FindFullKeeps == ASSUME NEW c \in Clients
                       PROVE  IInv /\ FindFull(c) => IInv'
<1> SUFFICES ASSUME IInv, FindFull(c) PROVE IInv'
    OBVIOUS
<1>1. TypeOK'
    BY DEF IInv, TypeOK, FindFull, Subscribed
<1>2. ASSUME NEW d \in Clients PROVE ClientOK(d)'
    <2>1. Offered(d)' = Offered(d)
        BY DEF FindFull, Offered
    <2> QED BY <2>1, Kept DEF IInv, TypeOK, FindFull
<1> QED BY <1>1, <1>2 DEF IInv

(***************************************************************************)
(* Sending the newest frame to a subscriber whose channel is s by now, the *)
(* ids no longer in s being recorded as dropped.                           *)
(***************************************************************************)
LEMMA SendKeeps ==
    ASSUME IInv, NEW c \in todo, NEW s \in Seq(Nat), EndsWith(s, seq - 1),
           Len(s) <= Len(conn[c].ch),
           NEW lost \in SUBSET Nat,
           InChannel(c) \subseteq ToSet(s) \cup lost,
           seen' = [seen EXCEPT ![c].dropped = @ \cup lost],
           conn' = [conn EXCEPT ![c].ch = Append(s, seq)],
           todo' = todo \ {c}, full' = {},
           UNCHANGED <<tail, seq, appended, cursor, restarts>>
    PROVE  IInv'
<1>0. /\ seq \in Nat /\ tail \in Nat /\ seq # 0 /\ ~appended
      /\ c \in Clients /\ conn[c].pc # "away"
      /\ TypeOK /\ ClientOK(c)
    BY DEF IInv, TypeOK, Subscribed
<1>1. \A d \in Clients \ {c} : conn'[d] = conn[d] /\ seen'[d] = seen[d]
    BY <1>0 DEF TypeOK
<1> DEFINE ch == Append(s, seq)
<1>2. /\ ch \in Seq(Nat) /\ Len(ch) = Len(s) + 1 /\ EndsWith(ch, seq)
      /\ ToSet(ch) = ToSet(s) \cup {seq}
    BY <1>0, AppendEnds
<1>3. /\ conn'[c] = [conn[c] EXCEPT !.ch = ch] /\ conn[c] \in Handlers
      /\ cursor[c] \in Nat /\ seen[c] \in Accounts
    BY <1>0 DEF TypeOK
<1>4. seen'[c] = [seen[c] EXCEPT !.dropped = @ \cup lost]
    BY <1>0 DEF TypeOK
<1> HIDE DEF ch
<1>5. TypeOK'
    <2>1. conn'[c] \in Handlers
        BY <1>2, <1>3, WithChannel
    <2>2. conn' \in [Clients -> Handlers]
        BY <1>0, <2>1 DEF TypeOK
    <2>3. seen'[c] \in Accounts
        BY <1>3, <1>4 DEF Accounts
    <2>4. seen' \in [Clients -> Accounts]
        BY <1>0, <2>3 DEF TypeOK
    <2>5. Subscribed' = Subscribed
        BY <1>0, <1>1, <1>3 DEF Subscribed, Handlers
    <2>6. todo' \in SUBSET Subscribed' /\ full' \in SUBSET todo'
        BY <1>0, <2>5 DEF TypeOK
    <2> QED BY <1>0, <2>2, <2>4, <2>6 DEF TypeOK
<1>6. Offered(c) = seq - 1 /\ Offered(c)' = seq
    BY <1>0 DEF Offered
<1>7. ASSUME NEW d \in Clients, d # c PROVE ClientOK(d)'
    <2>1. Offered(d)' = Offered(d)
        BY <1>7 DEF Offered
    <2>2. seq' \in Nat /\ tail' \in Nat /\ seq' >= seq /\ tail' >= tail
        BY <1>0
    <2> QED BY <1>0, <1>1, <1>7, <2>1, <2>2, Kept DEF IInv
<1>8. ClientOK(c)'
    <2>0. /\ seen'[c].first = seen[c].first /\ seen'[c].have = seen[c].have
          /\ seen'[c].told = seen[c].told
          /\ seen'[c].dropped = seen[c].dropped \cup lost
        BY <1>3, <1>4 DEF Accounts
    <2>1. SeenOK(c)' /\ ToldOnce(c)'
        BY <1>0, <2>0 DEF ClientOK, SeenOK, ToldOnce
    <2>2. Explained(c)'
        BY <1>0, <2>0 DEF ClientOK, Explained
    <2>3. /\ conn'[c].pc = conn[c].pc /\ conn'[c].gap = conn[c].gap
          /\ conn'[c].from = conn[c].from /\ conn'[c].to = conn[c].to
          /\ conn'[c].last = conn[c].last /\ conn'[c].ch = ch
        BY <1>3 DEF Handlers
    <2>4. ChannelEndsWithNewest(c)'
        BY <1>2, <1>6, <2>3 DEF ChannelEndsWithNewest
    <2>5. SubscribedInTime(c) => SubscribedInTime(c)'
        <3>1. Len(conn[c].ch) \in Nat /\ Len(s) \in Nat
            BY <1>3 DEF Handlers
        <3> QED BY <1>0, <1>2, <1>3, <1>6, <2>0, <2>3, <3>1 DEF SubscribedInTime
    <2>6. \A i : i \in InChannel(c) \/ i \in seen[c].dropped \/ i = seq =>
                   i \in InChannel(c)' \/ i \in seen'[c].dropped
        BY <1>2, <2>0, <2>3 DEF InChannel
    <2>7. ReplayMeetsLive(c) => ReplayMeetsLive(c)'
        <3> SUFFICES ASSUME ReplayMeetsLive(c) PROVE ReplayMeetsLive(c)'
            OBVIOUS
        <3> DEFINE r == conn[c]
        <3>1. r.gap \/ r.from <= r.to \/ seen[c].first # 0 =>
                \A i \in 1 .. Offered(c)' :
                  \/ i <= IF r.gap \/ r.from <= r.to THEN r.to ELSE cursor[c]
                  \/ i \in InChannel(c)' \/ i \in seen'[c].dropped
            <4>1. \A i \in 1 .. Offered(c)' : i \in 1 .. Offered(c) \/ i = seq
                BY <1>0, <1>6
            <4> QED BY <2>6, <4>1 DEF ReplayMeetsLive
        <3> QED BY <1>0, <2>0, <2>3, <2>5, <3>1 DEF ReplayMeetsLive
    <2>8. HandlerOK(c)'
        BY <1>0, <2>3, <2>4, <2>5, <2>7 DEF ClientOK, HandlerOK
    <2> QED BY <2>1, <2>2, <2>8 DEF ClientOK
<1> QED BY <1>5, <1>7, <1>8 DEF IInv

(***************************************************************************)
(* What is known of the channel of a subscriber that is to be served.      *)
(***************************************************************************)
LEMMA ChannelToServe ==
    ASSUME IInv, NEW c \in todo
    PROVE  /\ c \in Clients /\ seq \in Nat
           /\ conn[c].ch \in Seq(Nat) /\ EndsWith(conn[c].ch, seq - 1)
           /\ seen[c] \in Accounts
<1>1. /\ c \in Clients /\ conn[c].pc # "away" /\ ~appended
      /\ conn[c] \in Handlers /\ seen[c] \in Accounts /\ seq \in Nat
    BY DEF IInv, TypeOK, Subscribed
<1>2. conn[c].pc \in {"subscribed", "serving"}
    BY <1>1 DEF Handlers
<1>3. ChannelEndsWithNewest(c)
    BY <1>1, <1>2 DEF IInv, ClientOK, HandlerOK
<1> QED BY <1>1, <1>3 DEF ChannelEndsWithNewest, Offered, Handlers

(* Sending where there is room keeps it. *)
LEMMA OfferKeeps == ASSUME NEW c \in Clients PROVE IInv /\ Offer(c) => IInv'
<1> SUFFICES ASSUME IInv, Offer(c) PROVE IInv'
    OBVIOUS
<1> DEFINE s == conn[c].ch
<1>1. /\ c \in todo /\ full' = {} /\ todo' = todo \ {c}
      /\ conn' = [conn EXCEPT ![c].ch = Append(s, seq)]
      /\ UNCHANGED <<tail, seq, appended, cursor, restarts>>
    BY DEF Offer
<1>2. s \in Seq(Nat) /\ EndsWith(s, seq - 1) /\ seen[c] \in Accounts
    BY <1>1, ChannelToServe
<1>3. seen' = [seen EXCEPT ![c].dropped = @ \cup {}]
    <2>1. seen[c] = [seen[c] EXCEPT !.dropped = @ \cup {}]
        BY <1>2 DEF Accounts
    <2> QED BY <2>1 DEF IInv, TypeOK, Offer
<1>4. InChannel(c) \subseteq ToSet(s) \cup {} /\ Len(s) <= Len(conn[c].ch)
    BY <1>2 DEF InChannel
<1>5. {} \in SUBSET Nat
    OBVIOUS
<1> HIDE DEF s
<1> QED BY <1>1, <1>2, <1>3, <1>4, <1>5, SendKeeps

(* Dropping the oldest frame for the newest keeps it. *)
LEMMA ReplaceKeeps == ASSUME NEW c \in Clients PROVE IInv /\ Replace(c) => IInv'
<1> SUFFICES ASSUME IInv, Replace(c) PROVE IInv'
    OBVIOUS
<1> DEFINE ch == conn[c].ch
<1>1. /\ c \in todo /\ full' = {} /\ todo' = todo \ {c}
      /\ UNCHANGED <<tail, seq, appended, cursor, restarts>>
    BY DEF IInv, TypeOK, Replace
<1>2. /\ ch \in Seq(Nat) /\ EndsWith(ch, seq - 1) /\ seen[c] \in Accounts
      /\ seq \in Nat
    BY <1>1, ChannelToServe
<1>3. CASE ch = << >>
    <2>1. /\ conn' = [conn EXCEPT ![c].ch = Append(ch, seq)]
          /\ UNCHANGED seen
        BY <1>3 DEF Replace
    <2>2. seen' = [seen EXCEPT ![c].dropped = @ \cup {}]
        <3>1. seen[c] = [seen[c] EXCEPT !.dropped = @ \cup {}]
            BY <1>2 DEF Accounts
        <3> QED BY <2>1, <3>1 DEF IInv, TypeOK
    <2>3. InChannel(c) \subseteq ToSet(ch) \cup {} /\ Len(ch) <= Len(conn[c].ch)
        BY <1>2 DEF InChannel
    <2>4. {} \in SUBSET Nat
        OBVIOUS
    <2> HIDE DEF ch
    <2> QED BY <1>1, <1>2, <2>1, <2>2, <2>3, <2>4, SendKeeps
<1>4. CASE ch # << >>
    <2> DEFINE t == Tail(ch)
               i == Head(ch)
    <2>0. seq - 1 \in Nat
        BY <1>2, <1>4 DEF EndsWith
    <2>1. /\ t \in Seq(Nat) /\ Len(t) = Len(ch) - 1 /\ i \in Nat
          /\ EndsWith(t, seq - 1) /\ ToSet(ch) = ToSet(t) \cup {i}
        BY <1>2, <1>4, <2>0, TailEnds
    <2>2. /\ conn' = [conn EXCEPT ![c].ch = Append(t, seq)]
          /\ seen' = [seen EXCEPT ![c].dropped = @ \cup {i}]
        BY <1>4 DEF Replace
    <2>3. InChannel(c) \subseteq ToSet(t) \cup {i} /\ Len(t) <= Len(conn[c].ch)
        BY <1>2, <2>1 DEF InChannel
    <2> HIDE DEF t, i
    <2> QED BY <1>1, <2>1, <2>2, <2>3, SendKeeps
<1> QED BY <1>3, <1>4

-----------------------------------------------------------------------------
(***************************************************************************)
(* The handler.  A step of the handler of c leaves everyone else alone.    *)
(***************************************************************************)
LEMMA HandlerStep ==
    ASSUME IInv, NEW c \in Clients, UNCHANGED <<publisher, restarts>>,
           NEW h \in Handlers, h.pc # "away", conn' = [conn EXCEPT ![c] = h],
           NEW a \in Accounts, seen' = [seen EXCEPT ![c] = a],
           NEW i \in Nat, cursor' = [cursor EXCEPT ![c] = i],
           (conn'[c] = h /\ seen'[c] = a /\ cursor'[c] = i
              /\ Offered(c)' = Offered(c)) => ClientOK(c)'
    PROVE  IInv'
<1>1. TypeOK /\ UNCHANGED <<tail, seq, appended, todo, full, restarts>>
    BY DEF IInv, publisher
<1>2. conn'[c] = h /\ seen'[c] = a /\ cursor'[c] = i
    BY <1>1 DEF TypeOK
<1>3. \A d \in Clients \ {c} : conn'[d] = conn[d] /\ seen'[d] = seen[d] /\ cursor'[d] = cursor[d]
    BY <1>1 DEF TypeOK
<1>4. conn' \in [Clients -> Handlers] /\ seen' \in [Clients -> Accounts]
          /\ cursor' \in [Clients -> Nat]
    BY <1>1 DEF TypeOK
<1>5. TypeOK'
    <2>1. todo \subseteq Subscribed'
        <3>1. h.pc \in {"subscribed", "serving"}
            BY DEF Handlers
        <3> QED BY <1>1, <1>2, <1>3, <3>1 DEF TypeOK, Subscribed
    <2> QED BY <1>1, <1>4, <2>1 DEF TypeOK
<1>6. ASSUME NEW d \in Clients, d # c PROVE ClientOK(d)'
    <2>1. Offered(d)' = Offered(d)
        BY <1>1 DEF Offered
    <2>2. seq' \in Nat /\ tail' \in Nat /\ seq' >= seq /\ tail' >= tail
        BY <1>1 DEF TypeOK
    <2> QED BY <1>1, <1>3, <1>6, <2>1, <2>2, Kept DEF IInv
<1>7. ClientOK(c)'
    BY <1>1, <1>2 DEF Offered
<1> QED BY <1>5, <1>6, <1>7 DEF IInv

(* A new subscription begins after the client's last id. *)
LEMMA SubscribeKeeps == ASSUME NEW c \in Clients PROVE IInv /\ Subscribe(c) => IInv'
<1> SUFFICES ASSUME IInv, Subscribe(c) PROVE IInv'
    OBVIOUS
<1> DEFINE h == [Away EXCEPT !.pc = "subscribed"]
<1>1. /\ conn[c] = Away /\ seq \in Nat /\ todo = {} /\ cursor[c] \in Nat
      /\ seen[c] \in Accounts /\ SeenOK(c) /\ Explained(c) /\ ToldOnce(c)
      /\ TypeOK
    BY DEF IInv, TypeOK, ClientOK, HandlerOK, Subscribe
<1>2. h \in Handlers /\ h.pc = "subscribed" /\ h.last = 0 /\ h.ch = << >>
    BY AwayType DEF Away, Handlers
<1>3. conn' = [conn EXCEPT ![c] = h]
    BY <1>1 DEF Subscribe
<1>4. seen' = [seen EXCEPT ![c] = seen[c]] /\ cursor' = [cursor EXCEPT ![c] = cursor[c]]
    BY <1>1 DEF Subscribe, TypeOK
<1>5. UNCHANGED <<publisher, restarts>>
    BY DEF Subscribe
<1> HIDE DEF h
<1>6. (conn'[c] = h /\ seen'[c] = seen[c] /\ cursor'[c] = cursor[c]
         /\ Offered(c)' = Offered(c)) => ClientOK(c)'
    <2>0. SUFFICES ASSUME conn'[c] = h, seen'[c] = seen[c], cursor'[c] = cursor[c],
                          Offered(c)' = Offered(c)
                   PROVE  ClientOK(c)'
        OBVIOUS
    <2>1. UNCHANGED <<tail, seq, appended, todo, full>>
        BY <1>5 DEF publisher
    <2>2. SeenOK(c)' /\ Explained(c)' /\ ToldOnce(c)'
        BY <1>1, <2>0, <2>1 DEF SeenOK, Explained, ToldOnce
    <2>3. Offered(c) \in Nat /\ seq <= Offered(c) + 1
        BY <1>1 DEF Offered, TypeOK
    <2>4. ChannelEndsWithNewest(c)'
        BY <1>2, <2>0, <2>3 DEF ChannelEndsWithNewest, EndsWith
    <2>5. SubscribedInTime(c)'
        BY <1>1, <1>2, <2>0, <2>3 DEF SubscribedInTime, SeenOK
    <2> QED BY <1>2, <2>0, <2>2, <2>4, <2>5 DEF ClientOK, HandlerOK
<1>7. h.pc # "away"
    BY <1>2
<1> QED BY <1>1, <1>2, <1>3, <1>4, <1>5, <1>6, <1>7, HandlerStep

(* The copy of the ring reaches up to what the channel has or will have. *)
LEMMA SinceKeeps == ASSUME NEW c \in Clients PROVE IInv /\ Since(c) => IInv'
<1> SUFFICES ASSUME IInv, Since(c) PROVE IInv'
    OBVIOUS
<1> DEFINE r == conn[c]
           h == [r EXCEPT !.pc = "serving", !.gap = Missed(c),
                   !.from = IF Missed(c) THEN tail ELSE cursor[c] + 1,
                   !.to = IF Resumes(c) THEN seq ELSE 0]
<1>1. /\ r \in Handlers /\ r.pc = "subscribed" /\ r.last = 0
      /\ ChannelEndsWithNewest(c) /\ SubscribedInTime(c)
      /\ cursor[c] \in Nat /\ seen[c] \in Accounts /\ seq \in Nat /\ tail \in Nat
      /\ SeenOK(c) /\ Explained(c) /\ ToldOnce(c) /\ TypeOK
    BY DEF IInv, TypeOK, ClientOK, HandlerOK, Since
<1>2. /\ h \in Handlers /\ h.pc = "serving" /\ h.last = 0 /\ h.ch = r.ch
      /\ h.gap = Missed(c)
      /\ h.from = (IF Missed(c) THEN tail ELSE cursor[c] + 1)
      /\ h.to = (IF Resumes(c) THEN seq ELSE 0)
    <2>1. Missed(c) \in BOOLEAN
        BY DEF Missed, Resumes
    <2>2. (IF Missed(c) THEN tail ELSE cursor[c] + 1) \in Nat
        BY <1>1
    <2>3. (IF Resumes(c) THEN seq ELSE 0) \in Nat
        BY <1>1
    <2> QED BY <1>1, <2>1, <2>2, <2>3 DEF Handlers
<1>3. conn' = [conn EXCEPT ![c] = h]
    BY DEF Since
<1>4. seen' = [seen EXCEPT ![c] = seen[c]] /\ cursor' = [cursor EXCEPT ![c] = cursor[c]]
    BY <1>1 DEF Since, TypeOK
<1>5. UNCHANGED <<publisher, restarts>>
    BY DEF Since
<1> HIDE DEF h
<1>6. (conn'[c] = h /\ seen'[c] = seen[c] /\ cursor'[c] = cursor[c]
         /\ Offered(c)' = Offered(c)) => ClientOK(c)'
    <2>0. SUFFICES ASSUME conn'[c] = h, seen'[c] = seen[c], cursor'[c] = cursor[c],
                          Offered(c)' = Offered(c)
                   PROVE  ClientOK(c)'
        OBVIOUS
    <2>1. UNCHANGED <<tail, seq, appended, todo, full>>
        BY <1>5 DEF publisher
    <2>2. SeenOK(c)' /\ Explained(c)' /\ ToldOnce(c)'
        BY <1>1, <2>0, <2>1 DEF SeenOK, Explained, ToldOnce
    <2>3. Offered(c) <= seq /\ Offered(c) \in Int
        BY <1>1 DEF Offered
    <2>4. ChannelEndsWithNewest(c)' /\ SubscribedInTime(c)'
        BY <1>1, <1>2, <2>0 DEF ChannelEndsWithNewest, SubscribedInTime
    <2>5. /\ h.from >= 1 /\ h.to <= seq
          /\ h.gap => cursor[c] < h.from - 1 /\ h.from <= h.to /\ h.from <= tail
          /\ ~h.gap => cursor[c] = h.from - 1
        <3>1. tail >= 1 /\ (seq # 0 => tail <= seq)
            BY <1>1 DEF TypeOK
        <3>2. CASE Missed(c)
            <4>1. Resumes(c) /\ seq # 0 /\ cursor[c] < tail - 1
                BY <3>2 DEF Missed, Resumes
            <4>2. h.from = tail
                BY <1>2, <3>2
            <4>3. h.to = seq
                BY <1>2, <4>1
            <4>4. h.gap
                BY <1>2, <3>2
            <4> QED BY <1>1, <3>1, <4>1, <4>2, <4>3, <4>4
        <3>3. CASE ~Missed(c)
            BY <1>1, <1>2, <3>3
        <3> QED BY <3>2, <3>3
    <2>6. h.from > h.to => cursor[c] \notin seen[c].told
        <3> SUFFICES ASSUME h.from > h.to, cursor[c] \in seen[c].told
                     PROVE  FALSE
            OBVIOUS
        <3>1. seen[c].first # 0 /\ cursor[c] < tail /\ seq # 0 /\ cursor[c] # 0
            BY <1>1 DEF SeenOK, Accounts
        <3> QED BY <1>1, <1>2, <3>1 DEF Missed, Resumes, TypeOK
    <2>7. h.gap \/ h.from <= h.to \/ seen[c].first # 0 =>
            \A i \in 1 .. Offered(c) :
              i <= IF h.gap \/ h.from <= h.to THEN h.to ELSE cursor[c]
        <3>1. h.gap \/ h.from <= h.to => h.to = seq
            BY <1>1, <1>2, <2>5 DEF Missed
        <3>2. seen[c].first # 0 /\ h.from > h.to => cursor[c] >= seq
            <4> SUFFICES ASSUME seen[c].first # 0, h.from > h.to PROVE cursor[c] >= seq
                OBVIOUS
            <4>1. cursor[c] # 0 /\ seq # 0
                BY <1>1 DEF SeenOK, Accounts
            <4> QED BY <1>1, <1>2, <2>5, <4>1 DEF Resumes, Missed
        <3> QED BY <1>1, <1>2, <2>3, <2>5, <3>1, <3>2
    <2>8. ReplayMeetsLive(c)'
        BY <1>2, <2>0, <2>1, <2>4, <2>5, <2>6, <2>7 DEF ReplayMeetsLive
    <2> QED BY <1>2, <2>0, <2>2, <2>4, <2>8 DEF ClientOK, HandlerOK
<1>7. h.pc # "away"
    BY <1>2
<1> QED BY <1>1, <1>2, <1>3, <1>4, <1>5, <1>6, <1>7, HandlerStep

(***************************************************************************)
(* What is known of a client that is being served.                         *)
(***************************************************************************)
LEMMA Served ==
    ASSUME IInv, NEW c \in Clients, conn[c].pc = "serving"
    PROVE  /\ TypeOK /\ conn[c] \in Handlers /\ seen[c] \in Accounts
           /\ cursor[c] \in Nat /\ seq \in Nat /\ tail \in Nat
           /\ Offered(c) \in Int /\ Offered(c) <= seq
           /\ ChannelEndsWithNewest(c) /\ ReplayMeetsLive(c)
           /\ SeenOK(c) /\ Explained(c) /\ ToldOnce(c)
BY DEF IInv, TypeOK, ClientOK, HandlerOK, Offered

(* The gap frame accounts for what the ring has lost. *)
LEMMA WriteGapKeeps == ASSUME NEW c \in Clients PROVE IInv /\ WriteGap(c) => IInv'
<1> SUFFICES ASSUME IInv, WriteGap(c) PROVE IInv'
    OBVIOUS
<1> DEFINE r == conn[c]
           n == r.from - 1
           h == [r EXCEPT !.gap = FALSE, !.last = n]
           a == [seen[c] EXCEPT !.told = @ \cup (cursor[c] + 1 .. n),
                                !.first = IF @ = 0 THEN n ELSE @]
<1>1. /\ r \in Handlers /\ r.pc = "serving" /\ r.gap
      /\ seen[c] \in Accounts /\ cursor[c] \in Nat
      /\ seq \in Nat /\ tail \in Nat /\ tail >= 1 /\ (seq # 0 => tail <= seq)
      /\ Offered(c) \in Int /\ Offered(c) <= seq
      /\ ChannelEndsWithNewest(c) /\ ReplayMeetsLive(c)
      /\ SeenOK(c) /\ Explained(c) /\ ToldOnce(c)
    BY Served DEF WriteGap, TypeOK
<1>2. /\ n \in Nat /\ cursor[c] < n /\ r.from <= r.to /\ r.from <= tail
      /\ r.to <= seq /\ r.from >= 1 /\ r.from \in Nat /\ r.to \in Nat
    BY <1>1 DEF ReplayMeetsLive, Handlers
<1>3. /\ h \in Handlers /\ h.pc = "serving" /\ h.gap = FALSE /\ h.from = r.from
      /\ h.to = r.to /\ h.last = n /\ h.ch = r.ch
    BY <1>1, <1>2 DEF Handlers
<1>4. /\ a \in Accounts /\ a.have = seen[c].have /\ a.dropped = seen[c].dropped
      /\ a.told = seen[c].told \cup (cursor[c] + 1 .. n)
      /\ a.first = IF seen[c].first = 0 THEN n ELSE seen[c].first
    <2>1. cursor[c] + 1 .. n \subseteq Nat /\ n \in Nat
        BY <1>1, <1>2
    <2> HIDE DEF n
    <2> QED BY <1>1, <2>1 DEF Accounts
<1>5. conn' = [conn EXCEPT ![c] = h] /\ cursor' = [cursor EXCEPT ![c] = n]
    BY DEF WriteGap
<1>6. seen' = [seen EXCEPT ![c] = a]
    BY DEF WriteGap
<1>7. UNCHANGED <<publisher, restarts>>
    BY DEF WriteGap
<1> HIDE DEF h, a, n
<1>8. (conn'[c] = h /\ seen'[c] = a /\ cursor'[c] = n
         /\ Offered(c)' = Offered(c)) => ClientOK(c)'
    <2>0. SUFFICES ASSUME conn'[c] = h, seen'[c] = a, cursor'[c] = n,
                          Offered(c)' = Offered(c)
                   PROVE  ClientOK(c)'
        OBVIOUS
    <2>1. UNCHANGED <<tail, seq, appended, todo, full>>
        BY <1>7 DEF publisher
    <2>2. n = r.from - 1
        BY DEF n
    <2>3. SeenOK(c)'
        <3>1. \A i \in seen[c].have \cup seen[c].told : i <= n
            BY <1>1, <1>2 DEF SeenOK, Accounts
        <3>2. \A i \in a.have \cup a.told : i <= n
            BY <1>2, <1>4, <3>1
        <3>3. \A i \in a.told : i < tail
            BY <1>1, <1>2, <1>4, <2>2 DEF SeenOK
        <3>4. a.first # 0 /\ a.first <= n /\ n <= seq
            BY <1>1, <1>2, <1>4, <2>2 DEF SeenOK, Accounts
        <3> QED BY <2>0, <2>1, <3>2, <3>3, <3>4 DEF SeenOK
    <2>4. Explained(c)'
        <3>1. \A i \in a.first .. n : i \in a.have \cup a.told \cup a.dropped
            BY <1>1, <1>2, <1>4 DEF Explained, Accounts
        <3> QED BY <2>0, <3>1 DEF Explained
    <2>5. ToldOnce(c)'
        <3>1. \A i \in seen[c].have : i \in Nat /\ i <= cursor[c]
            BY <1>1 DEF SeenOK, Accounts
        <3> QED BY <1>1, <1>2, <1>4, <2>0, <3>1 DEF ToldOnce
    <2>6. ChannelEndsWithNewest(c)'
        BY <1>1, <1>3, <2>0 DEF ChannelEndsWithNewest
    <2>7. \A i \in 1 .. Offered(c) : i <= r.to \/ i \in InChannel(c) \/ i \in a.dropped
        BY <1>1, <1>4 DEF ReplayMeetsLive
    <2>8. InChannel(c)' = InChannel(c)
        BY <1>3, <2>0 DEF InChannel
    <2>9. ReplayMeetsLive(c)'
        BY <1>2, <1>3, <2>0, <2>1, <2>2, <2>7, <2>8 DEF ReplayMeetsLive
    <2> QED BY <1>3, <2>0, <2>3, <2>4, <2>5, <2>6, <2>9 DEF ClientOK, HandlerOK
<1>9. h.pc # "away"
    BY <1>3
<1> QED BY <1>2, <1>3, <1>4, <1>5, <1>6, <1>7, <1>8, <1>9, HandlerStep

(* A frame of the replay follows the cursor. *)
LEMMA WriteReplayKeeps == ASSUME NEW c \in Clients PROVE IInv /\ WriteReplay(c) => IInv'
<1> SUFFICES ASSUME IInv, WriteReplay(c) PROVE IInv'
    OBVIOUS
<1> DEFINE r == conn[c]
           n == r.from
           h == [r EXCEPT !.from = n + 1, !.last = n]
           a == [seen[c] EXCEPT !.have = @ \cup {n},
                                !.first = IF @ = 0 THEN n ELSE @]
<1>1. /\ r \in Handlers /\ r.pc = "serving" /\ ~r.gap /\ r.from <= r.to
      /\ seen[c] \in Accounts /\ cursor[c] \in Nat
      /\ seq \in Nat /\ tail \in Nat
      /\ Offered(c) \in Int /\ Offered(c) <= seq
      /\ ChannelEndsWithNewest(c) /\ ReplayMeetsLive(c)
      /\ SeenOK(c) /\ Explained(c) /\ ToldOnce(c)
    BY Served DEF WriteReplay
<1>2. /\ n \in Nat /\ cursor[c] = n - 1 /\ n >= 1 /\ n <= r.to
      /\ r.to <= seq /\ r.to \in Nat
    BY <1>1 DEF ReplayMeetsLive, Handlers
<1>3. /\ h \in Handlers /\ h.pc = "serving" /\ ~h.gap /\ h.from = n + 1
      /\ h.to = r.to /\ h.last = n /\ h.ch = r.ch
    <2>1. n \in Nat /\ n + 1 \in Nat
        BY <1>2
    <2> HIDE DEF n
    <2>2. r \in Handlers /\ r.pc = "serving" /\ ~r.gap
        BY <1>1
    <2> QED BY <2>1, <2>2 DEF Handlers
<1>4. /\ a \in Accounts /\ a.told = seen[c].told /\ a.dropped = seen[c].dropped
      /\ a.have = seen[c].have \cup {n}
      /\ a.first = IF seen[c].first = 0 THEN n ELSE seen[c].first
    BY <1>1, <1>2 DEF Accounts
<1>5. conn' = [conn EXCEPT ![c] = h] /\ cursor' = [cursor EXCEPT ![c] = n]
    BY DEF WriteReplay, Receives
<1>6. seen' = [seen EXCEPT ![c] = a]
    BY DEF WriteReplay, Receives
<1>7. UNCHANGED <<publisher, restarts>>
    BY DEF WriteReplay
<1> HIDE DEF h, a, n
<1>8. (conn'[c] = h /\ seen'[c] = a /\ cursor'[c] = n
         /\ Offered(c)' = Offered(c)) => ClientOK(c)'
    <2>0. SUFFICES ASSUME conn'[c] = h, seen'[c] = a, cursor'[c] = n,
                          Offered(c)' = Offered(c)
                   PROVE  ClientOK(c)'
        OBVIOUS
    <2>1. UNCHANGED <<tail, seq, appended, todo, full>>
        BY <1>7 DEF publisher
    <2>2. \A i \in seen[c].have \cup seen[c].told : i \in Nat /\ i <= cursor[c]
        BY <1>1 DEF SeenOK, Accounts
    <2>3. SeenOK(c)'
        <3>1. \A i \in a.have \cup a.told : i <= n
            BY <1>2, <1>4, <2>2
        <3>2. \A i \in a.told : i < tail
            BY <1>1, <1>4 DEF SeenOK
        <3>3. a.first # 0 /\ a.first <= n /\ n <= seq
            BY <1>1, <1>2, <1>4 DEF SeenOK, Accounts
        <3> QED BY <2>0, <2>1, <3>1, <3>2, <3>3 DEF SeenOK
    <2>4. Explained(c)'
        <3>1. \A i \in a.first .. n : i \in a.have \cup a.told \cup a.dropped
            BY <1>1, <1>2, <1>4 DEF Explained, Accounts
        <3> QED BY <2>0, <3>1 DEF Explained
    <2>5. ToldOnce(c)'
        BY <1>1, <1>2, <1>4, <2>0, <2>2 DEF ToldOnce
    <2>6. ChannelEndsWithNewest(c)'
        BY <1>1, <1>3, <2>0 DEF ChannelEndsWithNewest
    <2>7. \A i \in 1 .. Offered(c) : i <= r.to \/ i \in InChannel(c) \/ i \in a.dropped
        BY <1>1, <1>4 DEF ReplayMeetsLive
    <2>8. InChannel(c)' = InChannel(c)
        BY <1>3, <2>0 DEF InChannel
    <2>9. ReplayMeetsLive(c)'
        <3>1. a.first # 0 /\ n # 0
            BY <1>2, <1>4
        <3>2. n + 1 > r.to => n = r.to
            BY <1>2
        <3> QED BY <1>2, <1>3, <2>0, <2>1, <2>7, <2>8, <3>1, <3>2 DEF ReplayMeetsLive
    <2> QED BY <1>3, <2>0, <2>3, <2>4, <2>5, <2>6, <2>9 DEF ClientOK, HandlerOK
<1>9. h.pc # "away"
    BY <1>3
<1> QED BY <1>2, <1>3, <1>4, <1>5, <1>6, <1>7, <1>8, <1>9, HandlerStep

(***************************************************************************)
(* What is known when the live channel is read: head is its oldest id.     *)
(***************************************************************************)
LEMMA AtHead ==
    ASSUME IInv, NEW c \in Clients, Live(c)
    PROVE  LET s == conn[c].ch
               n == Offered(c)
           IN  /\ s \in Seq(Nat) /\ n \in Nat /\ n <= seq
               /\ Tail(s) \in Seq(Nat) /\ EndsWith(Tail(s), n)
               /\ Head(s) \in Nat /\ Head(s) >= 1 /\ Head(s) <= n
               /\ Head(s) = n - Len(s) + 1 /\ Head(s) = n - Len(Tail(s))
               /\ InChannel(c) = ToSet(Tail(s)) \cup {Head(s)}
               /\ \A i \in ToSet(Tail(s)) : i > Head(s)
<1> DEFINE s == conn[c].ch
           n == Offered(c)
<1>1. /\ s \in Seq(Nat) /\ s # << >> /\ EndsWith(s, n)
      /\ n \in Int /\ n <= seq
    BY Served DEF Live, Handlers, ChannelEndsWithNewest
<1>2. Len(s) \in Nat /\ Len(s) # 0 /\ Len(s) <= n
    BY <1>1 DEF EndsWith
<1> HIDE DEF s, n
<1>3. n \in Nat
    BY <1>1, <1>2
<1>4. /\ Tail(s) \in Seq(Nat) /\ Len(Tail(s)) = Len(s) - 1
      /\ Head(s) \in Nat /\ Head(s) = n - Len(s) + 1
      /\ EndsWith(Tail(s), n)
      /\ ToSet(s) = ToSet(Tail(s)) \cup {Head(s)}
      /\ \A i \in ToSet(Tail(s)) : i > Head(s)
    BY <1>1, <1>3, TailEnds
<1>5. /\ Head(s) >= 1 /\ Head(s) <= n /\ Head(s) = n - Len(Tail(s))
    BY <1>2, <1>3, <1>4
<1>6. InChannel(c) = ToSet(s)
    BY DEF InChannel, s
<1> QED BY <1>1, <1>3, <1>4, <1>5, <1>6 DEF s, n

(* A live frame newer than the last one delivered follows the cursor, but for what the channel lost. *)
LEMMA WriteLiveKeeps == ASSUME NEW c \in Clients PROVE IInv /\ WriteLive(c) => IInv'
<1> SUFFICES ASSUME IInv, WriteLive(c) PROVE IInv'
    OBVIOUS
<1> DEFINE r == conn[c]
           n == Head(r.ch)
           t == Tail(r.ch)
           h == [r EXCEPT !.ch = t, !.last = n]
           a == [seen[c] EXCEPT !.have = @ \cup {n},
                                !.first = IF @ = 0 THEN n ELSE @]
<1>1. /\ r \in Handlers /\ r.pc = "serving" /\ ~r.gap /\ r.from > r.to
      /\ n > r.last /\ r.last \in Nat /\ r.from \in Nat /\ r.to \in Nat
      /\ seen[c] \in Accounts /\ cursor[c] \in Nat
      /\ seq \in Nat /\ tail \in Nat
      /\ ReplayMeetsLive(c)
      /\ SeenOK(c) /\ Explained(c) /\ ToldOnce(c)
    BY Served DEF WriteLive, Live, Handlers
<1>2. /\ Offered(c) \in Nat /\ Offered(c) <= seq
      /\ t \in Seq(Nat) /\ EndsWith(t, Offered(c))
      /\ n \in Nat /\ n >= 1 /\ n <= Offered(c)
      /\ n = Offered(c) - Len(r.ch) + 1 /\ n = Offered(c) - Len(t)
      /\ InChannel(c) = ToSet(t) \cup {n}
      /\ \A i \in ToSet(t) : i > n
    BY AtHead DEF WriteLive
<1>3. /\ h \in Handlers /\ h.pc = "serving" /\ ~h.gap /\ h.from = r.from
      /\ h.to = r.to /\ h.last = n /\ h.ch = t
    <2> HIDE DEF n, t
    <2> QED BY <1>1, <1>2 DEF Handlers
<1>4. /\ a \in Accounts /\ a.told = seen[c].told /\ a.dropped = seen[c].dropped
      /\ a.have = seen[c].have \cup {n}
      /\ a.first = IF seen[c].first = 0 THEN n ELSE seen[c].first
    <2> HIDE DEF n
    <2> QED BY <1>1, <1>2 DEF Accounts
<1>5. conn' = [conn EXCEPT ![c] = h] /\ cursor' = [cursor EXCEPT ![c] = n]
    BY DEF WriteLive, Receives
<1>6. seen' = [seen EXCEPT ![c] = a]
    BY DEF WriteLive, Receives
<1>7. UNCHANGED <<publisher, restarts>>
    BY DEF WriteLive
<1> HIDE DEF h, a, n, t
<1>8. (conn'[c] = h /\ seen'[c] = a /\ cursor'[c] = n
         /\ Offered(c)' = Offered(c)) => ClientOK(c)'
    <2>0. SUFFICES ASSUME conn'[c] = h, seen'[c] = a, cursor'[c] = n,
                          Offered(c)' = Offered(c)
                   PROVE  ClientOK(c)'
        OBVIOUS
    <2>1. UNCHANGED <<tail, seq, appended, todo, full>>
        BY <1>7 DEF publisher
    <2>2. seen[c].first # 0 =>
            /\ cursor[c] <= n
            /\ \A i \in seen[c].have \cup seen[c].told : i \in Nat /\ i <= cursor[c]
        BY <1>1, <1>2 DEF ReplayMeetsLive, SubscribedInTime, SeenOK, Accounts
    <2>3. n \notin seen[c].told
        <3>1. CASE r.last # 0
            <4>1. seen[c].first # 0 /\ cursor[c] < n
                BY <1>1, <3>1 DEF ReplayMeetsLive
            <4> QED BY <1>1, <1>2, <2>2, <4>1
        <3>2. CASE r.last = 0
            <4>1. cursor[c] \notin seen[c].told
                BY <1>1, <3>2 DEF ReplayMeetsLive
            <4>2. seen[c].first = 0 => seen[c].told = {}
                BY <1>1 DEF SeenOK
            <4> QED BY <1>1, <1>2, <2>2, <4>1, <4>2
        <3> QED BY <3>1, <3>2
    <2>4. SeenOK(c)'
        <3>1. \A i \in a.have \cup a.told : i <= n
            BY <1>1, <1>2, <1>4, <2>2 DEF SeenOK
        <3>2. \A i \in a.told : i < tail
            BY <1>1, <1>4 DEF SeenOK
        <3>3. a.first # 0 /\ a.first <= n /\ n <= seq
            <4>1. seen[c].first # 0 => seen[c].first <= n
                BY <1>1, <1>2, <2>2 DEF SeenOK, Accounts
            <4> QED BY <1>1, <1>2, <1>4, <4>1
        <3> QED BY <2>0, <2>1, <3>1, <3>2, <3>3 DEF SeenOK
    <2>5. ToldOnce(c)'
        BY <1>1, <1>4, <2>0, <2>3 DEF ToldOnce
    <2>6. Explained(c)'
        <3> SUFFICES ASSUME NEW i \in a.first .. n
                     PROVE  i \in a.have \cup a.told \cup a.dropped
            BY <2>0 DEF Explained
        <3>1. CASE i = n
            BY <1>4, <3>1
        <3>2. CASE i # n /\ seen[c].first # 0
            <4>1. a.first = seen[c].first /\ a.first \in Nat /\ a.first # 0
                BY <1>4, <3>2 DEF Accounts
            <4>2. i \in Nat /\ i >= 1 /\ i < n /\ i >= seen[c].first
                BY <1>2, <3>2, <4>1
            <4>3. CASE i <= cursor[c]
                BY <1>1, <1>4, <3>2, <4>1, <4>2, <4>3 DEF Explained
            <4>4. CASE i > cursor[c]
                <5>1. i \notin ToSet(t)
                    BY <1>2, <4>2
                <5>2. i \in 1 .. Offered(c)
                    BY <1>2, <4>2
                <5>3. i \in InChannel(c) \/ i \in seen[c].dropped
                    BY <1>1, <3>2, <4>2, <4>4, <5>2 DEF ReplayMeetsLive
                <5> QED BY <1>2, <1>4, <4>2, <5>1, <5>3
            <4> QED BY <1>1, <4>2, <4>3, <4>4
        <3>3. CASE i # n /\ seen[c].first = 0
            BY <1>2, <1>4, <3>3
        <3> QED BY <3>1, <3>2, <3>3
    <2>7. ChannelEndsWithNewest(c)'
        BY <1>2, <1>3, <2>0 DEF ChannelEndsWithNewest
    <2>8. \A i \in 1 .. Offered(c) : i <= n \/ i \in InChannel(c)'
        <3> SUFFICES ASSUME NEW i \in 1 .. Offered(c), i > n PROVE i \in InChannel(c)'
            BY <1>2
        <3>1. i \in Nat /\ Offered(c) - Len(t) < i /\ i <= Offered(c)
            BY <1>2
        <3>2. i \in ToSet(t)
            BY <1>2, <3>1, ChannelHolds
        <3> QED BY <1>3, <2>0, <3>2 DEF InChannel
    <2>9. ReplayMeetsLive(c)'
        <3>1. a.first # 0 /\ n # 0
            BY <1>2, <1>4
        <3>2. r.from >= 1 /\ r.to <= seq
            BY <1>1 DEF ReplayMeetsLive
        <3> QED BY <1>1, <1>3, <2>0, <2>1, <2>8, <3>1, <3>2 DEF ReplayMeetsLive
    <2> QED BY <1>3, <2>0, <2>4, <2>5, <2>6, <2>7, <2>9 DEF ClientOK, HandlerOK
<1>9. h.pc # "away"
    BY <1>3
<1> QED BY <1>2, <1>3, <1>4, <1>5, <1>6, <1>7, <1>8, <1>9, HandlerStep


(* A live frame that was replayed is passed over. *)
LEMMA SkipLiveKeeps == ASSUME NEW c \in Clients PROVE IInv /\ SkipLive(c) => IInv'
<1> SUFFICES ASSUME IInv, SkipLive(c) PROVE IInv'
    OBVIOUS
<1> DEFINE r == conn[c]
           n == Head(r.ch)
           t == Tail(r.ch)
           h == [r EXCEPT !.ch = t]
<1>1. /\ r \in Handlers /\ r.pc = "serving" /\ ~r.gap /\ r.from > r.to
      /\ n <= r.last /\ r.last \in Nat /\ r.from \in Nat /\ r.to \in Nat
      /\ seen[c] \in Accounts /\ cursor[c] \in Nat
      /\ ReplayMeetsLive(c) /\ TypeOK
      /\ SeenOK(c) /\ Explained(c) /\ ToldOnce(c)
    BY Served DEF SkipLive, Live, Handlers
<1>2. /\ Offered(c) \in Nat
      /\ t \in Seq(Nat) /\ EndsWith(t, Offered(c))
      /\ n \in Nat /\ n >= 1
      /\ InChannel(c) = ToSet(t) \cup {n}
    BY AtHead DEF SkipLive
<1>3. /\ h \in Handlers /\ h.pc = "serving" /\ ~h.gap /\ h.from = r.from
      /\ h.to = r.to /\ h.last = r.last /\ h.ch = t
    <2> HIDE DEF n, t
    <2> QED BY <1>1, <1>2 DEF Handlers
<1>4. conn' = [conn EXCEPT ![c] = h]
    BY DEF SkipLive
<1>5. seen' = [seen EXCEPT ![c] = seen[c]] /\ cursor' = [cursor EXCEPT ![c] = cursor[c]]
    BY <1>1 DEF SkipLive, TypeOK
<1>6. UNCHANGED <<publisher, restarts>>
    BY DEF SkipLive
<1> HIDE DEF h, n, t
<1>7. (conn'[c] = h /\ seen'[c] = seen[c] /\ cursor'[c] = cursor[c]
         /\ Offered(c)' = Offered(c)) => ClientOK(c)'
    <2>0. SUFFICES ASSUME conn'[c] = h, seen'[c] = seen[c], cursor'[c] = cursor[c],
                          Offered(c)' = Offered(c)
                   PROVE  ClientOK(c)'
        OBVIOUS
    <2>1. UNCHANGED <<tail, seq, appended, todo, full>>
        BY <1>6 DEF publisher
    <2>2. SeenOK(c)' /\ Explained(c)' /\ ToldOnce(c)'
        BY <1>1, <2>0, <2>1 DEF SeenOK, Explained, ToldOnce
    <2>3. ChannelEndsWithNewest(c)'
        BY <1>2, <1>3, <2>0 DEF ChannelEndsWithNewest
    <2>4. r.last # 0 /\ seen[c].first # 0 /\ cursor[c] = r.last
          /\ r.from >= 1 /\ r.to <= seq
        BY <1>1, <1>2 DEF ReplayMeetsLive
    <2>5. \A i \in 1 .. Offered(c) :
            i <= cursor[c] \/ i \in InChannel(c)' \/ i \in seen[c].dropped
        <3>1. InChannel(c)' = ToSet(t)
            BY <1>3, <2>0 DEF InChannel
        <3>2. \A i \in 1 .. Offered(c) :
                i <= cursor[c] \/ i \in InChannel(c) \/ i \in seen[c].dropped
            BY <1>1, <2>4 DEF ReplayMeetsLive
        <3>3. n <= cursor[c]
            BY <1>1, <2>4
        <3> QED BY <1>2, <3>1, <3>2, <3>3
    <2>6. ReplayMeetsLive(c)'
        BY <1>1, <1>3, <2>0, <2>1, <2>4, <2>5 DEF ReplayMeetsLive
    <2> QED BY <1>3, <2>0, <2>2, <2>3, <2>6 DEF ClientOK, HandlerOK
<1>8. h.pc # "away"
    BY <1>3
<1> QED BY <1>1, <1>3, <1>4, <1>5, <1>6, <1>7, <1>8, HandlerStep

(* A break leaves the account as it is. *)
LEMMA DisconnectKeeps == ASSUME NEW c \in Clients PROVE IInv /\ Disconnect(c) => IInv'
<1> SUFFICES ASSUME IInv, Disconnect(c) PROVE IInv'
    OBVIOUS
<1>1. /\ TypeOK /\ conn'[c] = Away
      /\ \A d \in Clients \ {c} : conn'[d] = conn[d]
      /\ UNCHANGED <<tail, seq, appended, cursor, seen, restarts>>
    BY DEF IInv, TypeOK, Disconnect
<1>2. TypeOK'
    <2>1. conn' \in [Clients -> Handlers]
        BY <1>1, AwayType DEF TypeOK, Disconnect
    <2>2. todo' \subseteq Subscribed' /\ full' \subseteq todo'
        BY <1>1 DEF TypeOK, Subscribed, Disconnect
    <2> QED BY <1>1, <2>1, <2>2 DEF TypeOK, Disconnect
<1>3. ASSUME NEW d \in Clients, d # c PROVE ClientOK(d)'
    <2>1. Offered(d)' = Offered(d)
        BY <1>3 DEF Offered, Disconnect
    <2>2. seq' \in Nat /\ tail' \in Nat /\ seq' >= seq /\ tail' >= tail
        BY <1>1 DEF TypeOK
    <2> QED BY <1>1, <1>3, <2>1, <2>2, Kept DEF IInv
<1>4. ClientOK(c)'
    BY <1>1 DEF IInv, ClientOK, SeenOK, HandlerOK, Explained, ToldOnce, Away
<1> QED BY <1>2, <1>3, <1>4 DEF IInv

(* A restart begins the accounts anew. *)
LEMMA RestartKeeps == IInv /\ Restart => IInv'
<1> SUFFICES ASSUME IInv, Restart PROVE IInv'
    OBVIOUS
<1>1. TypeOK'
    <2>1. conn' \in [Clients -> Handlers] /\ seen' \in [Clients -> Accounts]
        BY AwayType DEF Restart
    <2>2. restarts' \in Nat /\ cursor' \in [Clients -> Nat]
        BY DEF IInv, TypeOK, Restart
    <2>3. /\ seq' \in Nat /\ tail' \in Nat
          /\ tail' >= 1 /\ (seq' # 0 => tail' <= seq') /\ (seq' = 0 => tail' = 1)
        BY DEF Restart
    <2>4. /\ todo' \in SUBSET Subscribed' /\ todo' = {} /\ full' \in SUBSET todo'
          /\ appended' \in BOOLEAN /\ ~appended'
        BY DEF Restart
    <2> QED BY <2>1, <2>2, <2>3, <2>4 DEF TypeOK
<1>2. ASSUME NEW c \in Clients PROVE ClientOK(c)'
    BY DEF Restart, ClientOK, SeenOK, HandlerOK, Explained, ToldOnce, Away, Nothing
<1> QED BY <1>1, <1>2 DEF IInv

-----------------------------------------------------------------------------
(***************************************************************************)
(* Every step of the system keeps the invariant.                           *)
(***************************************************************************)
LEMMA NextKeeps == IInv /\ [Next]_vars => IInv'
<1> SUFFICES ASSUME IInv, [Next]_vars PROVE IInv'
    OBVIOUS
<1>1. CASE UNCHANGED vars
    BY <1>1 DEF vars, publisher, IInv, TypeOK, Subscribed, ClientOK, SeenOK, HandlerOK,
                Explained, ToldOnce, ChannelEndsWithNewest, SubscribedInTime,
                ReplayMeetsLive, Offered, InChannel
<1>2. CASE Publish
    BY <1>2, PublishKeeps
<1>3. CASE FanOut
    BY <1>3, FanOutKeeps
<1>4. ASSUME NEW c \in Clients, Offer(c) \/ FindFull(c) \/ Replace(c) PROVE IInv'
    BY <1>4, OfferKeeps, FindFullKeeps, ReplaceKeeps
<1>5. ASSUME NEW c \in Clients, Subscribe(c) \/ Serves(c) \/ Disconnect(c) PROVE IInv'
    BY <1>5, SubscribeKeeps, SinceKeeps, WriteGapKeeps, WriteReplayKeeps,
       WriteLiveKeeps, SkipLiveKeeps, DisconnectKeeps DEF Serves
<1>6. CASE Restart
    BY <1>6, RestartKeeps
<1> QED BY <1>1, <1>2, <1>3, <1>4, <1>5, <1>6 DEF Next, FansOut

(***************************************************************************)
(* The inductive invariant holds in every reachable state.                 *)
(***************************************************************************)
THEOREM IInvHolds == Spec => []IInv
BY InitIInv, NextKeeps, PTL DEF Spec

(***************************************************************************)
(* However the publisher, the clients and the breaks of their connections  *)
(* interleave, no id a client has passed is without an account.            *)
(***************************************************************************)
THEOREM NoSilentHole == Spec => []HolesExplained
<1>1. IInv => HolesExplained
    BY DEF IInv, ClientOK, HolesExplained
<1> QED BY <1>1, IInvHolds, PTL

(***************************************************************************)
(* A frame reported by a replay.gap is never delivered.                    *)
(***************************************************************************)
THEOREM NotToldAndDelivered == Spec => []ToldMissing
<1>1. IInv => ToldMissing
    BY DEF IInv, ClientOK, ToldMissing
<1> QED BY <1>1, IInvHolds, PTL

(***************************************************************************)
(* Within one life of the server no client's Last-Event-ID goes back.      *)
(***************************************************************************)
THEOREM IdsGoForward == Spec => InOrder
<1> DEFINE Forward == \A c \in Clients : restarts' = restarts /\ seen[c].first # 0 =>
                        cursor'[c] >= cursor[c]
<1>1. ASSUME IInv, [Next]_vars PROVE [Forward]_vars
    <2> SUFFICES ASSUME NEW c \in Clients, restarts' = restarts, seen[c].first # 0,
                        ~UNCHANGED vars
                 PROVE  cursor'[c] >= cursor[c]
        OBVIOUS
    <2>1. TypeOK /\ cursor[c] \in Nat
        BY <1>1 DEF IInv, TypeOK
    <2>2. CASE cursor'[c] = cursor[c]
        BY <2>1, <2>2
    <2>3. ASSUME NEW d \in Clients, WriteGap(d) PROVE cursor'[c] >= cursor[c]
        <3>1. conn[d] \in Handlers /\ ReplayMeetsLive(d)
            BY <1>1, <2>3, Served DEF WriteGap
        <3>2. cursor[d] < conn[d].from - 1 /\ conn[d].from \in Nat
            BY <2>3, <3>1 DEF WriteGap, ReplayMeetsLive, Handlers
        <3> QED BY <2>1, <2>3, <3>2 DEF WriteGap, TypeOK
    <2>4. ASSUME NEW d \in Clients, WriteReplay(d) PROVE cursor'[c] >= cursor[c]
        <3>1. conn[d] \in Handlers /\ ReplayMeetsLive(d)
            BY <1>1, <2>4, Served DEF WriteReplay
        <3>2. cursor[d] = conn[d].from - 1 /\ conn[d].from \in Nat
            BY <2>4, <3>1 DEF WriteReplay, ReplayMeetsLive, Handlers
        <3> QED BY <2>1, <2>4, <3>2 DEF WriteReplay, Receives, TypeOK
    <2>5. ASSUME NEW d \in Clients, WriteLive(d) PROVE cursor'[c] >= cursor[c]
        <3>1. ReplayMeetsLive(d) /\ conn[d] \in Handlers
            BY <1>1, <2>5, Served DEF WriteLive, Live
        <3>2. /\ Head(conn[d].ch) \in Nat
              /\ Head(conn[d].ch) = Offered(d) - Len(conn[d].ch) + 1
            BY <1>1, <2>5, AtHead DEF WriteLive
        <3>3. seen[d].first # 0 => cursor[d] <= Head(conn[d].ch)
            BY <2>1, <2>5, <3>1, <3>2
               DEF WriteLive, Live, ReplayMeetsLive, SubscribedInTime, Handlers
        <3>4. cursor' = [cursor EXCEPT ![d] = Head(conn[d].ch)]
            BY <2>5 DEF WriteLive, Receives
        <3> QED BY <2>1, <3>2, <3>3, <3>4 DEF TypeOK
    <2>6. CASE Publish \/ FanOut \/ Restart
        BY <2>2, <2>6 DEF Publish, FanOut, Restart
    <2>7. ASSUME NEW d \in Clients, Offer(d) \/ FindFull(d) \/ Replace(d)
          PROVE  cursor'[c] >= cursor[c]
        BY <2>2, <2>7 DEF Offer, FindFull, Replace
    <2>8. ASSUME NEW d \in Clients, Subscribe(d) \/ Since(d) \/ SkipLive(d) \/ Disconnect(d)
          PROVE  cursor'[c] >= cursor[c]
        BY <2>2, <2>8 DEF Subscribe, Since, SkipLive, Disconnect
    <2> QED BY <1>1, <2>3, <2>4, <2>5, <2>6, <2>7, <2>8 DEF Next, FansOut, Serves
<1>2. IInv /\ [Next]_vars => [Forward]_vars
    BY <1>1
<1> QED BY <1>2, IInvHolds, PTL DEF Spec, InOrder
=============================================================================
