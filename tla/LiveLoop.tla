------------------------------ MODULE LiveLoop ------------------------------
(***************************************************************************)
(* The endless live stream go-live makes of a clip: the worker that counts *)
(* loops by watching the segment index fall (runUnifiedHLSWorker), and the *)
(* media playlist it writes from the wall clock and that count             *)
(* (generateVariantPlaylistCore).                                          *)
(*                                                                         *)
(* Wall-clock seconds and media durations are whole ticks.  A playlist is  *)
(* one variant of a family that shares a loop count: "ll" is written by    *)
(* every iteration of the worker, the others when their index has changed. *)
(* A file stays on disk when its worker ends.                              *)
(***************************************************************************)
EXTENDS Integers, Sequences, SequencesExt, FiniteSetsExt

CONSTANTS
  Playlists,   \* "ll" and the range families
  Clips,       \* clips: [total, unit, cuts], see ClipType
  WindowSize,  \* MAX_LIVE_WINDOW_DURATION (120 s)
  MaxDelay,    \* the longest time between two iterations of a worker
  MaxTime,     \* bound: ticks
  MaxLives     \* bound: workers started

(* total is the shortest variant's duration; unit is the step of the index *)
(* the worker watches, and cuts says where each segment of the variant     *)
(* ends.                                                                   *)
ClipType(c) ==
  /\ c.total \in Nat \ {0}
  /\ c.unit \in [Playlists -> Nat \ {0}]
  /\ c.cuts \in [Playlists -> Seq(Nat \ {0})]
  /\ \A p \in Playlists :
       /\ c.cuts[p] # << >>
       /\ \A i, j \in 1 .. Len(c.cuts[p]) :
            i < j => c.cuts[p][i] < c.cuts[p][j]

(* An iteration that comes so late that the index has passed its old value *)
(* again hides a loop from the worker.                                     *)
ASSUME LiveAssumption ==
  /\ {WindowSize, MaxDelay, MaxTime, MaxLives} \subseteq Nat
  /\ \A c \in Clips :
       /\ ClipType(c)
       /\ \A p \in Playlists : c.unit[p] + MaxDelay <= c.total

VARIABLES
  clip,    \* the clip, constant
  now,     \* the wall clock
  life,    \* workers started so far
  up,      \* the last of them is running
  origin,  \* the loop on air at its first iteration
  last,    \* last index seen, -1 in a new worker (lastSegLL, lastSeg1, ...)
  loops,   \* loopCountLL, loopCount1, ...
  file,    \* the playlists on disk
  fresh,   \* the last attempt to write each succeeded
  skipped  \* the last iteration left "ll" out

loopVars == <<clip, now, life, up, origin, last, loops, file, fresh, skipped>>

NoFile == [origin |-> 0]
NoPart == -1

N(p) == Len(clip.cuts[p])

(* The segment of the clip on air at a position in the clip.               *)
SegmentAt(p, pos) == (pos * N(p)) \div clip.total

Loop(t) == t \div clip.total
Position(t) == t % clip.total

(* The index the worker watches.                                           *)
Index(p, t) == Position(t) \div clip.unit[p]

FileType(f, p) ==
  f = NoFile \/ /\ f.origin \in 1 .. MaxTime
                /\ f.first \in Nat /\ f.disc \in Nat
                /\ f.lo \in Int /\ f.hi \in Int
                /\ f.part \in Int

LoopTypeOK ==
  /\ clip \in Clips
  /\ now \in 0 .. MaxTime
  /\ life \in 0 .. MaxLives
  /\ up \in BOOLEAN
  /\ origin \in 0 .. MaxTime
  /\ last \in [Playlists -> -1 .. clip.total]
  /\ loops \in [Playlists -> 0 .. MaxTime]
  /\ \A p \in Playlists : FileType(file[p], p)
  /\ fresh \in [Playlists -> BOOLEAN]
  /\ skipped \in BOOLEAN

LoopInit ==
  /\ clip \in Clips
  /\ now \in clip.total .. (2 * clip.total - 1)
  /\ life = 0
  /\ up = FALSE
  /\ origin = 0
  /\ last = [p \in Playlists |-> -1]
  /\ loops = [p \in Playlists |-> 0]
  /\ file = [p \in Playlists |-> NoFile]
  /\ fresh = [p \in Playlists |-> FALSE]
  /\ skipped = FALSE

-----------------------------------------------------------------------------
(* generateVariantPlaylistCore.                                            *)

(* The duration of the segments i .. j - 1; the first segment is 0.        *)
Cut(p, i) == IF i = 0 THEN 0 ELSE clip.cuts[p][i]
Before(p, i, j) == Cut(p, j) - Cut(p, i)

LastWritten_Inclusive(p, i, j, budget) ==
  Max({i - 1} \cup {k \in i .. j : Before(p, i, k) <= budget})

(* The last of the segments i .. j written until budget is used up.        *)
LastWritten(p, i, j, budget) ==
  Max({i - 1} \cup {k \in i .. j : Before(p, i, k) < budget})

WindowStart_Next(p, pos) ==
  LET start == pos - WindowSize + (IF pos < WindowSize THEN clip.total ELSE 0)
  IN  Min({N(p) - 1, SegmentAt(p, Max({0, start})) + 1})

WindowStart(p, pos) ==
  LET start == pos - WindowSize + (IF pos < WindowSize THEN clip.total ELSE 0)
  IN  Min({N(p) - 1, SegmentAt(p, Max({0, start}))})

StartLoop_Current(wrap, count) == count

StartLoop(wrap, count) == Max({0, IF wrap THEN count - 1 ELSE count})

(* Segments are listed up to the one before the one on air; while that is  *)
(* the first, up to the last of the clip.                                  *)
Available(p, pos) ==
  IF SegmentAt(p, pos) = 0 THEN N(p) - 1 ELSE SegmentAt(p, pos) - 1

(* The first and the last segment listed at time t, in stream time.        *)
FirstListed(p, t) ==
  WindowStart(p, Position(t))
    + N(p) * (IF Position(t) < WindowSize THEN Loop(t) - 1 ELSE Loop(t))

LastListed(p, t) ==
  LET pos == Position(t)
      from == WindowStart(p, pos)
      tail == Before(p, from, N(p))
  IN  Loop(t) * N(p)
        + (IF pos < WindowSize
           THEN LastWritten(p, 0, Available(p, pos), WindowSize - tail)
           ELSE LastWritten(p, from, Available(p, pos), WindowSize))

Written(p, t, count, born) ==
  LET pos == Position(t)
      wrap == pos < WindowSize
  IN [origin |-> born,
      first |-> StartLoop(wrap, count) * N(p) + WindowStart(p, pos),
      disc  |-> StartLoop(wrap, count),
      lo    |-> FirstListed(p, t),
      hi    |-> LastListed(p, t),
      part  |-> IF p = "ll" /\ SegmentAt(p, pos) = Available(p, pos) + 1
                THEN Loop(t) * N(p) + SegmentAt(p, pos) ELSE NoPart]

-----------------------------------------------------------------------------
(* ensureHLSWorker starts a worker, Stop or the idle reaper ends it.       *)

StartWorker ==
  /\ ~up /\ life < MaxLives
  /\ up' = TRUE
  /\ life' = life + 1
  /\ origin' = 0
  /\ last' = [p \in Playlists |-> -1]
  /\ loops' = [p \in Playlists |-> 0]
  /\ skipped' = FALSE
  /\ UNCHANGED <<clip, now, file, fresh>>

StopWorker ==
  /\ up
  /\ up' = FALSE
  /\ UNCHANGED <<clip, now, life, origin, last, loops, file, fresh, skipped>>

Counted_AtZero(p, t) ==
  IF last[p] > 0 /\ Index(p, t) = 0 THEN loops[p] + 1 ELSE loops[p]

(* A loop has passed when the index falls.                                 *)
Counted(p, t) ==
  IF last[p] >= 0 /\ Index(p, t) < last[p] THEN loops[p] + 1 ELSE loops[p]

Origin(t) == IF \A p \in Playlists : last[p] = -1 THEN Loop(t) ELSE origin

(* Less than 200 ms after the last "ll" playlist there is no new one.      *)
Attempted(p, t, early) == IF p = "ll" THEN ~early ELSE Index(p, t) # last[p]

(* One iteration of the worker, at time t.  Loading the variant or writing *)
(* its file may fail: the playlist then waits for the next attempt.        *)
Iterate(t, early) ==
  LET due == {p \in Playlists : Attempted(p, t, early)} IN
  /\ up
  /\ early => last["ll"] >= 0 /\ ~skipped
  /\ skipped' = early
  /\ last' = [p \in Playlists |-> Index(p, t)]
  /\ loops' = [p \in Playlists |-> Counted(p, t)]
  /\ origin' = Origin(t)
  /\ \E failed \in SUBSET due :
       /\ file' = [p \in Playlists |->
                     IF p \in due \ failed
                     THEN Written(p, t, Counted(p, t), Origin(t)) ELSE file[p]]
       /\ fresh' = [p \in Playlists |->
                     IF p \in due THEN p \notin failed ELSE fresh[p]]
  /\ UNCHANGED <<clip, life, up>>

Iteration(d) ==
  /\ now + d <= MaxTime
  /\ now' = now + d
  /\ \E early \in BOOLEAN : Iterate(now + d, early)

NoWorker ==
  /\ ~up
  /\ now < MaxTime
  /\ now' = now + 1
  /\ UNCHANGED <<clip, life, up, origin, last, loops, file, fresh, skipped>>

LoopNext ==
  \/ StartWorker \/ StopWorker \/ NoWorker
  \/ \E d \in 1 .. MaxDelay : Iteration(d)

LoopSpec == LoopInit /\ [][LoopNext]_loopVars

-----------------------------------------------------------------------------
(* Properties.                                                             *)

Listed(p) == file[p] # NoFile

(* Every segment lasts as long as the arithmetic takes it to; the window   *)
(* is as long as so many of them, and no longer than the clip.             *)
EvenlyCut(p) == \A i \in 1 .. N(p) : Cut(p, i) * N(p) = i * clip.total
WholeSegments(p) ==
  \E k \in 1 .. N(p) : WindowSize * N(p) = k * clip.total

(* The loops the worker has counted are the loops that have passed since   *)
(* its first iteration, in every family and however late it iterates.      *)
LoopsCounted ==
  \A p \in Playlists :
    up /\ last[p] >= 0 => loops[p] = Loop(now) - origin

Ended(p) == (file[p].hi + 1) * clip.total
Wait(p) == IF p = "ll" THEN 2 * MaxDelay ELSE clip.unit[p]

(* A playlist ends at the live edge: no segment still on air is listed as  *)
(* complete, and what is missing is that segment and what has passed since *)
(* the last write was due.                                                 *)
EndsAtLiveEdge ==
  \A p \in Playlists :
    EvenlyCut(p) /\ WholeSegments(p) /\ Listed(p)
      => /\ Ended(p) <= now * N(p)
         /\ up /\ last[p] >= 0 /\ fresh[p]
              => now * N(p) < Ended(p) + clip.total + Wait(p) * N(p)

(* The segments listed and the one on air span the window.                 *)
SpansWindow ==
  \A p \in Playlists :
    EvenlyCut(p) /\ WindowSize <= clip.total /\ Listed(p)
      => (file[p].hi - file[p].lo + 2) * clip.total > WindowSize * N(p)

(* A numbering lasts as long as its worker.  Until the loop it started in  *)
(* is all there is in the window, startLoop cannot be negative and stands  *)
(* for the loop before: the first sliding out of it begins a second one.   *)
Epoch(p) ==
  IF Listed(p) THEN <<file[p].origin, file[p].lo < file[p].origin * N(p)>>
               ELSE <<0, FALSE>>
Base(p) == IF Listed(p) THEN file[p].first - file[p].lo ELSE 0

Window == INSTANCE LiveWindow WITH
  epoch <- [p \in Playlists |-> Epoch(p)],
  base <- [p \in Playlists |-> Base(p)],
  lo <- [p \in Playlists |-> IF Listed(p) THEN file[p].lo ELSE 0],
  hi <- [p \in Playlists |-> IF Listed(p) THEN file[p].hi ELSE 0]

(* What a player sees is a sliding window whose segments keep their        *)
(* numbers and whose ends never move back, from loop to loop, across       *)
(* failed writes and late iterations, within an epoch.                     *)
SlidingWindow == Window!Spec

-----------------------------------------------------------------------------
(* Why they hold: the inductive invariants.                                *)

(* A new worker has seen no index; one that has iterated knows the last,   *)
(* and has counted every loop since.                                       *)
Unseen == \A p \in Playlists : last[p] = -1 /\ loops[p] = 0
Counting ==
  /\ \A p \in Playlists :
       last[p] = Index(p, now) /\ loops[p] = Loop(now) - origin
  /\ origin >= 1

LoopInvariant ==
  /\ clip \in Clips
  /\ now \in Nat /\ now >= clip.total
  /\ origin \in 0 .. Loop(now)
  /\ last \in [Playlists -> Int]
  /\ loops \in [Playlists -> Int]
  /\ up => Unseen \/ Counting

(* A clip that the window suits: it is shorter than the clip, longer than  *)
(* the mean segment, and while the first segment of the clip is on air it  *)
(* has no room for the second.                                             *)
WindowFits(p) ==
  /\ WindowSize <= clip.total
  /\ clip.total <= WindowSize * N(p)
  /\ \A pos \in 0 .. (clip.total - 1) :
       SegmentAt(p, pos) = 0
         => WindowSize <= Before(p, WindowStart(p, pos), N(p)) + Cut(p, 1)

(* The numbers of a playlist follow from its epoch, and its ends from the  *)
(* time it was written.                                                    *)
WrittenAt(p, t) ==
  file[p].lo = FirstListed(p, t) /\ file[p].hi = LastListed(p, t)

Numbered(p) ==
  LET f == file[p] IN
  /\ f.origin \in Nat \ {0}
  /\ f.first - f.lo = (IF f.lo < f.origin * N(p) THEN N(p) ELSE 0)
                        - f.origin * N(p)
  /\ \E t \in 0 .. now : WrittenAt(p, t)

(* A playlist whose last write succeeded is as new as the index the worker *)
(* watches, or as the last iteration but one.                              *)
Recent(p, t) ==
  IF p = "ll" THEN now - t <= (IF skipped THEN MaxDelay ELSE 0)
              ELSE Loop(t) = Loop(now) /\ Index(p, t) = Index(p, now)

UpToDate ==
  \A p \in Playlists :
    up /\ last[p] >= 0 /\ fresh[p]
      => Listed(p) /\ \E t \in 0 .. now : WrittenAt(p, t) /\ Recent(p, t)

NumberingInvariant ==
  /\ LoopInvariant
  /\ \A p \in Playlists : Listed(p) => Numbered(p)
  /\ UpToDate

(* Within its epoch, a playlist keeps the numbers of its segments, and its *)
(* first segment does not move back: a part of SlidingWindow.              *)
NumbersKept ==
  [][\A p \in Playlists :
       Listed(p) /\ Epoch(p)' = Epoch(p)
         => Base(p)' = Base(p) /\ file[p].lo <= file'[p].lo]_loopVars

-----------------------------------------------------------------------------
(* What the comments of the code say and its steps do not keep.            *)

(* "A given segment keeps a stable, monotonic sequence number across       *)
(* reloads": range_hls.go:120.  It does not in the first loop of a worker. *)
NeverRenumbered ==
  [][\A p \in Playlists :
       Listed(p) /\ file'[p].origin = file[p].origin
         => Base(p)' = Base(p)]_loopVars

(* "availableIdx is the last CLOSED segment that was written":             *)
(* range_hls.go:346.  While the first segment of a clip is on air,         *)
(* availableIdx is the last of the clip, and a window that has room left   *)
(* lists the segment on air.                                               *)
OnlyClosedListed ==
  \A p \in Playlists : Listed(p) => Ended(p) <= now * N(p)

(* "The current still-incomplete segment is emitted as bare EXT-X-PART     *)
(* lines", range_hls.go:344, which a player takes for the segment after    *)
(* the last one listed.  A segment longer than the mean uses up the window *)
(* before the live edge.                                                   *)
PartsFollow ==
  \A p \in Playlists :
    Listed(p) /\ file[p].part # NoPart => file[p].part = file[p].hi + 1
=============================================================================
