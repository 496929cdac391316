----------------------------- MODULE LiveWindow -----------------------------
(***************************************************************************)
(* What a player needs of a live media playlist (RFC 8216, 6.2.2), and     *)
(* what go-live says of its own: a segment keeps its media sequence        *)
(* number, and the window moves forward only.  Segments are counted in     *)
(* stream time: segment n of loop k of a clip of N segments is k * N + n.  *)
(*                                                                         *)
(* A playlist may begin a new numbering, in a new epoch; what an epoch is  *)
(* is for the implementation to say.                                       *)
(***************************************************************************)
EXTENDS Integers

CONSTANT Playlists

VARIABLES
  epoch,   \* the numbering in force
  base,    \* number of a segment, less the segment
  lo, hi   \* the first and the last segment listed

vars == <<epoch, base, lo, hi>>

Init ==
  /\ base \in [Playlists -> Int]
  /\ lo \in [Playlists -> Int]
  /\ hi \in [Playlists -> Int]

Slides(p) ==
  /\ base'[p] = base[p]
  /\ lo[p] <= lo'[p]
  /\ hi[p] <= hi'[p]

Next == \A p \in Playlists : epoch'[p] = epoch[p] => Slides(p)

Spec == Init /\ [][Next]_vars
=============================================================================
