----------------------------- MODULE MCLiveLoop -----------------------------
(* LiveLoop on small clips, of even and of uneven segments.                *)
EXTENDS LiveLoop

Cuts(durations) ==
  [i \in DOMAIN durations |-> FoldSeq(+, 0, SubSeq(durations, 1, i))]

Clip(total, ll, range, units) ==
  [total |-> total,
   unit  |-> [p \in Playlists |-> units[p]],
   cuts  |-> [p \in Playlists |-> Cuts(IF p = "ll" THEN ll ELSE range)]]

Units(a, b) == [p \in Playlists |-> IF p = "ll" THEN a ELSE b]
Even(n, d) == [i \in 1 .. n |-> d]

EvenClip == Clip(12, Even(12, 1), Even(6, 2), Units(1, 2))
LongLast == Clip(13, Even(12, 1) \o <<2>>, Even(5, 2) \o <<3>>, Units(1, 2))
ShortLast == Clip(11, Even(10, 1) \o <<1>>, Even(5, 2) \o <<1>>, Units(1, 2))
LongerVariant == Clip(12, Even(13, 1), Even(6, 2) \o <<1>>, Units(1, 2))

LiveClips == {EvenClip, LongLast, LongerVariant}
ShortClips == {EvenClip, ShortLast}

AllPlaylists == {"ll", "range"}
AllFit == \A p \in Playlists : WindowFits(p)
=============================================================================
