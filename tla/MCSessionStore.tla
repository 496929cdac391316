--------------------------- MODULE MCSessionStore ---------------------------
(***************************************************************************)
(* Small instances of SessionStore.  Goroutines of one kind that have not  *)
(* started are interchangeable, and so are players with the same address.  *)
(***************************************************************************)
EXTENDS SessionStore, TLC

Symmetry == Permutations(Connects) \cup Permutations(Requests)
=============================================================================
