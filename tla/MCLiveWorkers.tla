--------------------------- MODULE MCLiveWorkers ----------------------------
(* LiveWorkers with a few players of each kind.                            *)
EXTENDS LiveWorkers
=============================================================================
