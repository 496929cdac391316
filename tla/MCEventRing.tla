---------------------------- MODULE MCEventRing ----------------------------
(* EventRing on small instances.                                           *)
EXTENDS EventRing
=============================================================================
