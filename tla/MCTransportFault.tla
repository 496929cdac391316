-------------------------- MODULE MCTransportFault --------------------------
(* TransportFault with three handlers, which are interchangeable.          *)
EXTENDS TransportFault, TLC

Symmetry == Permutations(Handlers)
=============================================================================
