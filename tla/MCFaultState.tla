--------------------------- MODULE MCFaultState ---------------------------
(***************************************************************************)
(* The rules of the small instances, and the symmetry of requests that     *)
(* have not been told apart.                                               *)
(***************************************************************************)
EXTENDS FaultState, TLC

OneFault == [mode |-> "requests", frequency |-> 0, consecutive |-> 1]
TwoFaults == [mode |-> "requests", frequency |-> 0, consecutive |-> 2]
EveryRequest == [mode |-> "requests", frequency |-> 0, consecutive |-> 0]

Symmetry == Permutations(Requests)
===========================================================================
