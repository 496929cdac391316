--------------------------- MODULE MCFaultCadence ---------------------------
(***************************************************************************)
(* Every rule of frequency up to 3 and consecutive up to 2, in each mode.  *)
(***************************************************************************)
EXTENDS FaultCadence

MCArmed == [mode : Modes, frequency : 0..3, consecutive : 0..2]
=============================================================================
