---------------------------- MODULE MCIngestRing ----------------------------
(* IngestRing on small instances, whose rows have fingerprints of their    *)
(* own.                                                                    *)
EXTENDS IngestRing

Distinct == [i \in Row |-> i]
=============================================================================
