---------------------------- MODULE MCUploadJobs ----------------------------
(* UploadJobs with two uploads of the same file name, of two chunks and of *)
(* one, and a job that an operator adds.                                   *)
EXTENDS UploadJobs, TLC

CONSTANTS u1, u2

Uploads2 == {u1, u2}
Chunks21 == u1 :> 2 @@ u2 :> 1
Uploads1 == {u1}
Chunks2 == u1 :> 2
=============================================================================
