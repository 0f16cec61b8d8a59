---------------------------- MODULE MCJobRunner -----------------------------
(* Constant values for the runs of JobRunner.                              *)
EXTENDS JobRunner, TLC

CONSTANTS me, other, r1, r2

(* The backoffs of one retry with exponent 2.                              *)
OneRetry == 0 :> 1 @@ 1 :> 2

=============================================================================
