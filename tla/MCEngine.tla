------------------------------ MODULE MCEngine ------------------------------
(* Constant values for the runs of Engine.                                 *)
EXTENDS Engine, TLC

CONSTANTS s1, s2, j1, j2, mail, report, jobs1, jobs2

(* Nine types: the last one is alone in its byte.                          *)
NineTypes == <<"a", "b", "c", "d", "e", "f", "g", mail, report>>

(* s1 runs mail, s2 runs mail and report.                                  *)
SomeRunners == s1 :> {mail} @@ s2 :> {mail, report}

(* A report, and a job of a type that has no runner.                       *)
SomeTypes == j1 :> report @@ j2 :> "a"

(* Two tables, the first of them empty.                                    *)
TwoTables == <<jobs1, jobs2>>

TheirTables == j1 :> jobs2 @@ j2 :> jobs2

OneTable == <<jobs1>>

ThatTable == j1 :> jobs1 @@ j2 :> jobs1

(* TargetJobs is the least n that, times the ratio of the loads kept       *)
(* between 1/2 and 6, reaches the batch size.                              *)
Reaches(n, num, den) ==
  IF num >= 6 * den THEN 6 * n >= BatchSize
  ELSE IF 2 * num <= den THEN n >= 2 * BatchSize
  ELSE n * num >= BatchSize * den

ASSUME TargetJobsIsCeil ==
  \A running, average \in 0..15 :
    LET num == 10000 * running + 1
        den == 10000 * average + 1
    IN \A n \in 0..(2 * BatchSize) : Reaches(n, num, den) <=> n >= TargetJobs(running, average)

=============================================================================
