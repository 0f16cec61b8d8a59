--------------------------- MODULE MCWorkflowCore ---------------------------
(* Constant values and symmetry for the runs of WorkflowCore.              *)
EXTENDS WorkflowCore, TLC

CONSTANTS e1, e2, r1, r2, r3, j1, j2

NoSkew   == e1 :> 0 @@ e2 :> 0
SkewByOne == e1 :> 0 @@ e2 :> 1

SkewByTwo == e1 :> 0 @@ e2 :> 2

(* The backoffs of one retry with exponent 2.                              *)
OneRetry == 0 :> 1 @@ 1 :> 2

RunSymmetry == Permutations(Runs)

RunAndJobSymmetry == Permutations(Runs) \cup Permutations(Jobs)

=============================================================================
