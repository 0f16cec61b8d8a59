---------------------------- MODULE MCTimelyCore ----------------------------
(* The run of TimelySpec, on constants that satisfy the hypothesis of the  *)
(* theorems about it.                                                      *)
EXTENDS MCWorkflowCore

ASSUME TimingIsGood == GoodTiming

=============================================================================
