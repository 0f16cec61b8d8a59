-------------------------- MODULE MCSimulatedClock --------------------------
(* Model values for the runs of SimulatedClock.                            *)
EXTENDS SimulatedClock, TLC

CONSTANTS a1, a2, i1

CallSymmetry == Permutations(Calls)

=============================================================================
