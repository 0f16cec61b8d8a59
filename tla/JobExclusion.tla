---------------------------- MODULE JobExclusion ----------------------------
(***************************************************************************)
(* What the servers together promise about a job: at any time at most one  *)
(* of all the runs works on it, and a job that was finished is never       *)
(* worked on again.                                                        *)
(***************************************************************************)
CONSTANTS Jobs, Runs

VARIABLES
  workers,  \* workers[j]: the runs that work on job j
  status    \* status[j]: "open", "finished" or "gone"

vars == <<workers, status>>

Init ==
  /\ workers = [j \in Jobs |-> {}]
  /\ status = [j \in Jobs |-> "open"]

(* A run that has no job takes one nobody works on.                        *)
Take(j, r) ==
  /\ status[j] = "open"
  /\ workers[j] = {}
  /\ \A k \in Jobs : r \notin workers[k]
  /\ workers' = [workers EXCEPT ![j] = {r}]
  /\ UNCHANGED status

(* Runs give their jobs up: a failure that is retried, a job that runs     *)
(* again later, a crash.                                                   *)
Yield(S) ==
  /\ workers' = [j \in Jobs |-> workers[j] \ S]
  /\ UNCHANGED status

(* The run that works on a job ends it.                                    *)
Complete(j, r) ==
  /\ status[j] = "open"
  /\ workers[j] = {r}
  /\ workers' = [workers EXCEPT ![j] = {}]
  /\ status' = [status EXCEPT ![j] = "finished"]

(* The application deletes a job; a run that works on it has yet to learn. *)
Remove(j) ==
  /\ status[j] # "gone"
  /\ status' = [status EXCEPT ![j] = "gone"]
  /\ UNCHANGED workers

Next ==
  \/ \E j \in Jobs, r \in Runs : Take(j, r) \/ Complete(j, r)
  \/ \E S \in SUBSET Runs : Yield(S)
  \/ \E j \in Jobs : Remove(j)

Spec == Init /\ [][Next]_vars

=============================================================================
