------------------------------ MODULE JobHeader ------------------------------
(***************************************************************************)
(* The header of a job (WorkflowJobHeader) and every way the code rewrites *)
(* it.  The header is the lease: a job is due when `at` lies in the past,  *)
(* an adopted job carries the identifier of its executor and an `at` in    *)
(* the future, and a finished job has a non-positive `at`, which the       *)
(* picker's scan (from at = 1) never returns.                              *)
(*                                                                         *)
(* Every operator takes the header it replaces and `clk`, the reading of   *)
(* the acting server's own clock.  All jobs share one configuration.       *)
(***************************************************************************)
EXTENDS Integers

CONSTANTS
  Executors,         \* server identities (issuer_id, written to execution_id)
  None,              \* execution_id: undefined
  LostDeadline,      \* lost_deadline_ms, the length of a lease
  ProgressDeadline,  \* progress_deadline_ms as the job was created
  SelfAdoptPush,     \* durationSeconds(5), see Pushed
  MaxRetries,        \* retries.max as the job was created
  Exponent,          \* retries.exponent
  BackoffAt,         \* BackoffAt[n]: the backoff after n retries were consumed
  Occurrences,       \* repetitions left in repeatSchedule; 0: no repetition
  Endless,           \* whether it repeats forever: the kinds of jobs there are
  Period             \* from now to the next occurrence

ASSUME HeaderAssumption ==
  /\ None \notin Executors
  /\ LostDeadline \in Nat \ {0}
  /\ ProgressDeadline \in Nat \ {0}
  /\ SelfAdoptPush \in Nat \ {0}
  /\ MaxRetries \in Nat
  /\ Exponent \in Nat \ {0}
  /\ BackoffAt \in [0..MaxRetries -> Nat \ {0}]
  /\ \A n \in 0..MaxRetries : n < MaxRetries => BackoffAt[n+1] = BackoffAt[n] * Exponent
  /\ Occurrences \in Nat
  /\ Endless \subseteq BOOLEAN
  /\ Period \in Nat \ {0}

(* The retry policy's `_initial`: absent, or the values it had before the  *)
(* first retry.  A snapshot is only ever taken of a positive `max`.        *)
NoSnapshot == [max |-> 0, backoff |-> 0]

Snapshot == {NoSnapshot} \cup [max : 1..MaxRetries, backoff : Nat \ {0}]

Header ==
  [at       : Int,
   exec     : Executors \cup {None},
   progress : Nat \ {0},
   max      : 0..MaxRetries,
   backoff  : Nat \ {0},
   initial  : Snapshot,
   repeat   : 0..Occurrences,
   forever  : Endless]

(* Jobs as they are enqueued, due at `at`.                                 *)
FreshHeaders(at) ==
  {[at |-> at, exec |-> None, progress |-> ProgressDeadline,
    max |-> MaxRetries, backoff |-> BackoffAt[0], initial |-> NoSnapshot,
    repeat |-> Occurrences, forever |-> endless] : endless \in Endless}

(***************************************************************************)
(* What the picker writes.                                                 *)
(***************************************************************************)

(* The "bad configuration" repair of an adoption.                          *)
RepairedProgress(h) ==
  IF LostDeadline < 2 * h.progress THEN 2 * LostDeadline ELSE h.progress

(* A plausible fault: an adoption that takes no lease.                     *)
LeaselessAdopted(h, e, clk) == [h EXCEPT !.at = clk, !.exec = e]

(* An executor takes the job: a lease, its name, the repaired deadline.    *)
Adopted(h, e, clk) ==
  [h EXCEPT !.at = clk + LostDeadline, !.exec = e, !.progress = RepairedProgress(h)]

(* The picker meets a job that already carries its own name: it leaves the *)
(* owner and moves the job into the future.                                *)
Pushed(h, clk) == [h EXCEPT !.at = clk + SelfAdoptPush]

(* resetLostJobs on a job of a server the ring declared unresponsive.      *)
Released(h, clk) == [h EXCEPT !.at = clk, !.exec = None]

(***************************************************************************)
(* What a runner writes.                                                   *)
(***************************************************************************)

(* Progress(): the lease is renewed from the runner's clock.               *)
Renewed(h, clk) == [h EXCEPT !.at = clk + LostDeadline]

(* A plausible fault: the finished job keeps its owner.                     *)
NegatedOnly(h) == [h EXCEPT !.at = IF @ > 0 THEN -@ ELSE @]

(* The terminal state: 0 - Math.abs(at), no owner.                         *)
Finished(h) == [h EXCEPT !.at = IF @ > 0 THEN -@ ELSE @, !.exec = None]

(* A plausible fault: the budget is restored, the backoff is forgotten.    *)
BudgetOnlyRestored(h) ==
  IF h.initial = NoSnapshot THEN h
  ELSE [h EXCEPT !.max = h.initial.max, !.initial = NoSnapshot]

(* restoreRetriesOnSuccess                                                 *)
RestoredRetries(h) ==
  IF h.initial = NoSnapshot THEN h
  ELSE [h EXCEPT !.max = h.initial.max, !.backoff = h.initial.backoff, !.initial = NoSnapshot]

(* A plausible fault: one occurrence too many.                             *)
RecursOnceMore(h) == h.forever \/ h.repeat >= 0

(* computeNextSchedule, for a periodic schedule that has an occurrence     *)
(* count or repeats forever: the next occurrence, if any is left.          *)
Recurs(h) == h.forever \/ h.repeat > 0

NextOccurrence(h, clk) ==
  [h EXCEPT !.at = clk + Period, !.exec = None,
            !.repeat = IF h.forever THEN @ ELSE @ - 1]

RepeatOrFinish(h, clk) == IF Recurs(h) THEN NextOccurrence(h, clk) ELSE Finished(h)

(* The success transaction.  `result` is what the body returned: 0 for     *)
(* nothing, or the time to run again.                                      *)
AfterSuccess(h, result, clk) ==
  IF result # 0 THEN [h EXCEPT !.at = result, !.exec = None]
  ELSE IF Recurs(h) THEN RestoredRetries(NextOccurrence(h, clk))
  ELSE Finished(h)

(* One retry: the first one snapshots the policy.                          *)
Retried(h, clk) ==
  [h EXCEPT !.initial = IF @ = NoSnapshot THEN [max |-> h.max, backoff |-> h.backoff] ELSE @,
            !.max     = @ - 1,
            !.at      = clk + h.backoff,
            !.backoff = @ * Exponent,
            !.exec    = None]

(* What a run can end with other than success: "recoverable" stands for    *)
(* custom-recoverable, payloadMismatch and progress-deadline, which the    *)
(* error transaction treats alike.                                         *)
Errors == {"recoverable", "fatal", "vanished", "readopted"}

(* A plausible fault: a retry without asking for the budget.               *)
UnbudgetedAfterError(h, err, clk) ==
  CASE err = "vanished"    -> Finished(h)
    [] err = "recoverable" -> Retried(h, clk)
    [] err = "readopted"   -> h
    [] err = "fatal"       -> RepeatOrFinish(h, clk)

(* The error transaction.                                                  *)
AfterError(h, err, clk) ==
  CASE err = "vanished"    -> Finished(h)
    [] err = "recoverable" -> IF h.max > 0 THEN Retried(h, clk) ELSE RepeatOrFinish(h, clk)
    [] err = "readopted"   -> h
    [] err = "fatal"       -> RepeatOrFinish(h, clk)

=============================================================================
