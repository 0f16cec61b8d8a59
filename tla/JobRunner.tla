----------------------------- MODULE JobRunner ------------------------------
(***************************************************************************)
(* JobRunner instances of one process, at the granularity of their awaits. *)
(* WorkflowCore takes Progress() and the pushback timer as single steps;   *)
(* here each of them is a call, its transaction and its continuation, so   *)
(* that clearTimers(), the outcome's transaction and the end of Run() fall *)
(* in between.  All instances act on one job, under the name of one        *)
(* executor, as happens when a job comes back to a server that has not let *)
(* go of it.                                                               *)
(*                                                                         *)
(* There is no clock: a timer that is armed may fire, and a lease may run  *)
(* out, at any time.  Headers are written as of time 1.                    *)
(***************************************************************************)
EXTENDS JobStore, FiniteSets

CONSTANTS
  Runs,          \* JobRunner instances
  Me,            \* the executor they run under
  MaxCalls,      \* Progress() calls of a body (model bound)
  MaxPushbacks,  \* calls of one run's pushback timer under way (model bound)
  MaxFaults      \* transactions that fail or are rolled back (model bound)

ASSUME RunnerAssumption ==
  /\ Me \in Executors
  /\ IsFiniteSet(Runs)
  /\ MaxCalls \in Nat
  /\ MaxPushbacks \in Nat
  /\ MaxFaults \in Nat

Pushbacks == 1..MaxPushbacks

VARIABLES
  run,        \* run[r]: one instance, see RunState
  running,    \* JobRunner.totalRunningJobs, shared by all instances
  unhandled,  \* a promise nobody listens to was rejected
  faults      \* faults so far

vars == <<storeVars, run, running, unhandled, faults>>

(***************************************************************************)
(* The control state of Run():                                             *)
(*   new        not called                                                 *)
(*   reading    GetJob() waits for its transaction                         *)
(*   racing     Promise.race([runJob(), outofProcessError.promise])        *)
(*   returned   the body won, timers are cleared: success transaction next *)
(*   failing    in the catch block, timers are cleared: error transaction  *)
(*   committed  the outcome is written; Run() has yet to go on             *)
(*   settled    Run() has returned, `completed` is set                     *)
(*   lost       Run() returned the JobError of its first read              *)
(*   unread     Run() threw the error of its first read                    *)
(*   rejected   the error transaction failed and Run() threw               *)
(***************************************************************************)
Over == {"committed", "settled", "lost", "unread", "rejected"}

(* A timer: `unset` when the field is undefined, `fired` when it holds a   *)
(* timer that has gone off.                                                *)
Timer == {"unset", "armed", "fired"}

(* A call of ResetJob(): not there, in its transaction, resolved, or       *)
(* rejected with what the transaction threw.                               *)
Call == {"none", "open", "ok", "readopted", "vanished", "recoverable"}

CallError == {"readopted", "vanished", "recoverable"}

(* What Run() reports.  `gone`: the job was not in the table any more when *)
(* the error transaction looked for it.                                    *)
Outcome == {"none", "success", "rescheduled", "fatal", "vanished", "gone", "readopted"}

(* The kinds of transactions that nobody awaits.                           *)
Strays == {"progress", "pushback"}

RunState ==
  [ctl      : {"new", "reading", "racing", "returned", "failing"} \cup Over,
   err      : Errors,
   again    : BOOLEAN,                         \* the body returned a time
   body     : {"none", "running", "calling", "ended"},
   calls    : Nat,                             \* Progress() calls so far
   prog     : Timer,                           \* progressTimer
   push     : Timer,                           \* pushbackTimer
   progress : Call,                            \* the body's Progress()
   pushback : [Pushbacks -> Call],             \* the pushback timer's ResetJob()s
   rearm    : SUBSET Pushbacks,                \* those that found no progressTimer
   stray    : [Strays -> Nat],                 \* transactions nobody awaits
   callback : Outcome,                         \* onFatalErrorCallback, with its outcome
   outcome  : Outcome,
   notified : Outcome,                         \* what onFatalError() was told
   rolled   : BOOLEAN]                         \* an error transaction was rolled back

NewRun ==
  [ctl |-> "new", err |-> "recoverable", again |-> FALSE, body |-> "none", calls |-> 0,
   prog |-> "unset", push |-> "unset", progress |-> "none",
   pushback |-> [i \in Pushbacks |-> "none"], rearm |-> {},
   stray |-> [k \in Strays |-> 0], callback |-> "none", outcome |-> "none",
   notified |-> "none", rolled |-> FALSE]

Init ==
  /\ StoreInit
  /\ run = [r \in Runs |-> NewRun]
  /\ running = 0
  /\ unhandled = FALSE
  /\ faults = 0

(* A plausible fault: `completed` is never set.                            *)
NeverCompleted(r) == FALSE

Completed(r) == run[r].ctl = "settled"

(* A plausible fault: any executor of a job may write it.                  *)
Unowned == present

(* GetUpdatedJob: the job is still this executor's, or what is thrown.     *)
Owned == present /\ header.exec = Me

LostError == IF present THEN "readopted" ELSE "vanished"

Fault == faults < MaxFaults /\ faults' = faults + 1

Sets(r, state) == run' = [run EXCEPT ![r] = state]

(* clearTimers                                                             *)
Cleared(x) == [x EXCEPT !.prog = "unset", !.push = "unset"]

(* A plausible fault: outofProcessError is not part of the race.           *)
Unheard(x, err) == x

(* An error wins the race; one that comes later is not heard.              *)
Raised(x, err) ==
  IF x.ctl = "racing" THEN [Cleared(x) EXCEPT !.ctl = "failing", !.err = err] ELSE x

(***************************************************************************)
(* Run(), until the race                                                   *)
(***************************************************************************)

Start(r) ==
  /\ run[r].ctl = "new"
  /\ Sets(r, [run[r] EXCEPT !.ctl = "reading"])
  /\ UNCHANGED <<storeVars, running, unhandled, faults>>

(* GetJob() has the job: the progress timer is armed, the run is counted,  *)
(* the body starts.                                                        *)
Read(r) ==
  /\ run[r].ctl = "reading"
  /\ IF Owned
     THEN /\ Sets(r, [run[r] EXCEPT !.ctl = "racing", !.body = "running", !.prog = "armed"])
          /\ running' = running + 1
     ELSE /\ Sets(r, [run[r] EXCEPT !.ctl = "lost"])
          /\ UNCHANGED running
  /\ UNCHANGED <<storeVars, unhandled, faults>>

ReadFails(r) ==
  /\ run[r].ctl = "reading"
  /\ Fault
  /\ Sets(r, [run[r] EXCEPT !.ctl = "unread"])
  /\ UNCHANGED <<storeVars, running, unhandled>>

(***************************************************************************)
(* Progress(), called and awaited by the body                              *)
(***************************************************************************)

(* After Run() has returned, GetJob() throws at once ("Job not running"):  *)
(* the transaction is on its way and nobody awaits it.  The body ends with *)
(* that error, or catches it.                                              *)
ProgressCalled(r) ==
  /\ run[r].body = "running"
  /\ run[r].calls < MaxCalls
  /\ IF Completed(r)
     THEN \E b \in {"running", "ended"} :
            Sets(r, [run[r] EXCEPT !.calls = @ + 1, !.stray["progress"] = @ + 1, !.body = b])
     ELSE Sets(r, [run[r] EXCEPT !.calls = @ + 1, !.progress = "open", !.body = "calling"])
  /\ UNCHANGED <<storeVars, running, unhandled, faults>>

(* The transaction renews the lease, if the job is still owned.            *)
ProgressWritten(r) ==
  /\ run[r].progress = "open"
  /\ IF Owned
     THEN /\ Commit(present, Renewed(header, 1))
          /\ Sets(r, [run[r] EXCEPT !.progress = "ok"])
     ELSE /\ Sets(r, [run[r] EXCEPT !.progress = LostError])
          /\ UNCHANGED storeVars
  /\ UNCHANGED <<running, unhandled, faults>>

ProgressFails(r) ==
  /\ run[r].progress = "open"
  /\ Fault
  /\ Sets(r, [run[r] EXCEPT !.progress = "recoverable"])
  /\ UNCHANGED <<storeVars, running, unhandled>>

(* A plausible fault: ResetProgressTimer only cancels a timer it finds.     *)
RearmedIfUnset(x) == [x EXCEPT !.prog = IF @ = "unset" THEN "armed" ELSE "unset", !.push = "armed"]

(* ResetProgressTimer, ResetPushBackTimer                                  *)
Rearmed(x) == [x EXCEPT !.prog = "armed", !.push = "armed"]

(* Its continuation arms both timers, whatever became of the run meanwhile. *)
ProgressReturns(r) ==
  /\ run[r].progress = "ok"
  /\ Sets(r, [Rearmed(run[r]) EXCEPT !.progress = "none", !.body = "running"])
  /\ UNCHANGED <<storeVars, running, unhandled, faults>>

(* Progress() throws into the body, which ends with that error or goes on. *)
ProgressThrows(r) ==
  /\ run[r].progress \in CallError
  /\ LET back == [run[r] EXCEPT !.progress = "none"] IN
       \/ Sets(r, [back EXCEPT !.body = "running"])
       \/ Sets(r, [Raised(back, run[r].progress) EXCEPT !.body = "ended"])
  /\ UNCHANGED <<storeVars, running, unhandled, faults>>

(***************************************************************************)
(* The timers.  A call of the pushback timer may still be under way when   *)
(* Progress() has armed that timer again, and it goes off once more.       *)
(***************************************************************************)

DeadlineFires(r) ==
  /\ run[r].prog = "armed"
  /\ Sets(r, Raised([run[r] EXCEPT !.prog = "fired"], "recoverable"))
  /\ UNCHANGED <<storeVars, running, unhandled, faults>>

(* ResetJob({progress: false}).  After Run() has returned, GetJob() throws  *)
(* as above; the timer's own catch takes that, but not the transaction's   *)
(* error.                                                                  *)
PushbackFires(r) ==
  /\ run[r].push = "armed"
  /\ IF Completed(r)
     THEN Sets(r, [run[r] EXCEPT !.push = "fired", !.stray["pushback"] = @ + 1])
     ELSE \E i \in Pushbacks :
            /\ run[r].pushback[i] = "none"
            /\ \A k \in 1..(i-1) : run[r].pushback[k] # "none"
            /\ Sets(r, [run[r] EXCEPT !.push = "fired", !.pushback[i] = "open",
                                      !.rearm = IF run[r].prog = "unset" THEN @ \cup {i} ELSE @])
  /\ UNCHANGED <<storeVars, running, unhandled, faults>>

(* The job is rewritten without a new lease.                               *)
PushbackWritten(r, i) ==
  /\ run[r].pushback[i] = "open"
  /\ IF Owned
     THEN /\ Commit(present, header)
          /\ Sets(r, [run[r] EXCEPT !.pushback[i] = "ok"])
     ELSE /\ Sets(r, [run[r] EXCEPT !.pushback[i] = LostError])
          /\ UNCHANGED storeVars
  /\ UNCHANGED <<running, unhandled, faults>>

PushbackFails(r, i) ==
  /\ run[r].pushback[i] = "open"
  /\ Fault
  /\ Sets(r, [run[r] EXCEPT !.pushback[i] = "recoverable"])
  /\ UNCHANGED <<storeVars, running, unhandled>>

(* The continuation arms the pushback timer again; GetJob() arms the       *)
(* progress timer if it found none.                                        *)
PushbackReturns(r, i) ==
  /\ run[r].pushback[i] = "ok"
  /\ Sets(r, [run[r] EXCEPT !.pushback[i] = "none", !.push = "armed", !.rearm = @ \ {i},
                            !.prog = IF i \in run[r].rearm THEN "armed" ELSE @])
  /\ UNCHANGED <<storeVars, running, unhandled, faults>>

PushbackThrows(r, i) ==
  /\ run[r].pushback[i] \in CallError
  /\ Sets(r, Raised([run[r] EXCEPT !.pushback[i] = "none", !.rearm = @ \ {i}],
                    run[r].pushback[i]))
  /\ UNCHANGED <<storeVars, running, unhandled, faults>>

(* A transaction nobody awaits.  What it throws is an unhandled rejection. *)
StrayWritten(r, k) ==
  /\ run[r].stray[k] > 0
  /\ Sets(r, [run[r] EXCEPT !.stray[k] = @ - 1])
  /\ IF Owned
     THEN /\ Commit(present, IF k = "progress" THEN Renewed(header, 1) ELSE header)
          /\ UNCHANGED unhandled
     ELSE /\ unhandled' = TRUE
          /\ UNCHANGED storeVars
  /\ UNCHANGED <<running, faults>>

StrayFails(r, k) ==
  /\ run[r].stray[k] > 0
  /\ Fault
  /\ Sets(r, [run[r] EXCEPT !.stray[k] = @ - 1])
  /\ unhandled' = TRUE
  /\ UNCHANGED <<storeVars, running>>

(***************************************************************************)
(* The body and the outcome                                                *)
(***************************************************************************)

(* The body returns nothing, or a time to run again.                       *)
BodyReturns(r) ==
  /\ run[r].body = "running"
  /\ IF run[r].ctl = "racing"
     THEN \E again \in BOOLEAN :
            Sets(r, [Cleared(run[r]) EXCEPT !.ctl = "returned", !.body = "ended", !.again = again])
     ELSE Sets(r, [run[r] EXCEPT !.body = "ended"])
  /\ UNCHANGED <<storeVars, running, unhandled, faults>>

BodyThrows(r) ==
  /\ run[r].body = "running"
  /\ run[r].ctl = "racing"
  /\ \E err \in {"recoverable", "fatal", "vanished"} :
       Sets(r, [Raised(run[r], err) EXCEPT !.body = "ended"])
  /\ UNCHANGED <<storeVars, running, unhandled, faults>>

(* The success transaction: nothing is written if the job is lost.         *)
CommitSuccess(r) ==
  /\ run[r].ctl = "returned"
  /\ IF Owned
     THEN Commit(present, AfterSuccess(header, IF run[r].again THEN 2 ELSE 0, 1))
     ELSE UNCHANGED storeVars
  /\ Sets(r, [run[r] EXCEPT !.ctl = "committed", !.outcome = "success"])
  /\ UNCHANGED <<running, unhandled, faults>>

(* It fails: its error is caught like the body's.                          *)
CommitSuccessFails(r) ==
  /\ run[r].ctl = "returned"
  /\ Fault
  /\ Sets(r, [Cleared(run[r]) EXCEPT !.ctl = "failing", !.err = "recoverable"])
  /\ UNCHANGED <<storeVars, running, unhandled>>

(* What the error transaction makes of an error.                           *)
OutcomeOf(err) ==
  IF ~present THEN "gone"
  ELSE IF err # "recoverable" THEN err
  ELSE IF header.max > 0 THEN "rescheduled" ELSE "fatal"

(* The outcomes that set onFatalErrorCallback: a fatal one, and the retry  *)
(* of a job that repeats forever; never for a scheduled_email.             *)
Notifiable(outcome) ==
  /\ ~mail
  /\ \/ outcome \in {"fatal", "vanished"}
     \/ outcome = "rescheduled" /\ header.forever

(* A plausible fault: a job that repeats forever is not told apart.         *)
FatalCallback(x, outcome) ==
  IF ~mail /\ outcome \in {"fatal", "vanished"} THEN outcome ELSE x.callback

(* onFatalErrorCallback after an attempt: set, or left as it was.          *)
CallbackAfter(x, outcome) == IF Notifiable(outcome) THEN outcome ELSE x.callback

(* The store rolls an attempt back and will repeat it.                     *)
AttemptRolledBack(r) ==
  /\ run[r].ctl = "failing"
  /\ Fault
  /\ Sets(r, [run[r] EXCEPT !.rolled = TRUE,
                            !.callback = CallbackAfter(run[r], OutcomeOf(run[r].err))])
  /\ UNCHANGED <<storeVars, running, unhandled>>

(* The error transaction, which does not ask whose the job is.  It writes  *)
(* nothing if the run knows that it has lost the job.                      *)
CommitError(r) ==
  /\ run[r].ctl = "failing"
  /\ IF present /\ run[r].err # "readopted"
     THEN Commit(present, AfterError(header, run[r].err, 1))
     ELSE UNCHANGED storeVars
  /\ LET outcome == OutcomeOf(run[r].err) IN
       Sets(r, [run[r] EXCEPT !.ctl = "committed", !.outcome = outcome,
                              !.callback = CallbackAfter(run[r], outcome)])
  /\ UNCHANGED <<running, unhandled, faults>>

(* It fails: Run() throws, before the run is taken off the count.          *)
CommitErrorFails(r) ==
  /\ run[r].ctl = "failing"
  /\ Fault
  /\ Sets(r, [run[r] EXCEPT !.ctl = "rejected"])
  /\ UNCHANGED <<storeVars, running, unhandled>>

(* The rest of Run(): the notification, the count, `completed`.            *)
Settle(r) ==
  /\ run[r].ctl = "committed"
  /\ Sets(r, [run[r] EXCEPT !.ctl = "settled", !.notified = run[r].callback])
  /\ running' = running - 1
  /\ UNCHANGED <<storeVars, unhandled, faults>>

(***************************************************************************)
(* The other servers and the application                                   *)
(***************************************************************************)

(* A picker takes the job: another one's, or this server's again.          *)
Adopt(e) ==
  /\ present
  /\ header.at >= 1
  /\ header.exec # e
  /\ Commit(present, Adopted(header, e, 1))
  /\ UNCHANGED <<run, running, unhandled, faults>>

Reset ==
  /\ present
  /\ header.exec # None
  /\ Commit(present, Released(header, 1))
  /\ UNCHANGED <<run, running, unhandled, faults>>

Clear ==
  /\ present
  /\ Commit(FALSE, header)
  /\ UNCHANGED <<run, running, unhandled, faults>>

(***************************************************************************)
(* The specifications                                                      *)
(***************************************************************************)

RunStep(r) ==
  \/ Start(r) \/ Read(r) \/ ReadFails(r)
  \/ ProgressCalled(r) \/ ProgressWritten(r) \/ ProgressFails(r)
  \/ ProgressReturns(r) \/ ProgressThrows(r)
  \/ DeadlineFires(r)
  \/ PushbackFires(r)
  \/ \E i \in Pushbacks : \/ PushbackWritten(r, i) \/ PushbackFails(r, i)
                         \/ PushbackReturns(r, i) \/ PushbackThrows(r, i)
  \/ \E k \in Strays : StrayWritten(r, k) \/ StrayFails(r, k)
  \/ BodyReturns(r) \/ BodyThrows(r)
  \/ CommitSuccess(r) \/ CommitSuccessFails(r)
  \/ AttemptRolledBack(r) \/ CommitError(r) \/ CommitErrorFails(r)
  \/ Settle(r)

Next ==
  \/ \E r \in Runs : RunStep(r)
  \/ \E e \in Executors : Adopt(e)
  \/ Reset \/ Clear

Spec == Init /\ [][Next]_vars

(* The event loop: transactions come back, continuations are run, timers   *)
(* go off.  Nothing is assumed of bodies or other servers.                 *)
EventLoop(r) ==
  /\ WF_vars(Read(r))
  /\ WF_vars(ProgressWritten(r))
  /\ WF_vars(ProgressReturns(r) \/ ProgressThrows(r))
  /\ WF_vars(DeadlineFires(r))
  /\ WF_vars(PushbackFires(r))
  /\ \A i \in Pushbacks :
       /\ WF_vars(PushbackWritten(r, i))
       /\ WF_vars(PushbackReturns(r, i) \/ PushbackThrows(r, i))
  /\ \A k \in Strays : WF_vars(StrayWritten(r, k))
  /\ WF_vars(CommitSuccess(r))
  /\ WF_vars(CommitError(r))
  /\ WF_vars(Settle(r))

FairSpec == Spec /\ \A r \in Runs : EventLoop(r)

(***************************************************************************)
(* Properties                                                              *)
(***************************************************************************)

(* The variables have their types.                                         *)
TypeOK ==
  /\ present \in BOOLEAN
  /\ header \in Header
  /\ mail \in BOOLEAN
  /\ run \in [Runs -> RunState]
  /\ running \in Int
  /\ unhandled \in BOOLEAN
  /\ faults \in Nat

(* No body races without a deadline: the progress timer is armed all the   *)
(* time, through overlapping calls of Progress() and of the pushback timer *)
(* that cancel and set it.                                                 *)
RacingIsTimed == \A r \in Runs : run[r].ctl = "racing" => run[r].prog = "armed"

(* The runs that have read their job and have not ended; those that ended  *)
(* when their error transaction failed.                                    *)
Running == {r \in Runs : run[r].ctl \in {"racing", "returned", "failing", "committed"}}

Rejected == {r \in Runs : run[r].ctl = "rejected"}

(* The count the ring balances by is not, as README.md has it, the number  *)
(* of "current running jobs": it is one too high, for good, for every      *)
(* error transaction that failed (jobRunner.ts:442 is not reached then).   *)
(* Nothing else makes it wrong: not runs that lose their job, vanish, time *)
(* out or overlap.                                                         *)
RunningCounted == running = Cardinality(Running) + Cardinality(Rejected)

(* onFatalError() is told of every outcome that jobRunner.ts 408-428 means *)
(* it to be told of, with that outcome; and of nothing else, unless the    *)
(* store rolled an attempt back.                                           *)
NotificationMatches ==
  \A r \in Runs : run[r].ctl = "settled" =>
    /\ Notifiable(run[r].outcome) => run[r].notified = run[r].outcome
    /\ ~run[r].rolled /\ ~Notifiable(run[r].outcome) => run[r].notified = "none"

(* What a run still does when its outcome is written (a body that goes on, *)
(* timers armed too late) leaves the owner, the retries and the repetition *)
(* of the job alone, and moves its time only while its executor has it.    *)
LateWritesOnlyRenew ==
  [][\A r \in Runs : run[r].ctl \in Over /\ run'[r] # run[r] =>
       header' \in {header, Renewed(header, 1)} /\ (header.exec # Me => header' = header)]_vars

(* Under FairSpec: Run() ends, also when the body hangs or its job is      *)
(* stolen, reset or deleted, if it calls Progress() finitely often.        *)
RunEnds == \A r \in Runs : run[r].ctl = "reading" ~> run[r].ctl \in Over \ {"committed"}

(* Under FairSpec: the timers of a run that has returned die out, whichever *)
(* calls were under way when they were cleared.                            *)
TimersDie ==
  \A r \in Runs : run[r].ctl = "settled" ~> [](run[r].prog # "armed" /\ run[r].push # "armed")

(***************************************************************************)
(* What the documentation says and the code does not do                    *)
(***************************************************************************)

(* workflowEngine.ts: job execution is fire-and-forget, "errors are logged *)
(* but do not propagate".  So no error of a run ends as an unhandled       *)
(* rejection, which by default ends the process.                           *)
NothingUnhandled == ~unhandled

=============================================================================
