---------------------------- MODULE WorkflowCore ----------------------------
(***************************************************************************)
(* Servers that share one job table: the picker that scans it and adopts   *)
(* due jobs, the runner that executes an adopted job and commits its       *)
(* outcome, the reset of the jobs of a server the ring gave up on, crashes *)
(* and restarts.  The header in the table is the only thing the servers    *)
(* share; each storage transaction is one atomic action, and everything    *)
(* between two transactions (an await, a timer, the event loop) is a step  *)
(* in which the other servers may act.                                     *)
(*                                                                         *)
(* Each server reads its own clock: global time plus its skew.             *)
(***************************************************************************)
EXTENDS JobHeader, FiniteSets

CONSTANTS
  Jobs,          \* jobs that exist initially, due at time 1
  Runs,          \* slots for JobRunner instances (model bound)
  Skew,          \* Skew[e]: how far the clock of e is ahead
  Targets,       \* the batch sizes a pick may compute
  Results,       \* delays a body may return to be run again; 0: returns void
  PushbackDelay, \* lost_deadline_ms / 2.5
  ResetBatch,    \* limit of one resetLostJobs transaction
  Latency,       \* TimelySpec: what the event loop and a transaction may take
  MaxTime,       \* bound of the clock (model bound)
  MaxFaults      \* bound on crashes, failing transactions, suspicions (model bound)

ASSUME CoreAssumption ==
  /\ Skew \in [Executors -> Nat]
  /\ Targets \subseteq Nat \ {0}
  /\ Results \subseteq Nat
  /\ PushbackDelay \in Nat \ {0}
  /\ ResetBatch \in Nat \ {0}
  /\ Latency \in Nat \ {0}
  /\ MaxTime \in Nat \ {0}
  /\ MaxFaults \in Nat

VARIABLES
  now,      \* global time
  jobs,     \* the jobs present in the table
  header,   \* header[j]: the header of job j
  runs,     \* runs[r]: one JobRunner instance and the body it started
  pick,     \* pick[e]: the picker of server e
  alive,    \* alive[e]: server e is up
  faults    \* faults so far

vars == <<now, jobs, header, runs, pick, alive, faults>>

Clock(e) == now + Skew[e]

(***************************************************************************)
(* The control state of a run:                                             *)
(*   free      no instance                                                 *)
(*   adopted   the job is adopted; the pick has not returned yet           *)
(*   starting  startJob was called; Run() reads the job                    *)
(*   racing    the body races against outofProcessError                    *)
(*   returned  the body won: the success transaction is next               *)
(*   failing   an error won or the success transaction failed: the error   *)
(*             transaction is next                                         *)
(*   zombie    Run() has settled, its body has not: the race does not      *)
(*             cancel the loser                                            *)
(* `t` is when the present wait began, except in "racing", where it is     *)
(* when the progress timer is due.  `push` is when the pushback timer is   *)
(* due, 0 if it is not armed.                                              *)
(***************************************************************************)
Idle == [ctl |-> "free", job |-> None, exec |-> None, t |-> 0, push |-> 0,
         body |-> FALSE, result |-> 0, err |-> "recoverable"]

Controlling == {"adopted", "starting", "racing", "returned", "failing"}

Run ==
  {Idle} \cup
  [ctl : Controlling \cup {"zombie"}, job : Jobs, exec : Executors,
   t : Nat, push : Nat, body : BOOLEAN, result : Nat, err : Errors]

Candidate == [job : Jobs, at : Nat \ {0}]

(* What GetUpdatedJob finds: this run may still act for its job.           *)
Owns(r) == runs[r].job \in jobs /\ header[runs[r].job].exec = runs[r].exec

(* The error it throws otherwise.                                          *)
LostError(r) == IF runs[r].job \in jobs THEN "readopted" ELSE "vanished"

Init ==
  /\ now = 1
  /\ jobs = Jobs
  /\ header \in [Jobs -> FreshHeaders(1)]
  /\ runs = [r \in Runs |-> Idle]
  /\ pick = [e \in Executors |-> [on |-> FALSE, cands |-> {}, late |-> {}]]
  /\ alive = [e \in Executors |-> TRUE]
  /\ faults = 0

Fault == faults < MaxFaults /\ faults' = faults + 1

(***************************************************************************)
(* Picker                                                                  *)
(***************************************************************************)

(* A plausible fault: the scan has no lower bound.                         *)
DueFromAnywhere(e) == {j \in jobs : header[j].at < Clock(e)}

(* The at-index, read up to (not including) the server's clock.            *)
Due(e) == {j \in jobs : header[j].at >= 1 /\ header[j].at < Clock(e)}

(* The first n entries of the at-index.                                    *)
FirstDue(e, n, S) ==
  /\ S \subseteq Due(e)
  /\ \A a \in S, b \in Due(e) \ S : header[a].at <= header[b].at
  /\ Cardinality(S) <= n
  /\ Cardinality(S) < n => S = Due(e)

(* Phase I: the snapshot scan.                                             *)
Scan(e) ==
  /\ alive[e]
  /\ ~pick[e].on
  /\ \E n \in Targets : \E S \in SUBSET Due(e) :
       /\ FirstDue(e, n, S)
       /\ pick' = [pick EXCEPT ![e].on = TRUE,
                               ![e].cands = {[job |-> j, at |-> header[j].at] : j \in S}]
  /\ UNCHANGED <<now, jobs, header, runs, alive, faults>>

(* A plausible fault: the adoption does not compare `at` with the scan.    *)
StillThere(c) == c.job \in jobs

(* The adoption transaction finds the job as it was scanned.               *)
Unchanged(c) == c.job \in jobs /\ header[c.job].at = c.at

Adoptable(e, c) == Unchanged(c) /\ header[c.job].exec # e

(* Phase II: the job is adopted, whether it is free or its lease ran out.  *)
Adopt(e, c, r) ==
  /\ alive[e]
  /\ c \in pick[e].cands
  /\ Adoptable(e, c)
  /\ runs[r].ctl = "free"
  /\ header' = [header EXCEPT ![c.job] = Adopted(@, e, Clock(e))]
  /\ runs' = [runs EXCEPT ![r] = [Idle EXCEPT !.ctl = "adopted", !.job = c.job,
                                              !.exec = e, !.t = now]]
  /\ pick' = [pick EXCEPT ![e].cands = @ \ {c}]
  /\ UNCHANGED <<now, jobs, alive, faults>>

(* Phase II after the pick was given up: Promise.all has rejected, but the *)
(* other adoptions go on and their result is dropped.                      *)
AdoptLate(e, c) ==
  /\ c \in pick[e].late
  /\ Adoptable(e, c)
  /\ header' = [header EXCEPT ![c.job] = Adopted(@, e, Clock(e))]
  /\ pick' = [pick EXCEPT ![e].late = @ \ {c}]
  /\ UNCHANGED <<now, jobs, runs, alive, faults>>

(* Phase II: the job carries the picker's own name.                        *)
RefuseOwn(e, c) ==
  /\ c \in pick[e].cands \cup pick[e].late
  /\ Unchanged(c)
  /\ header[c.job].exec = e
  /\ header' = [header EXCEPT ![c.job] = Pushed(@, Clock(e))]
  /\ pick' = [pick EXCEPT ![e].cands = @ \ {c}, ![e].late = @ \ {c}]
  /\ UNCHANGED <<now, jobs, runs, alive, faults>>

(* Phase II: the job is gone, or it was modified since the scan.           *)
Skip(e, c) ==
  /\ c \in pick[e].cands \cup pick[e].late
  /\ ~Unchanged(c)
  /\ pick' = [pick EXCEPT ![e].cands = @ \ {c}, ![e].late = @ \ {c}]
  /\ UNCHANGED <<now, jobs, header, runs, alive, faults>>

(* Phase II: the transaction gives up with a conflict (code 1020).         *)
Conflict(e, c) ==
  /\ c \in pick[e].cands \cup pick[e].late
  /\ Fault
  /\ pick' = [pick EXCEPT ![e].cands = @ \ {c}, ![e].late = @ \ {c}]
  /\ UNCHANGED <<now, jobs, header, runs, alive>>

(* Phase II: an adoption fails with an error other than a conflict.  The   *)
(* pick returns nothing; jobs it has adopted keep its name but no runner.  *)
PickFails(e, c) ==
  /\ c \in pick[e].cands
  /\ Fault
  /\ pick' = [pick EXCEPT ![e] = [on |-> FALSE, cands |-> {},
                                  late |-> (@.cands \cup @.late) \ {c}]]
  /\ runs' = [r \in Runs |-> IF runs[r].ctl = "adopted" /\ runs[r].exec = e
                             THEN Idle ELSE runs[r]]
  /\ UNCHANGED <<now, jobs, header, alive>>

(* The pick returns; the engine starts every adopted job.                  *)
EndPick(e) ==
  /\ pick[e].on
  /\ pick[e].cands = {}
  /\ pick' = [pick EXCEPT ![e].on = FALSE]
  /\ runs' = [r \in Runs |-> IF runs[r].ctl = "adopted" /\ runs[r].exec = e
                             THEN [runs[r] EXCEPT !.ctl = "starting", !.t = now]
                             ELSE runs[r]]
  /\ UNCHANGED <<now, jobs, header, alive, faults>>

(***************************************************************************)
(* Runner                                                                  *)
(***************************************************************************)

(* Run() reads the job, arms the progress timer and starts the body; or    *)
(* the job is lost already and Run() returns that as its outcome.          *)
GetJob(r) ==
  /\ runs[r].ctl = "starting"
  /\ runs' = [runs EXCEPT ![r] =
                IF Owns(r)
                THEN [@ EXCEPT !.ctl = "racing", !.body = TRUE,
                               !.t = now + header[runs[r].job].progress]
                ELSE Idle]
  /\ UNCHANGED <<now, jobs, header, pick, alive, faults>>

(* The read fails: Run() throws, startJob's caller only logs it.           *)
StartFails(r) ==
  /\ runs[r].ctl = "starting"
  /\ Fault
  /\ runs' = [runs EXCEPT ![r] = Idle]
  /\ UNCHANGED <<now, jobs, header, pick, alive>>

(* The body has ended: the slot of a settled run is free again.            *)
WithoutBody(run) == IF run.ctl = "zombie" THEN Idle ELSE [run EXCEPT !.body = FALSE]

(* An error reaches the race.                                              *)
Failing(run, err) ==
  [run EXCEPT !.ctl = "failing", !.err = err, !.t = now, !.push = 0]

(* The body calls Progress() and the job is still its own: the lease and   *)
(* both timers start anew.  The body of a failing or settled run still     *)
(* renews the lease; its timers decide nothing any more.                   *)
Progress(r) ==
  /\ runs[r].body
  /\ Owns(r)
  /\ header' = [header EXCEPT ![runs[r].job] = Renewed(@, Clock(runs[r].exec))]
  /\ runs' = [runs EXCEPT ![r] =
                IF @.ctl = "racing"
                THEN [@ EXCEPT !.t = now + header[runs[r].job].progress,
                               !.push = now + PushbackDelay]
                ELSE @]
  /\ UNCHANGED <<now, jobs, pick, alive, faults>>

(* The body calls Progress() and the job is not its own any more: the call *)
(* throws, and the body with it.                                           *)
ProgressThrows(r) ==
  /\ runs[r].ctl = "racing"
  /\ ~Owns(r)
  /\ runs' = [runs EXCEPT ![r] = [Failing(@, LostError(r)) EXCEPT !.body = FALSE]]
  /\ UNCHANGED <<now, jobs, header, pick, alive, faults>>

(* The pushback timer fires: ResetJob without progress rewrites the job    *)
(* without touching `at` and arms the timer again; if the job is lost, the *)
(* error is raised into the race.                                          *)
Pushback(r) ==
  /\ runs[r].ctl = "racing"
  /\ runs[r].push # 0
  /\ now >= runs[r].push
  /\ runs' = [runs EXCEPT ![r] = IF Owns(r)
                                 THEN [@ EXCEPT !.push = now + PushbackDelay]
                                 ELSE Failing(@, LostError(r))]
  /\ UNCHANGED <<now, jobs, header, pick, alive, faults>>

(* The pushback timer's transaction fails: its error is raised as well.    *)
PushbackFails(r) ==
  /\ runs[r].ctl = "racing"
  /\ runs[r].push # 0
  /\ now >= runs[r].push
  /\ Fault
  /\ runs' = [runs EXCEPT ![r] = Failing(@, "recoverable")]
  /\ UNCHANGED <<now, jobs, header, pick, alive>>

(* The progress timer fires.                                               *)
ProgressDeadlineFires(r) ==
  /\ runs[r].ctl = "racing"
  /\ now >= runs[r].t
  /\ runs' = [runs EXCEPT ![r] = Failing(@, "recoverable")]
  /\ UNCHANGED <<now, jobs, header, pick, alive, faults>>

(* The body returns first, with nothing or with a time to run again.       *)
Return(r) ==
  /\ runs[r].ctl = "racing"
  /\ \E d \in Results :
       runs' = [runs EXCEPT ![r] = [@ EXCEPT
                  !.ctl = "returned", !.body = FALSE, !.t = now, !.push = 0,
                  !.result = IF d = 0 THEN 0 ELSE Clock(runs[r].exec) + d]]
  /\ UNCHANGED <<now, jobs, header, pick, alive, faults>>

(* The body throws first: an ordinary error, or a JobError.                *)
Throw(r) ==
  /\ runs[r].ctl = "racing"
  /\ \E err \in Errors \ {"readopted"} :
       runs' = [runs EXCEPT ![r] = [Failing(@, err) EXCEPT !.body = FALSE]]
  /\ UNCHANGED <<now, jobs, header, pick, alive, faults>>

(* The body of a run that lost the race ends.                              *)
BodyEnds(r) ==
  /\ runs[r].ctl \in {"failing", "zombie"}
  /\ runs[r].body
  /\ runs' = [runs EXCEPT ![r] = WithoutBody(@)]
  /\ UNCHANGED <<now, jobs, header, pick, alive, faults>>

(* The success transaction: a run that lost its job writes nothing (and    *)
(* still reports success).                                                 *)
CommitSuccess(r) ==
  /\ runs[r].ctl = "returned"
  /\ header' = IF Owns(r)
               THEN [header EXCEPT ![runs[r].job] =
                       AfterSuccess(@, runs[r].result, Clock(runs[r].exec))]
               ELSE header
  /\ runs' = [runs EXCEPT ![r] = Idle]
  /\ UNCHANGED <<now, jobs, pick, alive, faults>>

(* The success transaction fails: its error is handled as the body's.      *)
CommitSuccessFails(r) ==
  /\ runs[r].ctl = "returned"
  /\ Fault
  /\ runs' = [runs EXCEPT ![r] = [Failing(@, "recoverable") EXCEPT !.result = 0]]
  /\ UNCHANGED <<now, jobs, header, pick, alive>>

(* Run() has settled; its body may go on.                                  *)
Settled(run) ==
  IF run.body
  THEN [Idle EXCEPT !.ctl = "zombie", !.job = run.job, !.exec = run.exec, !.body = TRUE]
  ELSE Idle

(* The error transaction: it looks for the job, not for its owner.         *)
CommitError(r) ==
  /\ runs[r].ctl = "failing"
  /\ header' = IF runs[r].job \in jobs
               THEN [header EXCEPT ![runs[r].job] =
                       AfterError(@, runs[r].err, Clock(runs[r].exec))]
               ELSE header
  /\ runs' = [runs EXCEPT ![r] = Settled(@)]
  /\ UNCHANGED <<now, jobs, pick, alive, faults>>

(* The error transaction fails: the job keeps the name of its executor.    *)
CommitErrorFails(r) ==
  /\ runs[r].ctl = "failing"
  /\ Fault
  /\ runs' = [runs EXCEPT ![r] = Settled(@)]
  /\ UNCHANGED <<now, jobs, header, pick, alive>>

(***************************************************************************)
(* The environment and the ring                                            *)
(***************************************************************************)

(* The application deletes a job.                                          *)
Clear(j) ==
  /\ j \in jobs
  /\ jobs' = jobs \ {j}
  /\ UNCHANGED <<now, header, runs, pick, alive, faults>>

Crash(e) ==
  /\ alive[e]
  /\ Fault
  /\ alive' = [alive EXCEPT ![e] = FALSE]
  /\ pick' = [pick EXCEPT ![e] = [on |-> FALSE, cands |-> {}, late |-> {}]]
  /\ runs' = [r \in Runs |-> IF runs[r].exec = e THEN Idle ELSE runs[r]]
  /\ UNCHANGED <<now, jobs, header>>

(* The server comes back under the same issuer_id.                         *)
Restart(e) ==
  /\ ~alive[e]
  /\ alive' = [alive EXCEPT ![e] = TRUE]
  /\ UNCHANGED <<now, jobs, header, runs, pick, faults>>

(* The executor index.                                                     *)
JobsOf(e) == {j \in jobs : header[j].exec = e}

(* One transaction of resetLostJobs(e), run by server d when the ring      *)
(* reports e unresponsive.  The ring can be wrong: that is a fault.        *)
ResetLostJobs(d, e) ==
  /\ alive[d]
  /\ d # e
  /\ IF alive[e] THEN Fault ELSE UNCHANGED faults
  /\ \E S \in SUBSET JobsOf(e) :
       /\ S # {}
       /\ Cardinality(S) <= ResetBatch
       /\ Cardinality(S) < ResetBatch => S = JobsOf(e)
       /\ header' = [j \in Jobs |-> IF j \in S THEN Released(header[j], Clock(d))
                                    ELSE header[j]]
  /\ UNCHANGED <<now, jobs, runs, pick, alive>>

Tick ==
  /\ now < MaxTime
  /\ now' = now + 1
  /\ UNCHANGED <<jobs, header, runs, pick, alive, faults>>

(***************************************************************************)
(* The specifications                                                      *)
(***************************************************************************)

PickStep(e) ==
  \/ Scan(e)
  \/ \E c \in pick[e].cands, r \in Runs : Adopt(e, c, r)
  \/ \E c \in pick[e].late : AdoptLate(e, c)
  \/ \E c \in pick[e].cands \cup pick[e].late : RefuseOwn(e, c) \/ Skip(e, c) \/ Conflict(e, c)
  \/ \E c \in pick[e].cands : PickFails(e, c)
  \/ EndPick(e)

RunStep(r) ==
  \/ GetJob(r) \/ StartFails(r)
  \/ Progress(r) \/ ProgressThrows(r) \/ ProgressDeadlineFires(r)
  \/ Pushback(r) \/ PushbackFails(r)
  \/ Return(r) \/ Throw(r) \/ BodyEnds(r)
  \/ CommitSuccess(r) \/ CommitSuccessFails(r)
  \/ CommitError(r) \/ CommitErrorFails(r)

SystemNext ==
  \/ \E e \in Executors : PickStep(e) \/ Crash(e) \/ Restart(e)
  \/ \E r \in Runs : RunStep(r)
  \/ \E j \in Jobs : Clear(j)

(* No assumption on timing: an event loop may stall for any time, and the  *)
(* ring may suspect a server that is up.                                   *)
Next ==
  \/ SystemNext
  \/ \E d, e \in Executors : ResetLostJobs(d, e)
  \/ Tick

Spec == Init /\ [][Next]_vars

(* Every step a run is waiting for is taken less than Latency late.        *)
Timely ==
  \A r \in Runs :
    /\ runs[r].ctl \in Controlling => now < runs[r].t + Latency
    /\ runs[r].push # 0 => now < runs[r].push + Latency

(* The deployment the lease protocol is made for: no server stalls, and    *)
(* the ring only suspects servers that are down.                           *)
TimelyNext ==
  \/ SystemNext
  \/ \E d, e \in Executors : ~alive[e] /\ ResetLostJobs(d, e)
  \/ Timely /\ Tick

TimelySpec == Init /\ [][TimelyNext]_vars

(* The job's configuration is one the picker does not "repair", and a      *)
(* lease outlasts every wait of a run that never reports progress: the     *)
(* pick, the start, the progress deadline, the success and the error       *)
(* transaction, on the clock that is the furthest ahead.                   *)
GoodTiming ==
  /\ 2 * ProgressDeadline <= LostDeadline
  /\ \A d, e \in Executors :
       ProgressDeadline + 5 * Latency + Skew[d] - Skew[e] <= LostDeadline

(***************************************************************************)
(* Properties                                                              *)
(***************************************************************************)

(* The variables have their types; in particular the retry budget is never *)
(* negative and a backoff is never zero.                                   *)
TypeOK ==
  /\ now \in Nat \ {0}
  /\ jobs \in SUBSET Jobs
  /\ header \in [Jobs -> Header]
  /\ runs \in [Runs -> Run]
  /\ pick \in [Executors -> [on : BOOLEAN, cands : SUBSET Candidate, late : SUBSET Candidate]]
  /\ alive \in [Executors -> BOOLEAN]
  /\ faults \in Nat

(* No job is out of reach: one that carries an executor's name always has  *)
(* a positive `at`, so once its lease has run out a scan finds it again,   *)
(* whatever stale runs, crashes, resets and failed transactions did to it. *)
OwnedIsReachable == \A j \in Jobs : header[j].exec # None => header[j].at >= 1

Balanced(h) ==
  IF h.initial = NoSnapshot
  THEN h.max = MaxRetries /\ h.backoff = BackoffAt[0]
  ELSE /\ h.initial = [max |-> MaxRetries, backoff |-> BackoffAt[0]]
       /\ h.max < MaxRetries
       /\ h.backoff = BackoffAt[MaxRetries - h.max]

(* The retry ledger balances in every interleaving: without a snapshot the *)
(* policy is the configured one; with one, the snapshot is the configured  *)
(* policy, at least one retry is consumed, and the backoff is the one that *)
(* belongs to the number of retries consumed.                              *)
RetryLedger == \A j \in Jobs : Balanced(header[j])

(* A job passes from one executor directly to another only when its lease  *)
(* has run out on the clock of the one that takes it, however old the scan *)
(* was that found it.                                                      *)
NoEarlySteal ==
  [][\A j \in Jobs :
       /\ header[j].exec # None
       /\ header'[j].exec \notin {None, header[j].exec}
       => header[j].at < Clock(header'[j].exec)]_vars

(* Under TimelySpec: of all the runs there are, at most one is between the *)
(* adoption of a job and the commit of its outcome; the job carries the    *)
(* name of its executor, which is up; and no server's clock is past the    *)
(* lease.                                                                  *)
Exclusive ==
  \A r \in Runs : runs[r].ctl \in Controlling =>
    /\ \A s \in Runs : runs[s].ctl \in Controlling /\ runs[s].job = runs[r].job => s = r
    /\ alive[runs[r].exec]
    /\ runs[r].job \in jobs =>
         /\ header[runs[r].job].exec = runs[r].exec
         /\ \A d \in Executors : Clock(d) <= header[runs[r].job].at

(* Under TimelySpec the servers implement exclusive work on jobs.          *)
Workers == [j \in Jobs |-> {r \in Runs : runs[r].ctl \in Controlling /\ runs[r].job = j}]

Status == [j \in Jobs |-> IF j \notin jobs THEN "gone"
                          ELSE IF header[j].at < 1 THEN "finished" ELSE "open"]

Abstract == INSTANCE JobExclusion WITH workers <- Workers, status <- Status

Implements == Abstract!Spec

(***************************************************************************)
(* What the documentation says and the code does not do                    *)
(***************************************************************************)

(* README: when another executor steals the job mid-run, "the original     *)
(* detects it and aborts cleanly".  So nothing a run does changes a job    *)
(* that carries another executor's name.                                   *)
StaleRunLeavesJobAlone ==
  [][\A r \in Runs : LET j == runs[r].job IN
       /\ runs[r].ctl # "free"
       /\ runs'[r] # runs[r]
       /\ header[j].exec \notin {None, runs[r].exec}
       => header'[j] = header[j]]_vars

(* README: "Pushback timers extend the lease automatically".  So while a   *)
(* body runs and its pushback timer is served, its lease does not run out. *)
PushbackExtendsLease ==
  \A r \in Runs :
    /\ runs[r].ctl = "racing"
    /\ runs[r].push > now
    /\ Owns(r)
    => Clock(runs[r].exec) <= header[runs[r].job].at

=============================================================================
