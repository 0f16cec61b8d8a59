---------------------- MODULE WorkflowExclusion_proofs ----------------------
(***************************************************************************)
(* Under TimelySpec and GoodTiming, no job is ever worked on by two runs:  *)
(* the proof of Exclusive for every number of servers, jobs and runs.      *)
(*                                                                         *)
(* Exclusive is not inductive: that no clock is past the lease of a run    *)
(* follows from how far the run has come since the lease was granted.  The *)
(* strengthening says so: a run that is held is alive, at most Latency     *)
(* late for its next step, and began to wait for that step a bounded time  *)
(* after the grant, a bound that grows by one wait with every stage.       *)
(***************************************************************************)
EXTENDS WorkflowCore_proofs

Held(r) == runs[r].ctl \in Controlling

(* How long after the grant of its lease a run may begin the present wait. *)
Slack(ctl) ==
  CASE ctl = "adopted"  -> 0
    [] ctl = "starting" -> Latency
    [] ctl = "racing"   -> ProgressDeadline + 2 * Latency
    [] ctl = "returned" -> ProgressDeadline + 3 * Latency
    [] ctl = "failing"  -> ProgressDeadline + 4 * Latency

(* The state of one run: `h` is the header of its job, `present` whether   *)
(* the job is in the table, `up` whether its server is up, `n` the time.   *)
Fine(run, h, present, up, n) ==
  run.ctl \in Controlling =>
    /\ up
    /\ n <= run.t + Latency
    /\ run.t <= n + (IF run.ctl = "racing" THEN ProgressDeadline ELSE 0)
    /\ present =>
        /\ h.exec = run.exec
        /\ run.t <= h.at - LostDeadline - Skew[run.exec] + Slack(run.ctl)

RunFine(r) ==
  Fine(runs[r], header[runs[r].job], runs[r].job \in jobs, alive[runs[r].exec], now)

RunsFine == \A r \in Runs : RunFine(r)

OneRun ==
  \A r, s \in Runs : Held(r) /\ Held(s) /\ runs[r].job = runs[s].job => r = s

ConfigKept == \A j \in Jobs : header[j].progress = ProgressDeadline

Exclusion == Core /\ ConfigKept /\ OneRun /\ RunsFine

(* The constants the arithmetic is about.                                  *)
LEMMA Constants ==
  /\ LostDeadline \in Nat /\ ProgressDeadline \in Nat \ {0} /\ Latency \in Nat \ {0}
  /\ \A e \in Executors : Skew[e] \in Nat
BY HeaderAssumption, CoreAssumption

(* What the types say of a run that is held.                               *)
LEMMA HeldTypes ==
  ASSUME Core, NEW r \in Runs, Held(r)
  PROVE  /\ runs[r].job \in Jobs /\ runs[r].exec \in Executors /\ runs[r].t \in Nat
         /\ now \in Nat /\ header[runs[r].job] \in Header
         /\ header[runs[r].job].at \in Int /\ Skew[runs[r].exec] \in Nat
<1>1. runs[r].ctl # "free"
  BY DEF Held, Controlling
<1>2. QED
  BY <1>1, BusyRun, Constants DEF Core, TypeOK, Header

(* A step of a run is never more than its slack and its lateness away from *)
(* the grant, so no clock is past the lease.                               *)
LEMMA LeaseCovers ==
  ASSUME Exclusion, GoodTiming, NEW r \in Runs, Held(r), runs[r].job \in jobs,
         NEW d \in Executors
  PROVE  /\ header[runs[r].job].exec = runs[r].exec
         /\ Clock(d) <= header[runs[r].job].at
<1> DEFINE run == runs[r]
           at == header[run.job].at
<1>1. /\ run.t \in Nat /\ now \in Nat /\ at \in Int /\ run.exec \in Executors
      /\ Skew[run.exec] \in Nat /\ Skew[d] \in Nat
  BY HeldTypes, Constants DEF Exclusion
<1>2. /\ header[run.job].exec = run.exec
      /\ now <= run.t + Latency
      /\ run.t <= at - LostDeadline - Skew[run.exec] + Slack(run.ctl)
  BY DEF Exclusion, RunsFine, RunFine, Fine, Held
<1>3. Slack(run.ctl) \in Nat /\ Slack(run.ctl) <= ProgressDeadline + 4 * Latency
  BY Constants DEF Slack, Held, Controlling
<1>4. ProgressDeadline + 5 * Latency + Skew[d] - Skew[run.exec] <= LostDeadline
  BY <1>1 DEF GoodTiming
<1>5. now + Skew[d] <= at
  <2> HIDE DEF run, at
  <2>1. QED
    BY <1>1, <1>2, <1>3, <1>4, Constants
<1>6. QED
  BY <1>2, <1>5 DEF Clock

(* The inductive invariant implies exclusive work.                         *)
LEMMA ExclusionExclusive == Exclusion /\ GoodTiming => Exclusive
<1> SUFFICES ASSUME Exclusion, GoodTiming, NEW r \in Runs, Held(r)
             PROVE  /\ \A s \in Runs : Held(s) /\ runs[s].job = runs[r].job => s = r
                    /\ alive[runs[r].exec]
                    /\ runs[r].job \in jobs =>
                         /\ header[runs[r].job].exec = runs[r].exec
                         /\ \A d \in Executors : Clock(d) <= header[runs[r].job].at
  BY DEF Exclusive, Held
<1>1. \A s \in Runs : Held(s) /\ runs[s].job = runs[r].job => s = r
  BY DEF Exclusion, OneRun
<1>2. alive[runs[r].exec]
  BY DEF Exclusion, RunsFine, RunFine, Fine, Held
<1>3. runs[r].exec \in Executors
  BY HeldTypes DEF Exclusion
<1>4. QED
  BY <1>1, <1>2, <1>3, LeaseCovers

(* A job whose lease has run out on some clock is not held, and neither is *)
(* one whose executor is down.                                             *)
LEMMA ExpiredNotHeld ==
  ASSUME Exclusion, GoodTiming, NEW r \in Runs, NEW d \in Executors,
         runs[r].job \in jobs, header[runs[r].job].at < Clock(d)
  PROVE  ~Held(r)
<1> SUFFICES ASSUME Held(r) PROVE FALSE
  OBVIOUS
<1>1. Clock(d) <= header[runs[r].job].at
  BY LeaseCovers
<1>2. Clock(d) \in Int /\ header[runs[r].job].at \in Int
  BY HeldTypes, ClockMoment DEF Exclusion, Core, Moment
<1>3. QED
  BY <1>1, <1>2

(* No run works on a job whose owner is down.                              *)
LEMMA DownNotHeld ==
  ASSUME Exclusion, NEW r \in Runs, runs[r].job \in jobs,
         ~alive[header[runs[r].job].exec]
  PROVE  ~Held(r)
BY DEF Exclusion, RunsFine, RunFine, Fine, Held

(* A run that does not move stays fine: its job is not touched, or its     *)
(* lease is granted anew.                                                  *)
LEMMA FineKept ==
  ASSUME Exclusion, NEW s \in Runs, runs'[s] = runs[s], now' = now, jobs' \subseteq jobs,
         Held(s) => alive'[runs[s].exec],
         Held(s) /\ runs[s].job \in jobs =>
           /\ header'[runs[s].job].exec = header[runs[s].job].exec
           /\ \/ header'[runs[s].job].at = header[runs[s].job].at
              \/ header'[runs[s].job].at = Clock(runs[s].exec) + LostDeadline
  PROVE  RunFine(s)'
<1> SUFFICES ASSUME Held(s)
             PROVE  Fine(runs[s], header'[runs[s].job], runs[s].job \in jobs',
                         alive'[runs[s].exec], now)
  BY DEF RunFine, Fine, Held
<1>1. Fine(runs[s], header[runs[s].job], runs[s].job \in jobs, alive[runs[s].exec], now)
  BY DEF Exclusion, RunsFine, RunFine
<1>2. CASE runs[s].job \notin jobs
  BY <1>1, <1>2 DEF Fine
<1>3. CASE header'[runs[s].job].at = header[runs[s].job].at
  BY <1>1, <1>3 DEF Fine
<1>4. CASE /\ runs[s].job \in jobs
           /\ header'[runs[s].job].at = Clock(runs[s].exec) + LostDeadline
  <2>1. /\ runs[s].t \in Nat /\ now \in Nat /\ Skew[runs[s].exec] \in Nat
    BY HeldTypes DEF Exclusion
  <2>2. runs[s].t <= now + (IF runs[s].ctl = "racing" THEN ProgressDeadline ELSE 0)
    BY <1>1 DEF Fine, Held
  <2>3. runs[s].t <= now + Slack(runs[s].ctl)
    BY <2>1, <2>2, Constants DEF Slack, Held, Controlling
  <2>4. /\ Slack(runs[s].ctl) \in Nat
    BY Constants DEF Slack, Held, Controlling
  <2>5. header'[runs[s].job].at - LostDeadline - Skew[runs[s].exec] = now
    BY <1>4, <2>1, Constants DEF Clock
  <2>6. QED
    BY <1>1, <1>4, <2>1, <2>3, <2>4, <2>5 DEF Fine
<1>5. QED
  BY <1>2, <1>3, <1>4

(***************************************************************************)
(* The configuration of a job is kept: the picker repairs nothing.         *)
(***************************************************************************)
LEMMA ProgressAfter ==
  ASSUME NEW h \in Header, NEW e, NEW clk, NEW result, NEW err \in Errors
  PROVE  /\ Adopted(h, e, clk).progress = RepairedProgress(h)
         /\ Pushed(h, clk).progress = h.progress
         /\ Renewed(h, clk).progress = h.progress
         /\ Released(h, clk).progress = h.progress
         /\ AfterSuccess(h, result, clk).progress = h.progress
         /\ AfterError(h, err, clk).progress = h.progress
<1>1. /\ Adopted(h, e, clk).progress = RepairedProgress(h)
      /\ Pushed(h, clk).progress = h.progress
      /\ Renewed(h, clk).progress = h.progress
      /\ Released(h, clk).progress = h.progress
  BY DEF Header, Adopted, Pushed, Renewed, Released
<1>2. Finished(h).progress = h.progress
  BY DEF Header, Finished
<1>3. /\ NextOccurrence(h, clk).progress = h.progress
      /\ RestoredRetries(NextOccurrence(h, clk)).progress = h.progress
  BY DEF Header, NextOccurrence, RestoredRetries
<1>4. RepeatOrFinish(h, clk).progress = h.progress
  BY <1>2, <1>3 DEF RepeatOrFinish
<1>5. Retried(h, clk).progress = h.progress
  BY DEF Header, Retried
<1>6. AfterSuccess(h, result, clk).progress = h.progress
  BY <1>2, <1>3 DEF AfterSuccess, Header
<1>7. AfterError(h, err, clk).progress = h.progress
  BY <1>2, <1>4, <1>5 DEF AfterError, Errors
<1>8. QED
  BY <1>1, <1>6, <1>7

(* With a good configuration the picker never repairs a progress deadline. *)
LEMMA ConfigKeptStep ==
  ASSUME Core, ConfigKept, GoodTiming, [Next]_vars
  PROVE  ConfigKept'
<1> SUFFICES ASSUME NEW j \in Jobs PROVE header'[j].progress = ProgressDeadline
  BY DEF ConfigKept
<1>1. /\ header \in [Jobs -> Header] /\ header[j] \in Header
      /\ header[j].progress = ProgressDeadline
      /\ \A k \in Jobs : RepairedProgress(header[k]) = ProgressDeadline
  BY Constants DEF Core, HeadersGood, ConfigKept, GoodTiming, RepairedProgress
<1>2. ASSUME NEW g, NEW k, header' = [header EXCEPT ![k] = g],
             k = j => g.progress = ProgressDeadline
      PROVE  header'[j].progress = ProgressDeadline
  BY <1>1, <1>2
<1>3. ASSUME NEW e \in Executors, NEW c \in pick[e].cands \cup pick[e].late,
             (\E r \in Runs : Adopt(e, c, r)) \/ AdoptLate(e, c) \/ RefuseOwn(e, c)
      PROVE  header'[j].progress = ProgressDeadline
  BY <1>1, <1>2, <1>3, ProgressAfter DEF Adopt, AdoptLate, RefuseOwn, Errors
<1>4. ASSUME NEW r \in Runs, Progress(r) \/ CommitSuccess(r)
      PROVE  header'[j].progress = ProgressDeadline
  BY <1>1, <1>2, <1>4, ProgressAfter DEF Progress, CommitSuccess, Errors
<1>5. ASSUME NEW r \in Runs, CommitError(r)
      PROVE  header'[j].progress = ProgressDeadline
  <2>1. runs[r].err \in Errors
    BY <1>5, BusyRun DEF CommitError, Core
  <2>2. QED
    BY <1>1, <1>2, <1>5, <2>1, ProgressAfter DEF CommitError
<1>6. ASSUME NEW d \in Executors, NEW e \in Executors, ResetLostJobs(d, e)
      PROVE  header'[j].progress = ProgressDeadline
  BY <1>1, <1>6, ProgressAfter DEF ResetLostJobs, Errors
<1>7. CASE UNCHANGED header
  BY <1>1, <1>7
<1>8. QED
  BY <1>3, <1>4, <1>5, <1>6, <1>7
     DEF Next, SystemNext, PickStep, RunStep, Scan, Skip, Conflict, PickFails, EndPick, GetJob, StartFails,
         ProgressThrows, Pushback, PushbackFails, ProgressDeadlineFires, Return, Throw, BodyEnds,
         CommitSuccessFails, CommitErrorFails, Clear, Crash, Restart, Tick, vars

(***************************************************************************)
(* At most one run per job.  Only an adoption makes a run held, and it     *)
(* takes a job whose lease has run out.                                    *)
(***************************************************************************)

(* An adoption finds a job no run holds.                                   *)
LEMMA AdoptFree ==
  ASSUME Exclusion, GoodTiming, NEW e \in Executors,
         NEW c \in pick[e].cands \cup pick[e].late, Unchanged(c),
         NEW s \in Runs, runs[s].job = c.job
  PROVE  ~Held(s)
<1>1. c.at < Clock(e)
  BY DEF Exclusion, Core, CandidatesDue
<1>2. QED
  BY <1>1, ExpiredNotHeld DEF Unchanged

(* The runs that are held afterwards are runs that were, with their job.   *)
LEMMA OneRunKept ==
  ASSUME OneRun,
         \A r \in Runs : Held(r)' => Held(r) /\ runs'[r].job = runs[r].job
  PROVE  OneRun'
BY DEF OneRun, Held

(* A settled run is not held.                                              *)
LEMMA SettledNotHeld ==
  ASSUME NEW run
  PROVE  Settled(run).ctl \notin Controlling
<1>1. CASE run.body
  BY <1>1 DEF Settled, Idle, Controlling
<1>2. CASE ~run.body
  BY <1>2 DEF Settled, Idle, Controlling
<1>3. QED
  BY <1>1, <1>2

(* A step of one run moves no other run.                                   *)
LEMMA OthersStay ==
  ASSUME runs \in [Runs -> Run], NEW r \in Runs, RunStep(r)
  PROVE  \A s \in Runs : s # r => runs'[s] = runs[s]
BY DEF RunStep, GetJob, StartFails, Progress, ProgressThrows, Pushback, PushbackFails, ProgressDeadlineFires,
   Return, Throw, BodyEnds, CommitSuccess, CommitSuccessFails, CommitError, CommitErrorFails

(* Only an adoption gives a run a job.                                     *)
HeldKept ==
  \A r \in Runs : Held(r)' => Held(r) /\ runs'[r].job = runs[r].job

LEMMA StepHolds ==
  ASSUME Core, [Next]_vars,
         \A e \in Executors : \A c \in pick[e].cands, r \in Runs : ~Adopt(e, c, r)
  PROVE  HeldKept
<1>1. runs \in [Runs -> Run]
  BY DEF Core, TypeOK
<1>3. ASSUME NEW r \in Runs, RunStep(r)
      PROVE  HeldKept
  <2>1. \A s \in Runs : s # r => runs'[s] = runs[s]
    BY <1>1, <1>3, OthersStay
  <2>2. ASSUME Held(r)' PROVE Held(r) /\ runs'[r].job = runs[r].job
    <3> DEFINE Busy == [ctl : Controlling \cup {"zombie"}, job : Jobs, exec : Executors,
                        t : Nat, push : Nat, body : BOOLEAN, result : Nat, err : Errors]
    <3>1. runs[r].ctl # "free" /\ runs[r] \in Busy
      <4>1. runs[r].ctl # "free"
        BY <1>3, BodyBusy DEF Core, RunStep, GetJob, StartFails, Progress, ProgressThrows,
           Pushback, PushbackFails, ProgressDeadlineFires, Return, Throw, BodyEnds, CommitSuccess,
           CommitSuccessFails, CommitError, CommitErrorFails
      <4>2. QED
        BY <4>1, RunShapes DEF Core
    <3>2. CASE GetJob(r)
      BY <1>1, <2>2, <3>1, <3>2 DEF GetJob, Held, Idle, Controlling
    <3>3. CASE Progress(r)
      BY <1>1, <2>2, <3>1, <3>3 DEF Progress, Held
    <3>4. CASE ProgressThrows(r)
      BY <1>1, <2>2, <3>1, <3>4 DEF ProgressThrows, Failing, Held, Controlling
    <3>5. CASE Pushback(r) \/ PushbackFails(r)
      BY <1>1, <2>2, <3>1, <3>5 DEF Pushback, PushbackFails, Failing, Held, Controlling
    <3>6. CASE ProgressDeadlineFires(r)
      BY <1>1, <2>2, <3>1, <3>6 DEF ProgressDeadlineFires, Failing, Held, Controlling
    <3>7. CASE Throw(r)
      <4>1. PICK err : runs' = [runs EXCEPT ![r] = [Failing(runs[r], err) EXCEPT !.body = FALSE]]
        BY <3>7 DEF Throw
      <4>2. QED
        BY <1>1, <2>2, <3>1, <3>7, <4>1 DEF Throw, Failing, Held, Controlling
    <3>8. CASE Return(r)
      BY <1>1, <2>2, <3>1, <3>8 DEF Return, Held, Controlling
    <3>9. CASE BodyEnds(r)
      BY <1>1, <2>2, <3>1, <3>9 DEF BodyEnds, WithoutBody, Held, Idle, Controlling
    <3>10. CASE CommitSuccessFails(r)
      BY <1>1, <2>2, <3>1, <3>10 DEF CommitSuccessFails, Failing, Held, Controlling
    <3>11. CASE StartFails(r) \/ CommitSuccess(r)
      BY <1>1, <2>2, <3>1, <3>11 DEF StartFails, CommitSuccess, Held, Idle, Controlling
    <3>12. CASE CommitError(r) \/ CommitErrorFails(r)
      <4>1. runs'[r] = Settled(runs[r])
        BY <1>1, <3>12 DEF CommitError, CommitErrorFails
      <4>2. QED
        BY <2>2, <4>1, SettledNotHeld DEF Held
    <3>13. QED
      BY <1>3, <3>2, <3>3, <3>4, <3>5, <3>6, <3>7, <3>8, <3>9, <3>10, <3>11, <3>12
         DEF RunStep
  <2>3. QED
    BY <1>1, <2>1, <2>2 DEF HeldKept, Held
<1>4. ASSUME NEW e \in Executors, (\E c \in pick[e].cands : PickFails(e, c)) \/ Crash(e)
      PROVE  HeldKept
  BY <1>1, <1>4 DEF PickFails, Crash, HeldKept, Held, Idle, Controlling
<1>5. ASSUME NEW e \in Executors, EndPick(e)
      PROVE  HeldKept
  <2>1. ASSUME NEW r \in Runs, runs[r].ctl = "adopted"
        PROVE  [runs[r] EXCEPT !.ctl = "starting", !.t = now].job = runs[r].job
    BY <1>1, <2>1 DEF Run, Idle
  <2>2. QED
    BY <1>1, <1>5, <2>1 DEF EndPick, HeldKept, Held, Controlling
<1>6. CASE UNCHANGED runs
  BY <1>1, <1>6 DEF HeldKept, Held
<1>7. QED
  BY <1>3, <1>4, <1>5, <1>6
     DEF Next, SystemNext, PickStep, Scan, AdoptLate, RefuseOwn, Skip, Conflict,
         Clear, Restart, ResetLostJobs, Tick, vars

(* No step makes two runs work on one job.                                 *)
LEMMA OneRunStep ==
  ASSUME Exclusion, GoodTiming, [Next]_vars
  PROVE  OneRun'
<1>1. OneRun /\ runs \in [Runs -> Run]
  BY DEF Exclusion, Core, TypeOK
<1>2. ASSUME NEW e \in Executors, NEW c \in pick[e].cands, NEW r \in Runs, Adopt(e, c, r)
      PROVE  OneRun'
  <2>1. \A s \in Runs : s # r => runs'[s] = runs[s]
    BY <1>1, <1>2 DEF Adopt
  <2>2. runs'[r].job = c.job
    BY <1>1, <1>2 DEF Adopt, Idle
  <2>3. \A s \in Runs : s # r /\ runs[s].job = c.job => ~Held(s)
    BY <1>2, AdoptFree DEF Adopt, Adoptable
  <2>4. QED
    BY <1>1, <2>1, <2>2, <2>3 DEF OneRun, Held
<1>3. CASE \A e \in Executors : \A c \in pick[e].cands, r \in Runs : ~Adopt(e, c, r)
  <2>1. HeldKept
    BY <1>3, StepHolds DEF Exclusion
  <2>2. QED
    BY <1>1, <2>1, OneRunKept DEF HeldKept
<1>4. QED
  BY <1>2, <1>3

(***************************************************************************)
(* Every run stays fine.                                                   *)
(***************************************************************************)

(* A run of the picker or the environment: no run moves but those that are *)
(* dropped, and the header of a held job keeps its owner and its lease.    *)
LEMMA FineOutside ==
  ASSUME Exclusion, GoodTiming, SystemNext,
         NEW s \in Runs, runs'[s] = runs[s] ,
         \A r \in Runs : RunStep(r) => r # s
  PROVE  RunFine(s)'
<1> DEFINE j == runs[s].job
<1>1. /\ Core /\ header \in [Jobs -> Header] /\ jobs \subseteq Jobs /\ runs \in [Runs -> Run]
  BY DEF Exclusion, Core, TypeOK
<1>2. Held(s) => /\ j \in Jobs /\ alive[runs[s].exec]
                 /\ j \in jobs => header[j].exec = runs[s].exec
  BY HeldTypes DEF Exclusion, RunsFine, RunFine, Fine, Held
<1>3. ASSUME NEW k, NEW g, header' = [header EXCEPT ![k] = g], now' = now, jobs' = jobs, alive' = alive,
             Held(s) /\ j \in jobs /\ k = j =>
               g.exec = runs[s].exec /\ g.at = Clock(runs[s].exec) + LostDeadline
      PROVE  RunFine(s)'
  <2>1. j \in Jobs /\ k # j => header'[j] = header[j]
    BY <1>1, <1>3
  <2>2. j \in Jobs /\ k = j => header'[j] = g
    BY <1>1, <1>3
  <2>3. QED
    BY <1>1, <1>2, <1>3, <2>1, <2>2, FineKept
<1>4. ASSUME UNCHANGED <<now, header>>, jobs' \subseteq jobs, Held(s) => alive'[runs[s].exec]
      PROVE  RunFine(s)'
  BY <1>4, FineKept
<1>5. ASSUME NEW e \in Executors, NEW c \in pick[e].cands \cup pick[e].late,
             (\E r \in Runs : Adopt(e, c, r)) \/ AdoptLate(e, c) \/ RefuseOwn(e, c)
      PROVE  RunFine(s)'
  <2>1. c.job = j => ~Held(s)
    BY <1>5, AdoptFree DEF Adopt, AdoptLate, RefuseOwn, Adoptable
  <2>2. /\ \E g : header' = [header EXCEPT ![c.job] = g]
        /\ now' = now /\ jobs' = jobs /\ alive' = alive
    BY <1>5 DEF Adopt, AdoptLate, RefuseOwn
  <2>3. QED
    BY <1>3, <2>1, <2>2
<1>6. ASSUME NEW r \in Runs, Progress(r)
      PROVE  RunFine(s)'
  <2>1. /\ header' = [header EXCEPT ![runs[r].job] = Renewed(header[runs[r].job], Clock(runs[r].exec))]
        /\ now' = now /\ jobs' = jobs /\ alive' = alive
        /\ runs[r].job \in jobs /\ header[runs[r].job].exec = runs[r].exec
    BY <1>6 DEF Progress, Owns
  <2>2. ASSUME runs[r].job = j, Held(s), j \in jobs
        PROVE  LET g == Renewed(header[runs[r].job], Clock(runs[r].exec))
               IN  g.exec = runs[s].exec /\ g.at = Clock(runs[s].exec) + LostDeadline
    BY <1>1, <1>2, <2>1, <2>2 DEF Renewed, Header
  <2>3. QED
    BY <1>3, <2>1, <2>2
<1>7. ASSUME NEW r \in Runs, CommitSuccess(r) \/ CommitError(r)
      PROVE  RunFine(s)'
  <2>1. r # s /\ Held(r)
    BY <1>7 DEF RunStep, CommitSuccess, CommitError, Held, Controlling
  <2>2. runs[r].job = j => ~Held(s)
    BY <2>1 DEF Exclusion, OneRun
  <2>3. /\ \/ header' = header
           \/ \E g : header' = [header EXCEPT ![runs[r].job] = g]
        /\ now' = now /\ jobs' = jobs /\ alive' = alive
    BY <1>7 DEF CommitSuccess, CommitError
  <2>4. QED
    BY <1>2, <1>3, <1>4, <2>2, <2>3
<1>8. ASSUME NEW e \in Executors, Crash(e)
      PROVE  RunFine(s)'
  <2>1. Held(s) => runs[s].exec # e
    BY <1>1, <1>8 DEF Crash, Held, Idle, Controlling
  <2>2. alive \in [Executors -> BOOLEAN] /\ alive' = [alive EXCEPT ![e] = FALSE]
    BY <1>8 DEF Crash, Exclusion, Core, TypeOK
  <2>3. Held(s) => alive'[runs[s].exec]
    BY <1>2, <2>1, <2>2, HeldTypes, <1>1
  <2>4. QED
    BY <1>4, <1>8, <2>3 DEF Crash
<1>9. ASSUME NEW e \in Executors, Restart(e)
      PROVE  RunFine(s)'
  <2>1. alive \in [Executors -> BOOLEAN] /\ alive' = [alive EXCEPT ![e] = TRUE]
    BY <1>9 DEF Restart, Exclusion, Core, TypeOK
  <2>2. Held(s) => alive'[runs[s].exec]
    BY <1>2, <2>1, HeldTypes, <1>1
  <2>3. QED
    BY <1>4, <1>9, <2>2 DEF Restart
<1>10. CASE UNCHANGED <<now, header, alive>> /\ jobs' \subseteq jobs
  BY <1>2, <1>4, <1>10
<1>11. QED
  BY <1>5, <1>6, <1>7, <1>8, <1>9, <1>10
     DEF SystemNext, PickStep, RunStep, Scan, Skip, Conflict, PickFails, EndPick, GetJob, StartFails,
         ProgressThrows, Pushback, PushbackFails, ProgressDeadlineFires, Return, Throw, BodyEnds,
         CommitSuccessFails, CommitErrorFails, Clear

(* A run that goes from one wait to the next, while its header stays.      *)
LEMMA FineAdvance ==
  ASSUME Exclusion, NEW r \in Runs, Held(r), NEW run, run.ctl \in Controlling,
         run.job = runs[r].job, run.exec = runs[r].exec, run.t \in Nat,
         now <= run.t, run.t <= now + (IF run.ctl = "racing" THEN ProgressDeadline ELSE 0),
         run.t - now + Latency + Slack(runs[r].ctl) <= Slack(run.ctl),
         runs'[r] = run, UNCHANGED <<now, header, jobs, alive>>
  PROVE  RunFine(r)'
<1> DEFINE h == header[runs[r].job]
<1>1. Fine(runs[r], h, runs[r].job \in jobs, alive[runs[r].exec], now)
  BY DEF Exclusion, RunsFine, RunFine
<1>2. /\ runs[r].t \in Nat /\ now \in Nat /\ h.at \in Int /\ Skew[runs[r].exec] \in Nat
  BY HeldTypes DEF Exclusion
<1>3. Slack(runs[r].ctl) \in Nat /\ Slack(run.ctl) \in Nat
  BY Constants DEF Slack, Held, Controlling
<1>4. alive[runs[r].exec] /\ now <= runs[r].t + Latency
  BY <1>1 DEF Fine, Held
<1>5. ASSUME runs[r].job \in jobs
      PROVE  /\ h.exec = run.exec
             /\ run.t <= h.at - LostDeadline - Skew[run.exec] + Slack(run.ctl)
  <2>1. /\ h.exec = runs[r].exec
        /\ runs[r].t <= h.at - LostDeadline - Skew[runs[r].exec] + Slack(runs[r].ctl)
    BY <1>1, <1>5 DEF Fine, Held
  <2> HIDE DEF h
  <2>2. QED
    BY <1>2, <1>3, <1>4, <2>1, Constants
<1>6. now <= run.t + Latency
  BY <1>2, Constants
<1>7. QED
  BY <1>4, <1>5, <1>6 DEF RunFine, Fine

(* A run that is not held is fine.                                         *)
LEMMA FineIfNotHeld ==
  ASSUME NEW r \in Runs, runs'[r].ctl \notin Controlling
  PROVE  RunFine(r)'
BY DEF RunFine, Fine

(* The steps of a run keep it fine.                                        *)
LEMMA FineRunStep ==
  ASSUME Exclusion, NEW r \in Runs, RunStep(r)
  PROVE  RunFine(r)'
<1> DEFINE Busy == [ctl : Controlling \cup {"zombie"}, job : Jobs, exec : Executors,
                    t : Nat, push : Nat, body : BOOLEAN, result : Nat, err : Errors]
<1>1. /\ Core /\ TypeOK /\ runs \in [Runs -> Run] /\ now \in Nat
      /\ RunFine(r) /\ Idle.ctl \notin Controlling
  BY DEF Exclusion, Core, TypeOK, RunsFine, Idle, Controlling
<1>2. runs[r].ctl # "free"
  BY <1>1, BodyBusy DEF RunStep, GetJob, StartFails, Progress, ProgressThrows,
     Pushback, PushbackFails, ProgressDeadlineFires, Return, Throw, BodyEnds, CommitSuccess,
     CommitSuccessFails, CommitError, CommitErrorFails
<1>3. runs[r] \in Busy /\ runs[r].job \in Jobs
  BY <1>1, <1>2, RunShapes
<1>4. ASSUME runs'[r] = Idle PROVE RunFine(r)'
  BY <1>1, <1>4, FineIfNotHeld
<1>5. CASE GetJob(r)
  <2>1. CASE Owns(r)
    <3> DEFINE run == [runs[r] EXCEPT !.ctl = "racing", !.body = TRUE,
                                      !.t = now + header[runs[r].job].progress]
    <3>1. runs'[r] = run /\ UNCHANGED <<now, header, jobs, alive>>
      BY <1>1, <1>5, <2>1 DEF GetJob
    <3>2. /\ run.ctl = "racing" /\ run.job = runs[r].job /\ run.exec = runs[r].exec
          /\ run.t = now + ProgressDeadline /\ runs[r].ctl = "starting"
      BY <1>3, <1>5 DEF GetJob, Exclusion, ConfigKept
    <3> HIDE DEF run
    <3>3. Slack("starting") = Latency /\ Slack("racing") = ProgressDeadline + 2 * Latency
      BY DEF Slack
    <3>4. QED
      BY <1>1, <3>1, <3>2, <3>3, FineAdvance, Constants DEF Held, Controlling
  <2>2. CASE ~Owns(r)
    BY <1>1, <1>4, <1>5, <2>2 DEF GetJob
  <2>3. QED
    BY <2>1, <2>2
<1>6. CASE StartFails(r) \/ CommitSuccess(r)
  BY <1>1, <1>4, <1>6 DEF StartFails, CommitSuccess
<1>7. ASSUME NEW err \in Errors, runs[r].ctl \in {"racing", "returned"},
             UNCHANGED <<now, header, jobs, alive>>, NEW run,
             run.ctl = "failing", run.t = now, run.job = runs[r].job, run.exec = runs[r].exec,
             runs'[r] = run
      PROVE  RunFine(r)'
  <2>1. /\ Slack("racing") = ProgressDeadline + 2 * Latency
        /\ Slack("returned") = ProgressDeadline + 3 * Latency
        /\ Slack("failing") = ProgressDeadline + 4 * Latency
    BY DEF Slack
  <2>2. QED
    BY <1>1, <1>7, <2>1, FineAdvance, Constants DEF Held, Controlling
<1>8. CASE ProgressThrows(r) \/ ProgressDeadlineFires(r) \/ Throw(r) \/ CommitSuccessFails(r)
           \/ PushbackFails(r) \/ (Pushback(r) /\ ~Owns(r))
  <2>1. PICK err \in Errors : \/ runs' = [runs EXCEPT ![r] = Failing(runs[r], err)]
                              \/ runs' = [runs EXCEPT ![r] = [Failing(runs[r], err) EXCEPT !.body = FALSE]]
                              \/ runs' = [runs EXCEPT ![r] = [Failing(runs[r], err) EXCEPT !.result = 0]]
    BY <1>8 DEF ProgressThrows, ProgressDeadlineFires, Throw, CommitSuccessFails, Pushback, PushbackFails,
                LostError, Errors
  <2>2. /\ runs[r].ctl \in {"racing", "returned"}
        /\ UNCHANGED <<now, header, jobs, alive>>
    BY <1>8 DEF ProgressThrows, ProgressDeadlineFires, Throw, CommitSuccessFails, Pushback, PushbackFails
  <2>3. /\ runs'[r].ctl = "failing" /\ runs'[r].t = now
        /\ runs'[r].job = runs[r].job /\ runs'[r].exec = runs[r].exec
    <3> DEFINE FailedFrom(f) == f.ctl = "failing" /\ f.t = now
                               /\ f.job = runs[r].job /\ f.exec = runs[r].exec
    <3>1. Failing(runs[r], err) \in Busy /\ FailedFrom(Failing(runs[r], err))
      BY <1>1, <1>3 DEF Failing, Controlling
    <3>2. FailedFrom([Failing(runs[r], err) EXCEPT !.body = FALSE])
      BY <3>1
    <3>3. FailedFrom([Failing(runs[r], err) EXCEPT !.result = 0])
      BY <3>1
    <3>4. FailedFrom(runs'[r])
      BY <1>1, <2>1, <3>1, <3>2, <3>3
    <3>5. QED
      BY <3>4
  <2>4. QED
    BY <1>7, <2>2, <2>3 DEF Errors
<1>9. CASE Return(r)
  <2>1. /\ runs'[r].ctl = "returned" /\ runs'[r].t = now
        /\ runs'[r].job = runs[r].job /\ runs'[r].exec = runs[r].exec
        /\ runs[r].ctl = "racing" /\ UNCHANGED <<now, header, jobs, alive>>
    BY <1>1, <1>3, <1>9 DEF Return
  <2>2. /\ Slack("racing") = ProgressDeadline + 2 * Latency
        /\ Slack("returned") = ProgressDeadline + 3 * Latency
    BY DEF Slack
  <2>3. QED
    BY <1>1, <2>1, <2>2, FineAdvance, Constants DEF Held, Controlling
<1>10. CASE CommitError(r) \/ CommitErrorFails(r)
  <2>1. runs'[r] = Settled(runs[r])
    BY <1>1, <1>10 DEF CommitError, CommitErrorFails
  <2>2. QED
    BY <2>1, SettledNotHeld, FineIfNotHeld
<1>11. ASSUME runs'[r].ctl = runs[r].ctl, runs'[r].t = runs[r].t, runs'[r].job = runs[r].job,
              runs'[r].exec = runs[r].exec, UNCHANGED <<now, header, jobs, alive>>
       PROVE  RunFine(r)'
  BY <1>1, <1>11 DEF RunFine, Fine
<1>12. CASE Pushback(r) /\ Owns(r)
  BY <1>1, <1>3, <1>11, <1>12 DEF Pushback
<1>13. CASE BodyEnds(r)
  <2>1. CASE runs[r].ctl = "zombie"
    BY <1>1, <1>4, <1>13, <2>1 DEF BodyEnds, WithoutBody
  <2>2. CASE runs[r].ctl = "failing"
    BY <1>1, <1>3, <1>11, <1>13, <2>2 DEF BodyEnds, WithoutBody
  <2>3. QED
    BY <1>13, <2>1, <2>2 DEF BodyEnds
<1>14. CASE Progress(r)
  <2> DEFINE h == header[runs[r].job]
             hn == Renewed(h, Clock(runs[r].exec))
  <2>1. /\ UNCHANGED <<now, jobs, alive>> /\ runs[r].job \in jobs /\ h.exec = runs[r].exec
        /\ header'[runs[r].job] = hn /\ h \in Header
    BY <1>1, <1>3, <1>14 DEF Progress, Owns, Core, HeadersGood
  <2>2. hn.exec = runs[r].exec /\ hn.at = Clock(runs[r].exec) + LostDeadline
    BY <2>1 DEF Renewed, Header
  <2>3. CASE runs[r].ctl # "racing"
    <3>1. runs'[r] = runs[r]
      BY <1>1, <1>14, <2>3 DEF Progress
    <3>2. Held(r) => alive[runs[r].exec]
      BY <1>1 DEF RunFine, Fine, Held
    <3>3. QED
      BY <2>1, <2>2, <3>1, <3>2, FineKept
  <2>4. CASE runs[r].ctl = "racing"
    <3>1. /\ runs'[r].ctl = "racing" /\ runs'[r].t = now + ProgressDeadline
          /\ runs'[r].job = runs[r].job /\ runs'[r].exec = runs[r].exec
      BY <1>1, <1>3, <1>14, <2>4 DEF Progress, Exclusion, ConfigKept
    <3>2. alive[runs[r].exec] /\ Skew[runs[r].exec] \in Nat
      BY <1>1, <1>3, <2>4, Constants DEF RunFine, Fine, Controlling
    <3>3. Slack("racing") = ProgressDeadline + 2 * Latency
      BY DEF Slack
    <3>4. hn.at - LostDeadline - Skew[runs[r].exec] = now
      BY <1>1, <2>2, <3>2, Constants DEF Clock
    <3>5. /\ now <= now + ProgressDeadline + Latency
          /\ now + ProgressDeadline <= now + (ProgressDeadline + 2 * Latency)
      BY <1>1, Constants
    <3>6. QED
      BY <2>1, <2>2, <3>1, <3>2, <3>3, <3>4, <3>5, <1>1, Constants DEF RunFine, Fine
  <2>5. QED
    BY <2>3, <2>4
<1>15. QED
  BY <1>5, <1>6, <1>8, <1>9, <1>10, <1>12, <1>13, <1>14 DEF RunStep

(* The picker starts or drops runs.                                        *)
LEMMA FinePicked ==
  ASSUME Exclusion, NEW e \in Executors, NEW s \in Runs,
         \/ \E c \in pick[e].cands, r \in Runs : Adopt(e, c, r) /\ r = s
         \/ EndPick(e) /\ runs'[s] # runs[s]
         \/ ((\E c \in pick[e].cands : PickFails(e, c)) \/ Crash(e)) /\ runs'[s] # runs[s]
  PROVE  RunFine(s)'
<1>1. /\ Core /\ TypeOK /\ runs \in [Runs -> Run] /\ now \in Nat
      /\ RunFine(s) /\ Idle.ctl \notin Controlling
      /\ header \in [Jobs -> Header]
  BY DEF Exclusion, Core, TypeOK, RunsFine, Idle, Controlling
<1>2. ASSUME NEW c \in pick[e].cands, Adopt(e, c, s)
      PROVE  RunFine(s)'
  <2>1. /\ runs'[s].ctl = "adopted" /\ runs'[s].t = now
        /\ runs'[s].job = c.job /\ runs'[s].exec = e
        /\ alive[e] /\ UNCHANGED <<now, jobs, alive>>
    BY <1>1, <1>2 DEF Adopt, Idle
  <2>2. c.job \in Jobs /\ Skew[e] \in Nat
    BY <1>1, Constants DEF TypeOK, Candidate
  <2>3. /\ header'[c.job].exec = e
        /\ header'[c.job].at = Clock(e) + LostDeadline
    BY <1>1, <1>2, <2>2 DEF Adopt, Adopted, Header
  <2>4. header'[c.job].at - LostDeadline - Skew[e] = now
    BY <1>1, <2>2, <2>3, Constants DEF Clock
  <2>5. Slack("adopted") = 0
    BY DEF Slack
  <2>6. now <= now + Latency /\ now <= now + 0
    BY <1>1, Constants
  <2>7. QED
    BY <1>1, <1>2, <2>1, <2>3, <2>4, <2>5, <2>6 DEF RunFine, Fine
<1>3. ASSUME EndPick(e), runs'[s] # runs[s]
      PROVE  RunFine(s)'
  <2>1. runs[s].ctl = "adopted" /\ runs'[s] = [runs[s] EXCEPT !.ctl = "starting", !.t = now]
        /\ UNCHANGED <<now, header, jobs, alive>>
    BY <1>1, <1>3 DEF EndPick
  <2>2. /\ runs'[s].ctl = "starting" /\ runs'[s].t = now
        /\ runs'[s].job = runs[s].job /\ runs'[s].exec = runs[s].exec
    BY <1>1, <2>1, RunShapes
  <2>3. Held(s) /\ runs'[s].ctl \in Controlling /\ runs'[s].ctl # "racing"
    BY <2>1, <2>2 DEF Held, Controlling
  <2>4. Slack(runs[s].ctl) = 0 /\ Slack(runs'[s].ctl) = Latency
    BY <2>1, <2>2 DEF Slack
  <2>5. /\ runs'[s].t \in Nat /\ now <= runs'[s].t
        /\ runs'[s].t <= now + 0
        /\ runs'[s].t - now + Latency + 0 <= Latency
    BY <1>1, <2>2, Constants
  <2>6. QED
    BY <2>1, <2>2, <2>3, <2>4, <2>5, FineAdvance
<1>4. ASSUME (\E c \in pick[e].cands : PickFails(e, c)) \/ Crash(e), runs'[s] # runs[s]
      PROVE  RunFine(s)'
  <2>1. runs'[s] = Idle
    BY <1>1, <1>4 DEF PickFails, Crash
  <2>2. QED
    BY <1>1, <2>1 DEF RunFine, Fine
<1>5. QED
  <2>1. ASSUME \E c \in pick[e].cands, r \in Runs : Adopt(e, c, r) /\ r = s
        PROVE  RunFine(s)'
    BY <2>1, <1>2
  <2>2. QED
    BY <2>1, <1>3, <1>4

(* Time passes only when no run is late for its step.                      *)
LEMMA FineTick ==
  ASSUME Exclusion, Timely, Tick, NEW s \in Runs
  PROVE  RunFine(s)'
<1>1. UNCHANGED <<jobs, header, runs, alive>> /\ now' = now + 1
  BY DEF Tick
<1> SUFFICES ASSUME Held(s)
             PROVE  Fine(runs[s], header[runs[s].job], runs[s].job \in jobs,
                         alive[runs[s].exec], now + 1)
  BY <1>1 DEF RunFine, Fine, Held
<1>2. Fine(runs[s], header[runs[s].job], runs[s].job \in jobs, alive[runs[s].exec], now)
  BY DEF Exclusion, RunsFine, RunFine
<1>3. runs[s].t \in Nat /\ now \in Nat
  BY HeldTypes DEF Exclusion
<1>4. now < runs[s].t + Latency
  BY DEF Timely, Held
<1>5. now + 1 <= runs[s].t + Latency
  BY <1>3, <1>4, Constants
<1>6. runs[s].t <= now + 1 + (IF runs[s].ctl = "racing" THEN ProgressDeadline ELSE 0)
  BY <1>2, <1>3, Constants DEF Fine, Held
<1>7. QED
  BY <1>2, <1>5, <1>6 DEF Fine, Held

(* A reset takes jobs from servers that are down, and they hold none.      *)
LEMMA FineReset ==
  ASSUME Exclusion, NEW d \in Executors, NEW e \in Executors,
         ~alive[e], ResetLostJobs(d, e), NEW s \in Runs
  PROVE  RunFine(s)'
<1>1. PICK S \in SUBSET JobsOf(e) :
        header' = [j \in Jobs |-> IF j \in S THEN Released(header[j], Clock(d)) ELSE header[j]]
  BY DEF ResetLostJobs
<1>2. UNCHANGED <<now, jobs, runs, alive>>
  BY DEF ResetLostJobs
<1>3. Held(s) => runs[s].job \in Jobs /\ alive[runs[s].exec]
  BY HeldTypes DEF Exclusion, RunsFine, RunFine, Fine, Held
<1>4. Held(s) => runs[s].job \notin S
  BY <1>1, DownNotHeld DEF JobsOf
<1>5. Held(s) => header'[runs[s].job] = header[runs[s].job]
  BY <1>1, <1>3, <1>4
<1>6. QED
  BY <1>2, <1>3, <1>5, FineKept

(* Every step leaves each run inside the lease of its job.                 *)
LEMMA RunsFineStep ==
  ASSUME Exclusion, GoodTiming, [TimelyNext]_vars
  PROVE  RunsFine'
<1> SUFFICES ASSUME NEW s \in Runs PROVE RunFine(s)'
  BY DEF RunsFine
<1>1. CASE SystemNext
  <2>1. CASE RunStep(s)
    BY <2>1, FineRunStep
  <2>2. CASE runs'[s] = runs[s] /\ ~RunStep(s)
    BY <1>1, <2>2, FineOutside
  <2>3. CASE runs'[s] # runs[s] /\ ~RunStep(s)
    <3>1. runs \in [Runs -> Run]
      BY DEF Exclusion, Core, TypeOK
    <3>2. ASSUME NEW r \in Runs, RunStep(r) PROVE FALSE
      BY <2>3, <3>1, <3>2, OthersStay
    <3>3. PICK e \in Executors : PickStep(e) \/ Crash(e)
      BY <1>1, <2>3, <3>2 DEF SystemNext, Restart, Clear
    <3>4. \/ \E c \in pick[e].cands, r \in Runs : Adopt(e, c, r) /\ r = s
          \/ EndPick(e) \/ (\E c \in pick[e].cands : PickFails(e, c)) \/ Crash(e)
      <4>1. ASSUME NEW c \in pick[e].cands, NEW r \in Runs, Adopt(e, c, r)
            PROVE  r = s
        BY <2>3, <3>1, <4>1 DEF Adopt
      <4>2. ASSUME NEW c, RefuseOwn(e, c) \/ Skip(e, c) \/ Conflict(e, c) \/ AdoptLate(e, c)
            PROVE  FALSE
        BY <2>3, <4>2 DEF RefuseOwn, Skip, Conflict, AdoptLate
      <4>3. ~Scan(e)
        BY <2>3 DEF Scan
      <4>4. QED
        BY <3>3, <4>1, <4>2, <4>3 DEF PickStep
    <3>5. QED
      BY <2>3, <3>4, FinePicked
  <2>4. QED
    BY <2>1, <2>2, <2>3
<1>2. ASSUME NEW d \in Executors, NEW e \in Executors, ~alive[e], ResetLostJobs(d, e)
      PROVE  RunFine(s)'
  BY <1>2, FineReset
<1>3. CASE Timely /\ Tick
  BY <1>3, FineTick
<1>4. CASE UNCHANGED vars
  BY <1>4 DEF vars, Exclusion, RunsFine, RunFine, Fine
<1>5. QED
  BY <1>1, <1>2, <1>3, <1>4 DEF TimelyNext

(***************************************************************************)
(* The theorem.                                                            *)
(***************************************************************************)

(* The inductive invariant holds initially.                                *)
LEMMA ExclusionInit == Init /\ GoodTiming => Exclusion
<1> SUFFICES ASSUME Init PROVE Exclusion
  OBVIOUS
<1>1. ConfigKept
  BY DEF Init, FreshHeaders, ConfigKept
<1>2. \A r \in Runs : ~Held(r)
  BY DEF Init, Idle, Held, Controlling
<1>3. OneRun /\ RunsFine
  BY <1>2 DEF OneRun, RunsFine, RunFine, Fine, Held
<1>4. QED
  BY <1>1, <1>3, CoreInit DEF Exclusion

(* Every timely step keeps the inductive invariant.                        *)
LEMMA ExclusionStep == GoodTiming /\ Exclusion /\ [TimelyNext]_vars => Exclusion'
<1> SUFFICES ASSUME GoodTiming, Exclusion, [TimelyNext]_vars PROVE Exclusion'
  OBVIOUS
<1>1. [Next]_vars
  BY DEF TimelyNext, Next
<1>2. Core'
  BY <1>1, CoreStep DEF Exclusion
<1>3. ConfigKept'
  BY <1>1, ConfigKeptStep DEF Exclusion
<1>4. OneRun'
  BY <1>1, OneRunStep
<1>5. RunsFine'
  BY RunsFineStep
<1>6. QED
  BY <1>2, <1>3, <1>4, <1>5 DEF Exclusion

(* No two runs ever work on one job: when no server stalls longer than     *)
(* Latency, the ring suspects only servers that are down, and a lease      *)
(* outlasts the progress deadline and five latencies on every clock.       *)
THEOREM Exclusivity ==
  ASSUME GoodTiming
  PROVE  TimelySpec => []Exclusive
<1>1. Init => Exclusion
  BY ExclusionInit
<1>2. Exclusion /\ [TimelyNext]_vars => Exclusion'
  BY ExclusionStep
<1>3. Exclusion => Exclusive
  BY ExclusionExclusive
<1>4. QED
  BY <1>1, <1>2, <1>3, PTL DEF TimelySpec

=============================================================================
