------------------------- MODULE WorkflowCore_proofs -------------------------
(***************************************************************************)
(* Proofs about WorkflowCore, for every number of servers, jobs and runs,  *)
(* every configuration of the jobs and every skew of the clocks.           *)
(***************************************************************************)
EXTENDS WorkflowCore, TLAPS

(***************************************************************************)
(* Headers                                                                 *)
(***************************************************************************)

(* What every rewriting of a header preserves: its type, that it is        *)
(* reachable by a scan while it is owned, and its retry ledger.            *)
Good(h) ==
  /\ h \in Header
  /\ h.exec # None => h.at >= 1
  /\ Balanced(h)

Moment == Nat \ {0}

(* A job as it is enqueued is good.                                        *)
LEMMA FreshGood ==
  ASSUME NEW h \in FreshHeaders(1)
  PROVE  Good(h)
<1>1. PICK endless \in Endless :
        h = [at |-> 1, exec |-> None, progress |-> ProgressDeadline,
             max |-> MaxRetries, backoff |-> BackoffAt[0], initial |-> NoSnapshot,
             repeat |-> Occurrences, forever |-> endless]
  BY DEF FreshHeaders
<1>2. QED
  BY <1>1, HeaderAssumption DEF Good, Header, Snapshot, NoSnapshot, Balanced

(* A rewriting that leaves the retry policy alone.                         *)
LEMMA PolicyKeptGood ==
  ASSUME NEW h, Good(h), NEW g \in Header,
         g.max = h.max, g.backoff = h.backoff, g.initial = h.initial,
         g.exec # None => g.at >= 1
  PROVE  Good(g)
BY DEF Good, Balanced

(* The rewritings of a picker, and the renewal of a lease.                 *)
LEMMA LeaseGood ==
  ASSUME NEW h, Good(h), NEW e \in Executors, NEW clk \in Moment
  PROVE  /\ Good(Adopted(h, e, clk))
         /\ Good(Pushed(h, clk))
         /\ Good(Released(h, clk))
         /\ Good(Renewed(h, clk))
<1>0. h \in Header /\ clk \in Nat /\ clk >= 1
  BY DEF Good, Moment
<1>1. Good(Adopted(h, e, clk))
  <2>1. RepairedProgress(h) \in Nat \ {0}
    BY <1>0, HeaderAssumption DEF RepairedProgress, Header
  <2>2. clk + LostDeadline \in Int /\ clk + LostDeadline >= 1
    BY <1>0, HeaderAssumption
  <2>3. Adopted(h, e, clk) \in Header
    BY <1>0, <2>1, <2>2 DEF Adopted, Header
  <2>4. Adopted(h, e, clk).at = clk + LostDeadline
    BY <1>0 DEF Adopted, Header
  <2>5. QED
    BY <1>0, <2>2, <2>3, <2>4, PolicyKeptGood DEF Adopted, Header
<1>2. Good(Pushed(h, clk))
  <2>1. clk + SelfAdoptPush \in Int /\ clk + SelfAdoptPush >= 1
    BY <1>0, HeaderAssumption
  <2>2. Pushed(h, clk) \in Header /\ Pushed(h, clk).at = clk + SelfAdoptPush
    BY <1>0, <2>1 DEF Pushed, Header
  <2>3. QED
    BY <1>0, <2>1, <2>2, PolicyKeptGood DEF Pushed, Header
<1>3. Good(Released(h, clk))
  <2>1. Released(h, clk).exec = None
    BY <1>0 DEF Released, Header
  <2>2. clk \in Int
    BY <1>0
  <2>3. Released(h, clk) \in Header
    BY <1>0, <2>2 DEF Released, Header
  <2>4. QED
    BY <1>0, <2>1, <2>3, PolicyKeptGood DEF Released, Header
<1>4. Good(Renewed(h, clk))
  <2>1. clk + LostDeadline \in Int /\ clk + LostDeadline >= 1
    BY <1>0, HeaderAssumption
  <2>2. Renewed(h, clk) \in Header /\ Renewed(h, clk).at = clk + LostDeadline
    BY <1>0, <2>1 DEF Renewed, Header
  <2>3. QED
    BY <1>0, <2>1, <2>2, PolicyKeptGood DEF Renewed, Header
<1>5. QED
  BY <1>1, <1>2, <1>3, <1>4

(* The finished job has no owner and a non-positive `at`.                  *)
LEMMA FinishedGood ==
  ASSUME NEW h, Good(h)
  PROVE  Good(Finished(h))
<1>0. h \in Header
  BY DEF Good
<1>1. (IF h.at > 0 THEN -h.at ELSE h.at) \in Int
  BY <1>0 DEF Header
<1>2. Finished(h) \in Header
  BY <1>0, <1>1 DEF Finished, Header
<1>3. Finished(h).exec = None
  BY <1>0 DEF Finished, Header
<1>4. QED
  BY <1>0, <1>2, <1>3, PolicyKeptGood DEF Finished, Header

(* The next occurrence of a job has a good header.                         *)
LEMMA NextOccurrenceGood ==
  ASSUME NEW h, Good(h), NEW clk \in Moment, Recurs(h)
  PROVE  Good(NextOccurrence(h, clk))
<1>0. h \in Header /\ clk \in Nat
  BY DEF Good, Moment
<1>1. /\ (IF h.forever THEN h.repeat ELSE h.repeat - 1) \in 0..Occurrences
      /\ clk + Period \in Int
  BY <1>0, HeaderAssumption DEF Recurs, Header
<1>2. NextOccurrence(h, clk) \in Header /\ NextOccurrence(h, clk).exec = None
  BY <1>0, <1>1 DEF NextOccurrence, Header
<1>3. QED
  BY <1>0, <1>2, PolicyKeptGood DEF NextOccurrence, Header

(* A job that ran out of retries has a good header.                        *)
LEMMA RepeatOrFinishGood ==
  ASSUME NEW h, Good(h), NEW clk \in Moment
  PROVE  Good(RepeatOrFinish(h, clk))
BY FinishedGood, NextOccurrenceGood DEF RepeatOrFinish

(* Restoring the budget makes the ledger the configured one again.         *)
LEMMA RestoredRetriesGood ==
  ASSUME NEW h, Good(h)
  PROVE  Good(RestoredRetries(h))
<1>1. CASE h.initial = NoSnapshot
  BY <1>1 DEF RestoredRetries
<1>2. CASE h.initial # NoSnapshot
  <2>1. h.initial = [max |-> MaxRetries, backoff |-> BackoffAt[0]]
    BY <1>2 DEF Good, Balanced
  <2>2. RestoredRetries(h) =
          [h EXCEPT !.max = MaxRetries, !.backoff = BackoffAt[0], !.initial = NoSnapshot]
    BY <1>2, <2>1 DEF RestoredRetries
  <2>3. h \in Header /\ (h.exec # None => h.at >= 1)
    BY DEF Good
  <2>4. MaxRetries \in 0..MaxRetries /\ BackoffAt[0] \in Nat \ {0} /\ NoSnapshot \in Snapshot
    BY HeaderAssumption DEF Snapshot
  <2>5. RestoredRetries(h) \in Header
    BY <2>2, <2>3, <2>4 DEF Header
  <2>6. /\ RestoredRetries(h).initial = NoSnapshot
        /\ RestoredRetries(h).max = MaxRetries
        /\ RestoredRetries(h).backoff = BackoffAt[0]
        /\ RestoredRetries(h).exec = h.exec
        /\ RestoredRetries(h).at = h.at
    BY <2>2, <2>3 DEF Header
  <2>7. QED
    BY <2>3, <2>5, <2>6 DEF Good, Balanced
<1>3. QED
  BY <1>1, <1>2

(* The success transaction writes a good header.                           *)
LEMMA AfterSuccessGood ==
  ASSUME NEW h, Good(h), NEW result \in Nat, NEW clk \in Moment
  PROVE  Good(AfterSuccess(h, result, clk))
<1>1. CASE result # 0
  <2>1. h \in Header /\ result \in Int
    BY DEF Good
  <2>2. AfterSuccess(h, result, clk) = [h EXCEPT !.at = result, !.exec = None]
    BY <1>1 DEF AfterSuccess
  <2>3. AfterSuccess(h, result, clk) \in Header
    BY <2>1, <2>2 DEF Header
  <2>4. AfterSuccess(h, result, clk).exec = None
    BY <2>1, <2>2 DEF Header
  <2>5. QED
    BY <2>1, <2>2, <2>3, <2>4, PolicyKeptGood DEF Header
<1>2. CASE result = 0 /\ Recurs(h)
  BY <1>2, NextOccurrenceGood, RestoredRetriesGood DEF AfterSuccess
<1>3. CASE result = 0 /\ ~Recurs(h)
  BY <1>3, FinishedGood DEF AfterSuccess
<1>4. QED
  BY <1>1, <1>2, <1>3

(* One retry moves the ledger one entry on.                                *)
LEMMA RetriedGood ==
  ASSUME NEW h, Good(h), NEW clk \in Moment, h.max > 0
  PROVE  Good(Retried(h, clk))
<1> DEFINE k == MaxRetries - h.max
           configured == [max |-> MaxRetries, backoff |-> BackoffAt[0]]
<1>1. h \in Header /\ Balanced(h)
  BY DEF Good
<1>2. h.max \in 1..MaxRetries /\ h.backoff \in Nat \ {0} /\ clk + h.backoff \in Int
  BY <1>1 DEF Header, Moment
<1> MaxRetries \in Nat
  BY HeaderAssumption
<1>3. k \in 0..MaxRetries /\ k < MaxRetries /\ k + 1 \in 0..MaxRetries
  BY <1>2
<1>4. h.backoff = BackoffAt[k]
  <2>1. CASE h.initial = NoSnapshot
    <3>1. h.max = MaxRetries /\ h.backoff = BackoffAt[0]
      BY <1>1, <2>1 DEF Balanced
    <3>2. k = 0
      BY <3>1, HeaderAssumption
    <3>3. QED
      BY <3>1, <3>2
  <2>2. CASE h.initial # NoSnapshot
    BY <1>1, <2>2 DEF Balanced
  <2>3. QED
    BY <2>1, <2>2
<1>5. h.backoff * Exponent = BackoffAt[k + 1] /\ BackoffAt[k + 1] \in Nat \ {0}
  BY <1>3, <1>4, HeaderAssumption
<1>6. Retried(h, clk).initial = configured
  <2>1. CASE h.initial = NoSnapshot
    BY <2>1, <1>1 DEF Retried, Header, Balanced
  <2>2. CASE h.initial # NoSnapshot
    BY <2>2, <1>1 DEF Retried, Header, Balanced
  <2>3. QED
    BY <2>1, <2>2
<1>7. configured \in Snapshot /\ configured # NoSnapshot
  <2>1. MaxRetries \in 1..MaxRetries /\ BackoffAt[0] \in Nat \ {0}
    BY <1>2, HeaderAssumption
  <2>2. QED
    BY <2>1 DEF Snapshot, NoSnapshot
<1>8. /\ Retried(h, clk).max = h.max - 1
      /\ Retried(h, clk).backoff = BackoffAt[k + 1]
      /\ Retried(h, clk).exec = None
  BY <1>1, <1>5 DEF Retried, Header
<1>9. MaxRetries - (h.max - 1) = k + 1 /\ h.max - 1 < MaxRetries /\ h.max - 1 \in 0..MaxRetries
  BY <1>2
<1>10. Balanced(Retried(h, clk))
  BY <1>6, <1>7, <1>8, <1>9 DEF Balanced
<1>11. Retried(h, clk) = [h EXCEPT !.initial = configured, !.max = h.max - 1,
           !.at = clk + h.backoff, !.backoff = BackoffAt[k + 1], !.exec = None]
  <2>1. Retried(h, clk) = [h EXCEPT !.initial = Retried(h, clk).initial, !.max = h.max - 1,
           !.at = clk + h.backoff, !.backoff = h.backoff * Exponent, !.exec = None]
    BY <1>1 DEF Retried, Header
  <2>2. QED
    BY <2>1, <1>5, <1>6
<1>12. Retried(h, clk) \in Header
  BY <1>1, <1>2, <1>5, <1>7, <1>9, <1>11 DEF Header
<1>13. QED
  BY <1>8, <1>10, <1>12 DEF Good

(* The error transaction writes a good header, whatever the error.         *)
LEMMA AfterErrorGood ==
  ASSUME NEW h, Good(h), NEW err \in Errors, NEW clk \in Moment
  PROVE  Good(AfterError(h, err, clk))
<1>0. h.max \in Nat
  BY HeaderAssumption DEF Good, Header
<1>1. CASE err = "vanished"
  BY <1>1, FinishedGood DEF AfterError
<1>2. CASE err = "recoverable"
  BY <1>0, <1>2, RetriedGood, RepeatOrFinishGood DEF AfterError
<1>3. CASE err = "readopted"
  BY <1>3 DEF AfterError
<1>4. CASE err = "fatal"
  BY <1>4, RepeatOrFinishGood DEF AfterError
<1>5. QED
  BY <1>1, <1>2, <1>3, <1>4 DEF Errors

(***************************************************************************)
(* The invariant: every variable has its type, every header is good, and   *)
(* what a pick still holds was due when it was scanned.  Clocks only go    *)
(* forward, so it is due for its picker from then on; this is what makes   *)
(* an adoption that finds `at` unchanged the adoption of a lease that ran  *)
(* out.                                                                    *)
(***************************************************************************)
HeadersGood == header \in [Jobs -> Header] /\ \A j \in Jobs : Good(header[j])

CandidatesDue ==
  \A e \in Executors : \A c \in pick[e].cands \cup pick[e].late : c.at < Clock(e)

Core == TypeOK /\ HeadersGood /\ CandidatesDue

(* Every clock shows a moment.                                             *)
LEMMA ClockMoment ==
  ASSUME TypeOK, NEW e \in Executors
  PROVE  Clock(e) \in Moment
BY CoreAssumption DEF TypeOK, Clock, Moment

(* A run that is not free has a job and an executor.                       *)
LEMMA BusyRun ==
  ASSUME TypeOK, NEW r \in Runs, runs[r].ctl # "free"
  PROVE  /\ runs[r].job \in Jobs /\ runs[r].exec \in Executors
         /\ runs[r].result \in Nat /\ runs[r].err \in Errors
         /\ runs[r].t \in Nat /\ runs[r].push \in Nat
         /\ Clock(runs[r].exec) \in Moment
<1>1. runs[r] \in Run /\ runs[r] # Idle
  BY DEF TypeOK, Idle
<1>2. runs[r].exec \in Executors
  BY <1>1 DEF Run
<1>3. QED
  BY <1>1, <1>2, ClockMoment DEF Run

(* A run whose body is on is not free.                                     *)
LEMMA BodyBusy ==
  ASSUME TypeOK, NEW r \in Runs, runs[r].body
  PROVE  runs[r].ctl # "free"
<1>1. runs[r] \in Run /\ runs[r] # Idle
  BY DEF TypeOK, Idle
<1>2. QED
  BY <1>1 DEF Run, Controlling

(* Rewriting one header into a good one.                                   *)
LEMMA HeaderSet ==
  ASSUME HeadersGood, NEW j \in Jobs, NEW g, Good(g),
         header' = [header EXCEPT ![j] = g]
  PROVE  HeadersGood'
<1>1. g \in Header
  BY DEF Good
<1>2. header' \in [Jobs -> Header]
  BY <1>1 DEF HeadersGood
<1>3. ASSUME NEW k \in Jobs PROVE Good(header'[k])
  <2>1. CASE k = j
    BY <2>1 DEF HeadersGood
  <2>2. CASE k # j
    BY <2>2 DEF HeadersGood
  <2>3. QED
    BY <2>1, <2>2
<1>4. QED
  BY <1>2, <1>3 DEF HeadersGood, Good

(* Every step rewrites headers into good ones.                             *)
LEMMA HeadersStep ==
  ASSUME Core, [Next]_vars
  PROVE  HeadersGood'
<1> USE DEF Core
<1>1. ASSUME NEW e \in Executors, NEW c \in pick[e].cands \cup pick[e].late
      PROVE  c.job \in Jobs /\ c.at \in Nat \ {0} /\ Clock(e) \in Moment
  BY <1>1, ClockMoment DEF TypeOK, Candidate
<1>2. ASSUME header' = header PROVE HeadersGood'
  BY <1>2 DEF HeadersGood, Good
<1>3. ASSUME NEW j \in Jobs PROVE Good(header[j])
  BY DEF HeadersGood
<1>4. ASSUME NEW e \in Executors, NEW c \in pick[e].cands, NEW r \in Runs, Adopt(e, c, r)
      PROVE  HeadersGood'
  BY <1>1, <1>3, <1>4, LeaseGood, HeaderSet DEF Adopt
<1>5. ASSUME NEW e \in Executors, NEW c \in pick[e].late, AdoptLate(e, c)
      PROVE  HeadersGood'
  BY <1>1, <1>3, <1>5, LeaseGood, HeaderSet DEF AdoptLate
<1>6. ASSUME NEW e \in Executors, NEW c \in pick[e].cands \cup pick[e].late, RefuseOwn(e, c)
      PROVE  HeadersGood'
  BY <1>1, <1>3, <1>6, LeaseGood, HeaderSet DEF RefuseOwn
<1>7. ASSUME NEW r \in Runs, Progress(r)
      PROVE  HeadersGood'
  <2>1. runs[r].job \in Jobs /\ runs[r].exec \in Executors /\ Clock(runs[r].exec) \in Moment
    BY <1>7, BusyRun, BodyBusy DEF Progress
  <2>2. QED
    BY <1>3, <1>7, <2>1, LeaseGood, HeaderSet DEF Progress
<1>8. ASSUME NEW r \in Runs, CommitSuccess(r)
      PROVE  HeadersGood'
  <2>1. runs[r].job \in Jobs /\ runs[r].result \in Nat /\ Clock(runs[r].exec) \in Moment
    BY <1>8, BusyRun DEF CommitSuccess
  <2>2. CASE Owns(r)
    BY <1>3, <1>8, <2>1, <2>2, AfterSuccessGood, HeaderSet DEF CommitSuccess
  <2>3. CASE ~Owns(r)
    BY <1>2, <1>8, <2>3 DEF CommitSuccess
  <2>4. QED
    BY <2>2, <2>3
<1>9. ASSUME NEW r \in Runs, CommitError(r)
      PROVE  HeadersGood'
  <2>1. runs[r].job \in Jobs /\ runs[r].err \in Errors /\ Clock(runs[r].exec) \in Moment
    BY <1>9, BusyRun DEF CommitError
  <2>2. CASE runs[r].job \in jobs
    BY <1>3, <1>9, <2>1, <2>2, AfterErrorGood, HeaderSet DEF CommitError
  <2>3. CASE runs[r].job \notin jobs
    BY <1>2, <1>9, <2>3 DEF CommitError
  <2>4. QED
    BY <2>2, <2>3
<1>10. ASSUME NEW d \in Executors, NEW e \in Executors, ResetLostJobs(d, e)
       PROVE  HeadersGood'
  <2>1. PICK S \in SUBSET JobsOf(e) :
          header' = [j \in Jobs |-> IF j \in S THEN Released(header[j], Clock(d)) ELSE header[j]]
    BY <1>10 DEF ResetLostJobs
  <2>2. Clock(d) \in Moment
    BY ClockMoment
  <2>3. ASSUME NEW j \in Jobs PROVE Good(header'[j])
    BY <1>3, <2>1, <2>2, LeaseGood
  <2>4. \A j \in Jobs : header'[j] \in Header
    BY <2>3 DEF Good
  <2>5. header' \in [Jobs -> Header]
    BY <2>1, <2>4
  <2>6. QED
    BY <2>3, <2>5 DEF HeadersGood, Good
<1>11. CASE UNCHANGED header
  BY <1>2, <1>11
<1>12. QED
  BY <1>4, <1>5, <1>6, <1>7, <1>8, <1>9, <1>10, <1>11
     DEF Next, SystemNext, PickStep, RunStep, Scan, Skip, Conflict, PickFails, EndPick, GetJob, StartFails,
         ProgressThrows, Pushback, PushbackFails, ProgressDeadlineFires, Return, Throw, BodyEnds,
         CommitSuccessFails, CommitErrorFails, Clear, Crash, Restart, Tick, vars

(* Changing one run into a run.                                            *)
LEMMA RunSet ==
  ASSUME TypeOK, NEW r \in Runs, NEW run \in Run,
         runs' = [runs EXCEPT ![r] = run]
  PROVE  runs' \in [Runs -> Run]
BY DEF TypeOK

(* The shapes a run that is not free can take.                             *)
LEMMA RunShapes ==
  ASSUME TypeOK, NEW r \in Runs, runs[r].ctl # "free"
  PROVE  /\ runs[r] \in [ctl : Controlling \cup {"zombie"}, job : Jobs, exec : Executors,
                          t : Nat, push : Nat, body : BOOLEAN, result : Nat, err : Errors]
         /\ \A err \in Errors : Failing(runs[r], err) \in Run
         /\ \A err \in Errors : [Failing(runs[r], err) EXCEPT !.body = FALSE] \in Run
         /\ \A err \in Errors : [Failing(runs[r], err) EXCEPT !.result = 0] \in Run
         /\ WithoutBody(runs[r]) \in Run
         /\ Settled(runs[r]) \in Run
<1> DEFINE Busy == [ctl : Controlling \cup {"zombie"}, job : Jobs, exec : Executors,
                    t : Nat, push : Nat, body : BOOLEAN, result : Nat, err : Errors]
<1>1. runs[r] \in Busy /\ now \in Nat
  BY DEF TypeOK, Run, Idle
<1>2. Busy \subseteq Run /\ Idle \in Run
  BY DEF Run
<1>3. "failing" \in Controlling \cup {"zombie"} /\ "zombie" \in Controlling \cup {"zombie"}
  BY DEF Controlling
<1>4. ASSUME NEW err \in Errors
      PROVE  /\ Failing(runs[r], err) \in Busy
             /\ [Failing(runs[r], err) EXCEPT !.body = FALSE] \in Busy
             /\ [Failing(runs[r], err) EXCEPT !.result = 0] \in Busy
  BY <1>1, <1>3 DEF Failing
<1>5. [runs[r] EXCEPT !.body = FALSE] \in Busy
  BY <1>1
<1>6. [Idle EXCEPT !.ctl = "zombie", !.job = runs[r].job, !.exec = runs[r].exec, !.body = TRUE] \in Busy
  BY <1>1, <1>3 DEF Idle, Errors
<1>7. WithoutBody(runs[r]) \in Run /\ Settled(runs[r]) \in Run
  BY <1>2, <1>5, <1>6 DEF WithoutBody, Settled
<1>8. QED
  BY <1>1, <1>2, <1>4, <1>7

(* Every step changes runs into runs.                                      *)
LEMMA RunsStep ==
  ASSUME Core, [Next]_vars
  PROVE  runs' \in [Runs -> Run]
<1> DEFINE Busy == [ctl : Controlling \cup {"zombie"}, job : Jobs, exec : Executors,
                    t : Nat, push : Nat, body : BOOLEAN, result : Nat, err : Errors]
<1>1. TypeOK /\ now \in Nat \ {0} /\ runs \in [Runs -> Run] /\ Idle \in Run
  BY DEF Core, TypeOK, Run
<1>2. ASSUME NEW e \in Executors, NEW c \in pick[e].cands, NEW r \in Runs, Adopt(e, c, r)
      PROVE  runs' \in [Runs -> Run]
  <2>1. c.job \in Jobs
    BY <1>1 DEF TypeOK, Candidate
  <2>2. [Idle EXCEPT !.ctl = "adopted", !.job = c.job, !.exec = e, !.t = now] \in Run
    BY <1>1, <2>1 DEF Idle, Run, Controlling, Errors
  <2>3. QED
    BY <1>1, <1>2, <2>2, RunSet DEF Adopt
<1>3. ASSUME NEW e \in Executors, NEW c \in pick[e].cands, PickFails(e, c)
      PROVE  runs' \in [Runs -> Run]
  BY <1>1, <1>3 DEF PickFails
<1>4. ASSUME NEW e \in Executors, EndPick(e)
      PROVE  runs' \in [Runs -> Run]
  <2>1. ASSUME NEW r \in Runs, runs[r].ctl = "adopted"
        PROVE  [runs[r] EXCEPT !.ctl = "starting", !.t = now] \in Run
    <3>1. runs[r] \in Busy
      BY <1>1, <2>1, RunShapes
    <3>2. QED
      BY <1>1, <3>1 DEF Run, Controlling
  <2>2. QED
    BY <1>1, <1>4, <2>1 DEF EndPick
<1>5. ASSUME NEW r \in Runs, GetJob(r)
      PROVE  runs' \in [Runs -> Run]
  <2>1. runs[r] \in Busy /\ runs[r].job \in Jobs
    BY <1>1, <1>5, RunShapes DEF GetJob
  <2>2. header[runs[r].job].progress \in Nat
    BY <2>1 DEF Core, TypeOK, Header
  <2>3. now + header[runs[r].job].progress \in Nat
    BY <1>1, <2>2
  <2>4. [runs[r] EXCEPT !.ctl = "racing", !.body = TRUE,
                        !.t = now + header[runs[r].job].progress] \in Run
    BY <2>1, <2>3 DEF Run, Controlling
  <2>5. QED
    BY <1>1, <1>5, <2>4 DEF GetJob
<1>6. ASSUME NEW r \in Runs, Progress(r)
      PROVE  runs' \in [Runs -> Run]
  <2>1. runs[r] \in Busy /\ runs[r].job \in Jobs
    BY <1>1, <1>6, RunShapes, BodyBusy DEF Progress
  <2>2. header[runs[r].job].progress \in Nat /\ PushbackDelay \in Nat
    BY <2>1, CoreAssumption DEF Core, TypeOK, Header
  <2>3. now + header[runs[r].job].progress \in Nat /\ now + PushbackDelay \in Nat
    BY <1>1, <2>2
  <2>4. [runs[r] EXCEPT !.t = now + header[runs[r].job].progress,
                        !.push = now + PushbackDelay] \in Run
    BY <2>1, <2>3 DEF Run
  <2>5. QED
    BY <1>1, <1>6, <2>4 DEF Progress
<1>7. ASSUME NEW r \in Runs, ProgressThrows(r) \/ Pushback(r) \/ PushbackFails(r) \/ ProgressDeadlineFires(r) \/ Throw(r)
      PROVE  runs' \in [Runs -> Run]
  <2>1. runs[r] \in Busy /\ runs[r].ctl # "free"
    BY <1>1, <1>7, RunShapes DEF ProgressThrows, Pushback, PushbackFails, ProgressDeadlineFires, Throw
  <2>2. LostError(r) \in Errors /\ "recoverable" \in Errors
    BY DEF LostError, Errors
  <2>3. [runs[r] EXCEPT !.push = now + PushbackDelay] \in Run
    BY <1>1, <2>1, CoreAssumption DEF Run
  <2>4. QED
    BY <1>1, <1>7, <2>1, <2>2, <2>3, RunShapes
       DEF ProgressThrows, Pushback, PushbackFails, ProgressDeadlineFires, Throw
<1>8. ASSUME NEW r \in Runs, Return(r)
      PROVE  runs' \in [Runs -> Run]
  <2>1. runs[r] \in Busy /\ Clock(runs[r].exec) \in Nat
    BY <1>1, <1>8, RunShapes, BusyRun DEF Return, Moment
  <2>2. PICK d \in Results :
          runs' = [runs EXCEPT ![r] = [runs[r] EXCEPT
                     !.ctl = "returned", !.body = FALSE, !.t = now, !.push = 0,
                     !.result = IF d = 0 THEN 0 ELSE Clock(runs[r].exec) + d]]
    BY <1>8 DEF Return
  <2>3. (IF d = 0 THEN 0 ELSE Clock(runs[r].exec) + d) \in Nat
    BY <2>1, CoreAssumption
  <2>4. [runs[r] EXCEPT !.ctl = "returned", !.body = FALSE, !.t = now, !.push = 0,
                        !.result = IF d = 0 THEN 0 ELSE Clock(runs[r].exec) + d] \in Run
    BY <1>1, <2>1, <2>3 DEF Run, Controlling
  <2>5. QED
    BY <1>1, <2>2, <2>4
<1>9. ASSUME NEW r \in Runs, BodyEnds(r) \/ CommitError(r) \/ CommitErrorFails(r) \/ CommitSuccessFails(r)
      PROVE  runs' \in [Runs -> Run]
  <2>1. runs[r].ctl # "free"
    BY <1>9 DEF BodyEnds, CommitError, CommitErrorFails, CommitSuccessFails
  <2>2. "recoverable" \in Errors
    BY DEF Errors
  <2>3. QED
    BY <1>1, <1>9, <2>1, <2>2, RunShapes
       DEF BodyEnds, CommitError, CommitErrorFails, CommitSuccessFails
<1>10. ASSUME NEW r \in Runs, StartFails(r) \/ CommitSuccess(r)
       PROVE  runs' \in [Runs -> Run]
  BY <1>1, <1>10 DEF StartFails, CommitSuccess
<1>11. ASSUME NEW e \in Executors, Crash(e)
       PROVE  runs' \in [Runs -> Run]
  BY <1>1, <1>11 DEF Crash
<1>12. CASE UNCHANGED runs
  BY <1>1, <1>12
<1>13. QED
  BY <1>2, <1>3, <1>4, <1>5, <1>6, <1>7, <1>8, <1>9, <1>10, <1>11, <1>12
     DEF Next, SystemNext, PickStep, RunStep, Scan, AdoptLate, RefuseOwn, Skip, Conflict,
         Clear, Restart, ResetLostJobs, Tick, vars

(* Every step keeps what a pick holds typed and due.                       *)
LEMMA PickStepDue ==
  ASSUME Core, [Next]_vars
  PROVE  /\ pick' \in [Executors -> [on : BOOLEAN, cands : SUBSET Candidate,
                                      late : SUBSET Candidate]]
         /\ CandidatesDue'
<1> DEFINE PickType == [on : BOOLEAN, cands : SUBSET Candidate, late : SUBSET Candidate]
           Held(p) == p.cands \cup p.late
           Goal == pick' \in [Executors -> PickType] /\ CandidatesDue'
<1>1. /\ now \in Nat /\ pick \in [Executors -> PickType]
      /\ header \in [Jobs -> Header] /\ jobs \in SUBSET Jobs
      /\ \A e \in Executors : Clock(e) \in Nat
      /\ \A e \in Executors : \A c \in Held(pick[e]) : c.at < Clock(e)
  BY CoreAssumption DEF Core, TypeOK, CandidatesDue, Clock
<1>2. ASSUME NEW e \in Executors, NEW p \in PickType, now' = now,
             pick' = [pick EXCEPT ![e] = p], \A c \in Held(p) : c.at < Clock(e)
      PROVE  Goal
  <2>1. pick' \in [Executors -> PickType]
    BY <1>1, <1>2
  <2>2. ASSUME NEW d \in Executors, NEW c \in pick'[d].cands \cup pick'[d].late
        PROVE  c.at < now' + Skew[d]
    BY <1>1, <1>2, <2>2 DEF Clock
  <2>3. QED
    BY <2>1, <2>2 DEF CandidatesDue, Clock
<1>3. ASSUME NEW e \in Executors, Scan(e)
      PROVE  Goal
  <2>1. PICK S \in SUBSET Due(e) :
          pick' = [pick EXCEPT ![e].on = TRUE,
                               ![e].cands = {[job |-> j, at |-> header[j].at] : j \in S}]
    BY <1>3 DEF Scan
  <2> DEFINE p == [pick[e] EXCEPT !.on = TRUE,
                                  !.cands = {[job |-> j, at |-> header[j].at] : j \in S}]
  <2>2. \A j \in S : [job |-> j, at |-> header[j].at] \in Candidate /\ header[j].at < Clock(e)
    BY <1>1 DEF Due, Candidate, Header
  <2>3. pick[e] \in PickType
    BY <1>1
  <2>4. p \in PickType
    BY <2>2, <2>3
  <2>5. \A c \in Held(p) : c.at < Clock(e)
    <3>1. \A c \in pick[e].late : c.at < Clock(e)
      BY <1>1
    <3>2. Held(p) = {[job |-> j, at |-> header[j].at] : j \in S} \cup pick[e].late
      BY <2>3
    <3>3. QED
      BY <2>2, <3>1, <3>2
  <2>6. pick' = [pick EXCEPT ![e] = p] /\ now' = now
    BY <1>1, <1>3, <2>1 DEF Scan
  <2>7. QED
    BY <1>2, <2>4, <2>5, <2>6
<1>4. ASSUME NEW e \in Executors, NEW p \in PickType, now' = now,
             p.cands \subseteq pick[e].cands, p.late \subseteq Held(pick[e]),
             pick' = [pick EXCEPT ![e] = p]
      PROVE  Goal
  BY <1>1, <1>2, <1>4
<1>5. ASSUME NEW e \in Executors, NEW c,
             (\E r \in Runs : Adopt(e, c, r)) \/ AdoptLate(e, c) \/ RefuseOwn(e, c) \/ Skip(e, c) \/ Conflict(e, c)
             \/ PickFails(e, c) \/ EndPick(e) \/ Crash(e)
      PROVE  Goal
  <2>1. pick[e] \in PickType
    BY <1>1
  <2>2. CASE \E r \in Runs : Adopt(e, c, r)
    <3> DEFINE p == [pick[e] EXCEPT !.cands = @ \ {c}]
    <3>1. p \in PickType /\ p.cands \subseteq pick[e].cands /\ p.late \subseteq Held(pick[e])
      BY <2>1
    <3>2. pick' = [pick EXCEPT ![e] = p] /\ now' = now
      BY <1>1, <2>2 DEF Adopt
    <3>3. QED
      BY <1>4, <3>1, <3>2
  <2>3. CASE AdoptLate(e, c)
    <3> DEFINE p == [pick[e] EXCEPT !.late = @ \ {c}]
    <3>1. p \in PickType /\ p.cands \subseteq pick[e].cands /\ p.late \subseteq Held(pick[e])
      BY <2>1
    <3>2. pick' = [pick EXCEPT ![e] = p] /\ now' = now
      BY <1>1, <2>3 DEF AdoptLate
    <3>3. QED
      BY <1>4, <3>1, <3>2
  <2>4. CASE RefuseOwn(e, c) \/ Skip(e, c) \/ Conflict(e, c)
    <3> DEFINE p == [pick[e] EXCEPT !.cands = @ \ {c}, !.late = @ \ {c}]
    <3>1. p \in PickType /\ p.cands \subseteq pick[e].cands /\ p.late \subseteq Held(pick[e])
      BY <2>1
    <3>2. pick' = [pick EXCEPT ![e] = p] /\ now' = now
      BY <1>1, <2>4 DEF RefuseOwn, Skip, Conflict, Fault
    <3>3. QED
      BY <1>4, <3>1, <3>2
  <2>5. CASE PickFails(e, c)
    <3> DEFINE p == [on |-> FALSE, cands |-> {}, late |-> Held(pick[e]) \ {c}]
    <3>1. p \in PickType /\ p.cands \subseteq pick[e].cands /\ p.late \subseteq Held(pick[e])
      BY <2>1
    <3>2. pick' = [pick EXCEPT ![e] = p] /\ now' = now
      BY <1>1, <2>5 DEF PickFails
    <3>3. QED
      BY <1>4, <3>1, <3>2
  <2>6. CASE EndPick(e)
    <3> DEFINE p == [pick[e] EXCEPT !.on = FALSE]
    <3>1. p \in PickType /\ p.cands \subseteq pick[e].cands /\ p.late \subseteq Held(pick[e])
      BY <2>1
    <3>2. pick' = [pick EXCEPT ![e] = p] /\ now' = now
      BY <1>1, <2>6 DEF EndPick
    <3>3. QED
      BY <1>4, <3>1, <3>2
  <2>7. CASE Crash(e)
    <3> DEFINE p == [on |-> FALSE, cands |-> {}, late |-> {}]
    <3>1. p \in PickType /\ p.cands \subseteq pick[e].cands /\ p.late \subseteq Held(pick[e])
      OBVIOUS
    <3>2. pick' = [pick EXCEPT ![e] = p] /\ now' = now
      BY <2>7 DEF Crash
    <3>3. QED
      BY <1>4, <3>1, <3>2
  <2>8. QED
    BY <1>5, <2>2, <2>3, <2>4, <2>5, <2>6, <2>7
<1>6. CASE Tick
  <2>1. pick' = pick /\ now' = now + 1
    BY <1>6 DEF Tick
  <2>2. ASSUME NEW e \in Executors, NEW c \in Held(pick[e])
        PROVE  c.at < now' + Skew[e]
    <3>1. c.at < now + Skew[e] /\ Skew[e] \in Nat
      BY <1>1, CoreAssumption DEF Clock
    <3>2. c.at \in Nat
      BY <1>1 DEF Candidate
    <3>3. QED
      BY <1>1, <2>1, <3>1, <3>2
  <2>3. QED
    BY <1>1, <2>1, <2>2 DEF CandidatesDue, Clock
<1>7. CASE UNCHANGED <<pick, now>>
  BY <1>1, <1>7 DEF CandidatesDue, Clock
<1>8. QED
  BY <1>3, <1>5, <1>6, <1>7
     DEF Next, SystemNext, PickStep, RunStep, GetJob, StartFails, Progress,
         ProgressThrows, Pushback, PushbackFails, ProgressDeadlineFires, Return, Throw, BodyEnds,
         CommitSuccess, CommitSuccessFails, CommitError, CommitErrorFails,
         Clear, Restart, ResetLostJobs, vars

(* The invariant holds initially and every step keeps it.                  *)
LEMMA CoreInit == Init => Core
<1> SUFFICES ASSUME Init PROVE Core
  OBVIOUS
<1>1. \A h \in FreshHeaders(1) : Good(h) /\ h \in Header
  BY FreshGood DEF Good
<1>2. HeadersGood
  BY <1>1 DEF Init, HeadersGood
<1>3. TypeOK
  <2>1. pick \in [Executors -> [on : BOOLEAN, cands : SUBSET Candidate, late : SUBSET Candidate]]
    <3>1. [on |-> FALSE, cands |-> {}, late |-> {}] \in
             [on : BOOLEAN, cands : SUBSET Candidate, late : SUBSET Candidate]
      OBVIOUS
    <3>2. QED
      BY <3>1 DEF Init
  <2>2. runs \in [Runs -> Run]
    BY DEF Init, Run
  <2>3. QED
    BY <1>2, <2>1, <2>2 DEF Init, TypeOK, HeadersGood
<1>4. CandidatesDue
  BY DEF Init, CandidatesDue
<1>5. QED
  BY <1>2, <1>3, <1>4 DEF Core

(* Every step keeps the inductive invariant.                               *)
LEMMA CoreStep == Core /\ [Next]_vars => Core'
<1> SUFFICES ASSUME Core, [Next]_vars PROVE Core'
  OBVIOUS
<1>1. HeadersGood'
  BY HeadersStep
<1>2. runs' \in [Runs -> Run]
  BY RunsStep
<1>3. /\ pick' \in [Executors -> [on : BOOLEAN, cands : SUBSET Candidate, late : SUBSET Candidate]]
      /\ CandidatesDue'
  BY PickStepDue
<1>4. now \in Nat \ {0} /\ jobs \in SUBSET Jobs /\ faults \in Nat
      /\ alive \in [Executors -> BOOLEAN]
  BY DEF Core, TypeOK
<1>5. now' \in Nat \ {0}
  <2>1. CASE Tick
    BY <1>4, <2>1 DEF Tick
  <2>2. CASE now' = now
    BY <1>4, <2>2
  <2>3. QED
    BY <2>1, <2>2
       DEF Next, SystemNext, PickStep, RunStep, Scan, Adopt, AdoptLate, RefuseOwn, Skip, Conflict,
           PickFails, EndPick, GetJob, StartFails, Progress, ProgressThrows, Pushback, PushbackFails,
           ProgressDeadlineFires, Return, Throw, BodyEnds, CommitSuccess,
           CommitSuccessFails, CommitError, CommitErrorFails, Clear, Crash, Restart,
           ResetLostJobs, vars
<1>6. jobs' \in SUBSET Jobs
  BY <1>4 DEF Next, SystemNext, PickStep, RunStep, Scan, Adopt, AdoptLate, RefuseOwn, Skip, Conflict,
              PickFails, EndPick, GetJob, StartFails, Progress, ProgressThrows, Pushback, PushbackFails,
              ProgressDeadlineFires, Return, Throw, BodyEnds, CommitSuccess,
              CommitSuccessFails, CommitError, CommitErrorFails, Clear, Crash, Restart,
              ResetLostJobs, Tick, Fault, vars
<1>7. faults' \in Nat
  <2>1. CASE faults' = faults + 1
    BY <1>4, <2>1
  <2>2. CASE faults' = faults
    BY <1>4, <2>2
  <2>3. QED
    BY <2>1, <2>2
       DEF Next, SystemNext, PickStep, RunStep, Scan, Adopt, AdoptLate, RefuseOwn, Skip, Conflict,
           PickFails, EndPick, GetJob, StartFails, Progress, ProgressThrows, Pushback, PushbackFails,
           ProgressDeadlineFires, Return, Throw, BodyEnds, CommitSuccess,
           CommitSuccessFails, CommitError, CommitErrorFails, Clear, Crash, Restart,
           ResetLostJobs, Tick, Fault, vars
<1>8. alive' \in [Executors -> BOOLEAN]
  <2>1. ASSUME NEW e \in Executors, Crash(e) \/ Restart(e)
        PROVE  alive' \in [Executors -> BOOLEAN]
    BY <1>4, <2>1 DEF Crash, Restart
  <2>2. CASE UNCHANGED alive
    BY <1>4, <2>2
  <2>3. QED
    BY <2>1, <2>2
       DEF Next, SystemNext, PickStep, RunStep, Scan, Adopt, AdoptLate, RefuseOwn, Skip, Conflict,
           PickFails, EndPick, GetJob, StartFails, Progress, ProgressThrows, Pushback, PushbackFails,
           ProgressDeadlineFires, Return, Throw, BodyEnds, CommitSuccess,
           CommitSuccessFails, CommitError, CommitErrorFails, Clear,
           ResetLostJobs, Tick, vars
<1>9. QED
  BY <1>1, <1>2, <1>3, <1>5, <1>6, <1>7, <1>8 DEF Core, TypeOK, HeadersGood

(* The inductive invariant of the core: types, reachable headers, balanced *)
(* ledgers and the shapes of runs and candidates.                          *)
THEOREM CoreInvariant == Spec => []Core
BY CoreInit, CoreStep, PTL DEF Spec

(* Types; the budget of retries never goes below zero.                     *)
THEOREM TypeCorrect == Spec => []TypeOK
<1>1. Core => TypeOK
  BY DEF Core
<1>2. QED
  BY <1>1, CoreInvariant, PTL

(* A job that carries an executor's name is always found again by a scan,  *)
(* whatever stale runs, crashes, resets and failed transactions did to it. *)
THEOREM OwnedJobsReachable == Spec => []OwnedIsReachable
<1>1. Core => OwnedIsReachable
  BY DEF Core, HeadersGood, Good, OwnedIsReachable
<1>2. QED
  BY <1>1, CoreInvariant, PTL

(* The retry ledger balances in every interleaving.                        *)
THEOREM LedgerBalances == Spec => []RetryLedger
<1>1. Core => RetryLedger
  BY DEF Core, HeadersGood, Good, RetryLedger
<1>2. QED
  BY <1>1, CoreInvariant, PTL

(***************************************************************************)
(* Who owns a job after each rewriting of its header.                      *)
(***************************************************************************)
LEMMA OwnerAfter ==
  ASSUME NEW h \in Header, NEW e, NEW clk, NEW result, NEW err \in Errors
  PROVE  /\ Adopted(h, e, clk).exec = e
         /\ Pushed(h, clk).exec = h.exec
         /\ Renewed(h, clk).exec = h.exec
         /\ Released(h, clk).exec = None
         /\ AfterSuccess(h, result, clk).exec = None
         /\ AfterError(h, err, clk).exec \in {None, h.exec}
<1>1. /\ Adopted(h, e, clk).exec = e
      /\ Pushed(h, clk).exec = h.exec
      /\ Renewed(h, clk).exec = h.exec
      /\ Released(h, clk).exec = None
  BY DEF Header, Adopted, Pushed, Renewed, Released
<1>2. Finished(h).exec = None
  BY DEF Header, Finished
<1>3. NextOccurrence(h, clk).exec = None /\ RestoredRetries(NextOccurrence(h, clk)).exec = None
  BY DEF Header, NextOccurrence, RestoredRetries
<1>4. RepeatOrFinish(h, clk).exec = None
  BY <1>2, <1>3 DEF RepeatOrFinish
<1>5. Retried(h, clk).exec = None
  BY DEF Header, Retried
<1>6. AfterSuccess(h, result, clk).exec = None
  BY <1>2, <1>3 DEF AfterSuccess, Header
<1>7. AfterError(h, err, clk).exec \in {None, h.exec}
  BY <1>2, <1>4, <1>5 DEF AfterError, Errors
<1>8. QED
  BY <1>1, <1>6, <1>7

(* A job passes from one executor directly to another only when its lease  *)
(* has run out on the clock of the one that takes it.                      *)
LEMMA NoEarlyStealStep ==
  ASSUME Core, [Next]_vars, NEW j \in Jobs,
         header[j].exec # None, header'[j].exec \notin {None, header[j].exec}
  PROVE  header[j].at < Clock(header'[j].exec)
<1>1. /\ header \in [Jobs -> Header]
      /\ \A e \in Executors : \A c \in pick[e].cands \cup pick[e].late :
           c.job \in Jobs /\ c.at < Clock(e)
  BY DEF Core, HeadersGood, CandidatesDue, TypeOK, Candidate
<1>2. ASSUME NEW e \in Executors, NEW c \in pick[e].cands \cup pick[e].late,
             (\E r \in Runs : Adopt(e, c, r)) \/ AdoptLate(e, c)
      PROVE  header[j].at < Clock(header'[j].exec)
  <2>1. header' = [header EXCEPT ![c.job] = Adopted(header[c.job], e, Clock(e))]
        /\ header[c.job].at = c.at
    BY <1>2 DEF Adopt, AdoptLate, Adoptable, Unchanged
  <2>2. CASE j = c.job
    <3>1. header'[j].exec = e
      BY <1>1, <2>1, <2>2, OwnerAfter DEF Errors
    <3>2. QED
      BY <1>1, <2>1, <2>2, <3>1
  <2>3. CASE j # c.job
    BY <1>1, <2>1, <2>3
  <2>4. QED
    BY <2>2, <2>3
<1>3. ASSUME NEW g, NEW k, header' = [header EXCEPT ![k] = g],
             k = j => g.exec \in {None, header[j].exec}
      PROVE  FALSE
  BY <1>1, <1>3
<1>4. ASSUME NEW e \in Executors, NEW c \in pick[e].cands \cup pick[e].late, RefuseOwn(e, c)
      PROVE  FALSE
  BY <1>1, <1>3, <1>4, OwnerAfter DEF RefuseOwn, Errors
<1>5. ASSUME NEW r \in Runs, Progress(r)
      PROVE  FALSE
  BY <1>1, <1>3, <1>5, OwnerAfter DEF Progress, Errors
<1>6. ASSUME NEW r \in Runs, CommitSuccess(r)
      PROVE  FALSE
  BY <1>1, <1>3, <1>6, OwnerAfter DEF CommitSuccess, Errors
<1>7. ASSUME NEW r \in Runs, CommitError(r)
      PROVE  FALSE
  <2>1. runs[r].err \in Errors
    BY <1>7, BusyRun DEF CommitError, Core
  <2>2. QED
    BY <1>1, <1>3, <1>7, <2>1, OwnerAfter DEF CommitError
<1>8. ASSUME NEW d \in Executors, NEW e \in Executors, ResetLostJobs(d, e)
      PROVE  FALSE
  BY <1>1, <1>8, OwnerAfter DEF ResetLostJobs, Errors
<1>9. CASE UNCHANGED header
  BY <1>9
<1>10. QED
  BY <1>2, <1>4, <1>5, <1>6, <1>7, <1>8, <1>9
     DEF Next, SystemNext, PickStep, RunStep, Scan, Skip, Conflict, PickFails, EndPick, GetJob, StartFails,
         ProgressThrows, Pushback, PushbackFails, ProgressDeadlineFires, Return, Throw, BodyEnds,
         CommitSuccessFails, CommitErrorFails, Clear, Crash, Restart, Tick, vars

(* NoEarlySteal, for all servers, jobs and runs and whatever the timing:   *)
(* the adoption compares `at` with the scan, so a lease that was renewed   *)
(* after the scan is not taken.                                            *)
THEOREM LeaseRespected == Spec => NoEarlySteal
<1>1. Core /\ [Next]_vars => 
        [\A j \in Jobs :
           /\ header[j].exec # None
           /\ header'[j].exec \notin {None, header[j].exec}
           => header[j].at < Clock(header'[j].exec)]_vars
  BY NoEarlyStealStep
<1>2. QED
  BY <1>1, CoreInvariant, PTL DEF Spec, NoEarlySteal

=============================================================================
