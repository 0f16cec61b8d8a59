---------------------- MODULE WorkflowRefinement_proofs ----------------------
(***************************************************************************)
(* Under TimelySpec and GoodTiming, WorkflowCore implements JobExclusion:  *)
(* an adoption is a Take, a final outcome a Complete, a Clear a Remove,    *)
(* and every other step lets runs give up or stutters.                     *)
(***************************************************************************)
EXTENDS WorkflowExclusion_proofs

(***************************************************************************)
(* How the steps map                                                       *)
(***************************************************************************)

(* A step after which every run that works on a job did so before.         *)
LEMMA YieldStep ==
  ASSUME HeldKept, Status' = Status
  PROVE  Abstract!Next
<1> DEFINE S == {r \in Runs : runs'[r].ctl \notin Controlling}
<1>1. Workers' = [j \in Jobs |-> Workers[j] \ S]
  <2>1. ASSUME NEW j \in Jobs
        PROVE  {r \in Runs : runs'[r].ctl \in Controlling /\ runs'[r].job = j}
                 = {r \in Runs : runs[r].ctl \in Controlling /\ runs[r].job = j} \ S
    BY DEF HeldKept, Held
  <2>2. QED
    BY <2>1 DEF Workers
<1>2. Abstract!Yield(S)
  BY <1>1 DEF Abstract!Yield
<1>3. QED
  BY <1>2 DEF Abstract!Next

LEMMA StatusKept ==
  ASSUME UNCHANGED jobs,
         \A j \in jobs \cap Jobs : header'[j].at < 1 <=> header[j].at < 1
  PROVE  Status' = Status
BY DEF Status

(* A job that carries a name is open.                                      *)
LEMMA OwnedIsOpen ==
  ASSUME Core, NEW j \in Jobs, header[j].exec # None
  PROVE  header[j].at \in Int /\ header[j].at >= 1 /\ ~(header[j].at < 1)
BY DEF Core, HeadersGood, Good, Header

(* A run that works on a job that is still there has it to itself.         *)
LEMMA HeldOwns ==
  ASSUME Exclusion, NEW r \in Runs, Held(r)
  PROVE  /\ runs[r].job \in Jobs
         /\ Workers[runs[r].job] = {r}
         /\ runs[r].job \in jobs => Status[runs[r].job] = "open" /\ Owns(r)
<1>1. runs[r].job \in Jobs /\ runs[r].exec \in Executors /\ runs[r].exec # None
  BY HeldTypes, HeaderAssumption DEF Exclusion
<1>2. Workers[runs[r].job] = {r}
  BY <1>1 DEF Workers, Held, Exclusion, OneRun
<1>3. runs[r].job \in jobs => header[runs[r].job].exec = runs[r].exec
  BY DEF Exclusion, RunsFine, RunFine, Fine, Held
<1>4. runs[r].job \in jobs => Status[runs[r].job] = "open" /\ Owns(r)
  BY <1>1, <1>3, OwnedIsOpen DEF Status, Owns, Exclusion
<1>5. QED
  BY <1>1, <1>2, <1>4

(* A run gives a job up: for good, or for the next run.                    *)
LEMMA OutcomeStep ==
  ASSUME Exclusion, NEW r \in Runs, Held(r), ~Held(r)', UNCHANGED jobs,
         \A s \in Runs \ {r} : runs'[s] = runs[s],
         \A j \in Jobs \ {runs[r].job} : header'[j] = header[j],
         runs[r].job \notin jobs => UNCHANGED header
  PROVE  Abstract!Next
<1> DEFINE k == runs[r].job
<1>0. k \in Jobs /\ Workers[k] = {r} /\ (k \in jobs => Status[k] = "open")
  BY HeldOwns
<1>1. HeldKept
  BY DEF HeldKept, Held
<1>2. CASE k \notin jobs
  BY <1>1, <1>2, StatusKept, YieldStep
<1>3. CASE k \in jobs /\ ~(header'[k].at < 1)
  <2>1. ~(header[k].at < 1)
    BY <1>0, <1>3 DEF Status
  <2>2. Status' = Status
    BY <1>3, <2>1, StatusKept
  <2>3. QED
    BY <1>1, <2>2, YieldStep
<1>4. CASE k \in jobs /\ header'[k].at < 1
  <2>1. Status' = [Status EXCEPT ![k] = "finished"]
    BY <1>0, <1>4 DEF Status
  <2>2. Workers' = [Workers EXCEPT ![k] = {}]
    <3>1. ASSUME NEW j \in Jobs
          PROVE  {s \in Runs : runs'[s].ctl \in Controlling /\ runs'[s].job = j}
                   = IF j = k THEN {}
                     ELSE {s \in Runs : runs[s].ctl \in Controlling /\ runs[s].job = j}
      <4>1. \A s \in Runs : runs[s].ctl \in Controlling /\ runs[s].job = k => s = r
        BY DEF Exclusion, OneRun, Held
      <4>2. QED
        BY <4>1 DEF Held
    <3>2. QED
      BY <3>1 DEF Workers
  <2>3. Abstract!Complete(k, r)
    BY <1>0, <1>4, <2>1, <2>2 DEF Abstract!Complete
  <2>4. QED
    BY <1>0, <2>3 DEF Abstract!Next
<1>5. QED
  BY <1>2, <1>3, <1>4

(***************************************************************************)
(* The steps                                                               *)
(***************************************************************************)

(* An adoption takes an open job nobody works on.                          *)
LEMMA AdoptTakes ==
  ASSUME Exclusion, GoodTiming, NEW e \in Executors, NEW c \in pick[e].cands, NEW r \in Runs,
         Adopt(e, c, r)
  PROVE  Abstract!Next
<1>0. /\ runs \in [Runs -> Run] /\ header \in [Jobs -> Header]
      /\ c \in Candidate /\ c.job \in Jobs /\ c.at \in Nat \ {0}
  BY DEF Exclusion, Core, TypeOK, Candidate
<1>1. c.job \in jobs /\ header[c.job].at = c.at /\ runs[r].ctl = "free"
  BY DEF Adopt, Adoptable, Unchanged
<1>2. /\ runs'[r].ctl = "adopted" /\ runs'[r].job = c.job
      /\ \A s \in Runs \ {r} : runs'[s] = runs[s]
  BY <1>0 DEF Adopt, Idle
<1>3. \A s \in Runs : runs[s].job = c.job => ~Held(s)
  BY AdoptFree DEF Adopt, Adoptable
<1>4. /\ header'[c.job].at >= 1 /\ header'[c.job].at \in Int
      /\ \A j \in Jobs \ {c.job} : header'[j] = header[j]
  <2>1. Clock(e) \in Nat /\ Clock(e) >= 1
    BY ClockMoment DEF Exclusion, Core, Moment
  <2>2. Adopted(header[c.job], e, Clock(e)).at = Clock(e) + LostDeadline
    BY <1>0 DEF Adopted, Header
  <2>3. header' = [header EXCEPT ![c.job] = Adopted(header[c.job], e, Clock(e))]
    BY DEF Adopt
  <2>4. QED
    BY <1>0, <2>1, <2>2, <2>3, Constants
<1>5. Status[c.job] = "open" /\ Status' = Status
  <2>1. ~(header[c.job].at < 1) /\ ~(header'[c.job].at < 1)
    BY <1>0, <1>1, <1>4
  <2>2. UNCHANGED jobs
    BY DEF Adopt
  <2>3. QED
    BY <1>0, <1>1, <1>4, <2>1, <2>2, StatusKept DEF Status
<1>6. Workers[c.job] = {} /\ \A k \in Jobs : r \notin Workers[k]
  BY <1>0, <1>1, <1>3 DEF Workers, Held, Controlling
<1>7. Workers' = [Workers EXCEPT ![c.job] = {r}]
  <2>1. "adopted" \in Controlling /\ "free" \notin Controlling
    BY DEF Controlling
  <2>2. ASSUME NEW j \in Jobs
        PROVE  {s \in Runs : runs'[s].ctl \in Controlling /\ runs'[s].job = j}
                 = IF j = c.job THEN {r}
                   ELSE {s \in Runs : runs[s].ctl \in Controlling /\ runs[s].job = j}
    BY <1>1, <1>2, <1>3, <2>1 DEF Held
  <2>3. QED
    BY <2>2 DEF Workers
<1>8. Abstract!Take(c.job, r)
  BY <1>5, <1>6, <1>7 DEF Abstract!Take
<1>9. QED
  BY <1>0, <1>8 DEF Abstract!Next

(* The outcome of a run, whatever its transaction writes.                  *)
LEMMA CommitMaps ==
  ASSUME Exclusion, NEW r \in Runs, CommitSuccess(r) \/ CommitError(r)
  PROVE  Abstract!Next
<1>0. runs \in [Runs -> Run] /\ header \in [Jobs -> Header]
  BY DEF Exclusion, Core, TypeOK
<1>1. Held(r)
  BY DEF CommitSuccess, CommitError, Held, Controlling
<1>2. ~Held(r)'
  <2>1. CASE runs'[r] = Idle
    BY <2>1 DEF Held, Idle, Controlling
  <2>2. CASE runs'[r] = Settled(runs[r])
    BY <2>2, SettledNotHeld DEF Held
  <2>3. QED
    BY <1>0, <2>1, <2>2 DEF CommitSuccess, CommitError
<1>3. /\ UNCHANGED jobs
      /\ \A s \in Runs \ {r} : runs'[s] = runs[s]
      /\ \A j \in Jobs \ {runs[r].job} : header'[j] = header[j]
      /\ runs[r].job \notin jobs => UNCHANGED header
  BY <1>0 DEF CommitSuccess, CommitError, Owns
<1>4. QED
  BY <1>1, <1>2, <1>3, OutcomeStep

(* A job that is deleted goes, whoever works on it.                        *)
LEMMA ClearRemoves ==
  ASSUME NEW j \in Jobs, Clear(j)
  PROVE  Abstract!Next
<1>1. UNCHANGED <<runs, header>> /\ j \in jobs /\ jobs' = jobs \ {j}
  BY DEF Clear
<1>2. Workers' = Workers
  BY <1>1 DEF Workers
<1>3. Status' = [Status EXCEPT ![j] = "gone"] /\ Status[j] # "gone"
  BY <1>1 DEF Status
<1>4. Abstract!Remove(j)
  BY <1>2, <1>3 DEF Abstract!Remove
<1>5. QED
  BY <1>4 DEF Abstract!Next

(* One header is rewritten, with `at` in the future; the job was open.     *)
LEMMA StaysOpen ==
  ASSUME Core, NEW j \in Jobs, header[j].at >= 1, NEW g, g.at \in Int, g.at >= 1,
         header' = [header EXCEPT ![j] = g], UNCHANGED jobs
  PROVE  Status' = Status
<1>1. header \in [Jobs -> Header] /\ header[j].at \in Int
  BY DEF Core, TypeOK, Header
<1>2. \A k \in jobs \cap Jobs : header'[k].at < 1 <=> header[k].at < 1
  BY <1>1
<1>3. QED
  BY <1>2, StatusKept

(* The leases that are granted lie in the future.                          *)
LEMMA LeaseAhead ==
  ASSUME NEW h \in Header, NEW e, NEW clk \in Moment
  PROVE  /\ Adopted(h, e, clk).at \in Int /\ Adopted(h, e, clk).at >= 1
         /\ Pushed(h, clk).at \in Int /\ Pushed(h, clk).at >= 1
         /\ Renewed(h, clk).at \in Int /\ Renewed(h, clk).at >= 1
         /\ Released(h, clk).at \in Int /\ Released(h, clk).at >= 1
<1>1. /\ clk \in Nat /\ clk >= 1
      /\ clk + LostDeadline \in Int /\ clk + LostDeadline >= 1
      /\ clk + SelfAdoptPush \in Int /\ clk + SelfAdoptPush >= 1
  BY HeaderAssumption DEF Moment
<1>2. /\ Adopted(h, e, clk).at = clk + LostDeadline
      /\ Pushed(h, clk).at = clk + SelfAdoptPush
      /\ Renewed(h, clk).at = clk + LostDeadline
      /\ Released(h, clk).at = clk
  BY DEF Header, Adopted, Pushed, Renewed, Released
<1>3. QED
  BY <1>1, <1>2

(* Every other step leaves open what is open.                              *)
LEMMA OtherStatusKept ==
  ASSUME Core, [Next]_vars,
         \A e \in Executors : \A c \in pick[e].cands, r \in Runs : ~Adopt(e, c, r),
         \A r \in Runs : ~CommitSuccess(r) /\ ~CommitError(r),
         \A j \in Jobs : ~Clear(j)
  PROVE  Status' = Status
<1>0. /\ header \in [Jobs -> Header] /\ TypeOK
      /\ \A e \in Executors : Clock(e) \in Moment
  BY ClockMoment DEF Core, TypeOK
<1>1. ASSUME UNCHANGED <<jobs, header>> PROVE Status' = Status
  BY <1>1 DEF Status
<1>2. ASSUME NEW e \in Executors, NEW c \in pick[e].late, AdoptLate(e, c) PROVE Status' = Status
  <2>1. c.job \in Jobs /\ c.at \in Nat \ {0} /\ header[c.job].at = c.at
    BY <1>0, <1>2 DEF TypeOK, Candidate, AdoptLate, Adoptable, Unchanged
  <2>2. header' = [header EXCEPT ![c.job] = Adopted(header[c.job], e, Clock(e))] /\ UNCHANGED jobs
    BY <1>2 DEF AdoptLate
  <2>3. header[c.job] \in Header /\ header[c.job].at >= 1
    BY <1>0, <2>1
  <2>4. /\ Adopted(header[c.job], e, Clock(e)).at \in Int
        /\ Adopted(header[c.job], e, Clock(e)).at >= 1
    BY <1>0, <2>3, LeaseAhead
  <2>5. QED
    BY <2>1, <2>2, <2>3, <2>4, StaysOpen
<1>3. ASSUME NEW e \in Executors, NEW c \in pick[e].cands \cup pick[e].late, RefuseOwn(e, c)
      PROVE  Status' = Status
  <2>1. c.job \in Jobs /\ c.at \in Nat \ {0} /\ header[c.job].at = c.at
    BY <1>0, <1>3 DEF TypeOK, Candidate, RefuseOwn, Unchanged
  <2>2. header' = [header EXCEPT ![c.job] = Pushed(header[c.job], Clock(e))] /\ UNCHANGED jobs
    BY <1>3 DEF RefuseOwn
  <2>3. header[c.job] \in Header /\ header[c.job].at >= 1
    BY <1>0, <2>1
  <2>4. /\ Pushed(header[c.job], Clock(e)).at \in Int
        /\ Pushed(header[c.job], Clock(e)).at >= 1
    BY <1>0, <2>3, LeaseAhead
  <2>5. QED
    BY <2>1, <2>2, <2>3, <2>4, StaysOpen
<1>4. ASSUME NEW r \in Runs, Progress(r) PROVE Status' = Status
  <2>1. runs[r].job \in Jobs /\ runs[r].exec \in Executors /\ runs[r].exec # None
    BY <1>0, <1>4, BodyBusy, BusyRun, HeaderAssumption DEF Progress
  <2>2. header[runs[r].job].at >= 1
    BY <1>4, <2>1, OwnedIsOpen DEF Progress, Owns
  <2>3. /\ header' = [header EXCEPT ![runs[r].job] = Renewed(header[runs[r].job], Clock(runs[r].exec))]
        /\ UNCHANGED jobs
    BY <1>4 DEF Progress
  <2>4. QED
    BY <1>0, <2>1, <2>2, <2>3, LeaseAhead, StaysOpen
<1>5. ASSUME NEW d \in Executors, NEW e \in Executors, ResetLostJobs(d, e) PROVE Status' = Status
  <2>1. PICK S \in SUBSET JobsOf(e) :
          header' = [j \in Jobs |-> IF j \in S THEN Released(header[j], Clock(d)) ELSE header[j]]
    BY <1>5 DEF ResetLostJobs
  <2>2. \A j \in S \cap Jobs : ~(header[j].at < 1) /\ ~(header'[j].at < 1)
    <3>1. ASSUME NEW j \in S \cap Jobs PROVE ~(header[j].at < 1)
      BY <2>1, OwnedIsOpen, HeaderAssumption DEF JobsOf
    <3>2. ASSUME NEW j \in S \cap Jobs PROVE ~(header'[j].at < 1)
      <4>1. header'[j] = Released(header[j], Clock(d)) /\ header[j] \in Header
        BY <1>0, <2>1
      <4>2. header'[j].at \in Int /\ header'[j].at >= 1
        BY <1>0, <4>1, LeaseAhead
      <4>3. QED
        BY <4>2
    <3>3. QED
      BY <3>1, <3>2
  <2>3. \A j \in Jobs \ S : header'[j] = header[j]
    BY <2>1
  <2>4. UNCHANGED jobs
    BY <1>5 DEF ResetLostJobs
  <2>5. QED
    BY <2>2, <2>3, <2>4, StatusKept
<1>6. QED
  BY <1>1, <1>2, <1>3, <1>4, <1>5
     DEF Next, SystemNext, PickStep, RunStep, Scan, Skip, Conflict, PickFails, EndPick, GetJob,
         StartFails, ProgressThrows, ProgressDeadlineFires, Pushback, PushbackFails, Return, Throw,
         BodyEnds, CommitSuccessFails, CommitErrorFails, Crash, Restart, Tick, vars

(***************************************************************************)
(* The theorem                                                             *)
(***************************************************************************)

(* Every timely step is a step of JobExclusion.                            *)
LEMMA StepImplements ==
  GoodTiming /\ Exclusion /\ [TimelyNext]_vars => [Abstract!Next]_<<Workers, Status>>
<1> SUFFICES ASSUME GoodTiming, Exclusion, [TimelyNext]_vars PROVE Abstract!Next
  OBVIOUS
<1>0. [Next]_vars /\ Core
  BY DEF TimelyNext, Next, Exclusion
<1>1. ASSUME NEW e \in Executors, NEW c \in pick[e].cands, NEW r \in Runs, Adopt(e, c, r)
      PROVE  Abstract!Next
  BY <1>1, AdoptTakes
<1>2. ASSUME NEW r \in Runs, CommitSuccess(r) \/ CommitError(r) PROVE Abstract!Next
  BY <1>2, CommitMaps
<1>3. ASSUME NEW j \in Jobs, Clear(j) PROVE Abstract!Next
  BY <1>3, ClearRemoves
<1>4. ASSUME \A e \in Executors : \A c \in pick[e].cands, r \in Runs : ~Adopt(e, c, r),
             \A r \in Runs : ~CommitSuccess(r) /\ ~CommitError(r),
             \A j \in Jobs : ~Clear(j)
      PROVE  Abstract!Next
  BY <1>0, <1>4, StepHolds, OtherStatusKept, YieldStep
<1>5. QED
  BY <1>1, <1>2, <1>3, <1>4

LEMMA InitImplements == Init => Abstract!Init
<1> SUFFICES ASSUME Init PROVE Abstract!Init
  OBVIOUS
<1>1. Workers = [j \in Jobs |-> {}]
  BY DEF Init, Workers, Idle, Controlling
<1>2. Status = [j \in Jobs |-> "open"]
  BY DEF Init, Status, FreshHeaders
<1>3. QED
  BY <1>1, <1>2 DEF Abstract!Init

(* The servers implement exclusive work: a job is taken when nobody works  *)
(* on it, only the run that works on it ends it, and what has ended is     *)
(* never taken again; under the timing of Exclusivity                      *)
(* (workflowPicker.ts, jobRunner.ts).                                      *)
THEOREM Refinement ==
  ASSUME GoodTiming
  PROVE  TimelySpec => Implements
<1>1. Init => Exclusion /\ Abstract!Init
  BY ExclusionInit, InitImplements
<1>2. Exclusion /\ [TimelyNext]_vars => Exclusion'
  BY ExclusionStep
<1>3. Exclusion /\ [TimelyNext]_vars => [Abstract!Next]_<<Workers, Status>>
  BY StepImplements
<1>4. QED
  BY <1>1, <1>2, <1>3, PTL DEF TimelySpec, Implements, Abstract!Spec, Abstract!vars

=============================================================================
