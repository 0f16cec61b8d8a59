------------------------------- MODULE Engine -------------------------------
(***************************************************************************)
(* WorkflowEngine: a token arrives, every picker picks from its own table, *)
(* the adopted jobs are started together; the ring reports a server that   *)
(* does not answer and its jobs are reset, table by table.  What a job can *)
(* be routed by, the capabilities of the servers, travels in the token as  *)
(* a bitmap.                                                               *)
(*                                                                         *)
(* A header is reduced to whether the job is due, who has it and how many  *)
(* retries are left; a run to its first read and its outcome.  JobHeader,  *)
(* WorkflowCore and JobRunner have the rest.                               *)
(***************************************************************************)
EXTENDS Capabilities, FiniteSets

CONSTANTS
  Servers,     \* engines, one per process, by issuer_id
  Members,     \* the servers that are in the ring at first
  None,        \* no server
  Jobs,
  AllSorted,   \* allSortedCapabilities, the same list on every server
  TypeOf,      \* TypeOf[j]: payload.type
  Tables,      \* the pickers, in the order they were given
  TableOf,     \* TableOf[j]: the table job j is in
  Runners,     \* Runners[s]: the types s has a runner for at first
  BatchSize,   \* batchSize of a picker
  Loads,       \* running jobs, on a server and on the average of the ring
  MaxRetries,  \* retries.max of a job
  Repeating,   \* the jobs that have a repeatSchedule
  Cycles,      \* pick(): cycles lost to conflicts (11 in the code)
  ResetLimit,  \* jobs in one transaction of resetLostJobs (50)
  ResetCycles, \* transactions of one resetLostJobs (1000)
  MaxEvents    \* events nobody schedules: failures, changes (model bound)

Types == {AllSorted[k] : k \in 1..Len(AllSorted)}

TableSet == {Tables[k] : k \in 1..Len(Tables)}

ASSUME EngineAssumption ==
  /\ None \notin Servers
  /\ Members \subseteq Servers
  /\ AllSorted \in Seq(Types)
  /\ TypeOf \in [Jobs -> Types]
  /\ Tables \in Seq(TableSet)
  /\ Len(Tables) >= 1
  /\ \A j \in Jobs : \E k \in 1..Len(Tables) : TableOf[j] = Tables[k]
  /\ Runners \in [Servers -> SUBSET Types]
  /\ BatchSize \in Nat \ {0}
  /\ Loads \subseteq Nat
  /\ MaxRetries \in Nat
  /\ Repeating \subseteq Jobs
  /\ Cycles \in Nat \ {0}
  /\ ResetLimit \in Nat \ {0}
  /\ ResetCycles \in Nat \ {0}
  /\ MaxEvents \in Nat

VARIABLES
  job,      \* job[j]: the header of j
  runners,  \* runners[s]: the types s has a runner for
  caps,     \* caps[s]: args.capabilities, the bitmap s shows the ring
  up,       \* up[s]: whether s is up, was destroyed, or is down
  ring,     \* the members of the ring
  token,    \* the token, see Remade
  pick,     \* pick[s]: the pick of s, see PickState
  cands,    \* cands[s]: candidates s has yet to adopt
  fresh,    \* fresh[s]: candidates of s that were not written since the scan
  late,     \* late[s]: those whose adoption has outlived its pick
  runs,     \* the runs there are
  reset,    \* reset[s]: the resetLostJobs() of s
  reported, \* a reset failed, or raised its alarm
  orphans,  \* jobs that were left with an owner that does not run them
  events    \* events so far

jobVars  == <<job, fresh, late>>
ringVars == <<up, ring, token>>
vars == <<job, runners, caps, up, ring, token, pick, cands, fresh, late, runs, reset,
          reported, orphans, events>>

(* `supported` is what the token says of the ring, `shown` what its        *)
(* members had runners for when they said it.                              *)
PickState ==
  [on          : BOOLEAN,
   provisional : BOOLEAN,
   supported   : SUBSET Types,
   shown       : SUBSET Types,
   target      : 1..(2 * BatchSize),
   ctl         : [TableSet -> {"scan", "adopt", "failed"}],
   cycles      : [TableSet -> 0..Cycles],
   got         : SUBSET Jobs]

NoPick ==
  [on |-> FALSE, provisional |-> TRUE, supported |-> {}, shown |-> {}, target |-> 1,
   ctl |-> [t \in TableSet |-> "failed"], cycles |-> [t \in TableSet |-> 0], got |-> {}]

(* The header of a job, and the token.                                     *)
JobState ==
  [due : {"due", "later", "never"}, exec : Servers \cup {None}, retries : 0..MaxRetries]

TokenState ==
  [at : Servers \cup {None}, left : SUBSET Servers, provisional : BOOLEAN,
   caps : Buffer, shown : SUBSET Types, nextCaps : Buffer, nextShown : SUBSET Types]

(* A run, with the engine's choice of its runner: `able` is FALSE for the  *)
(* ErrorRunner.                                                            *)
RunState == [job : Jobs, by : Servers, able : BOOLEAN, ctl : {"starting", "running"}]

(* A reset: of whom, the tables that are left, the transactions that are   *)
(* left in the first of them, and whether the server has been down since.  *)
ResetState ==
  [of : Servers \cup {None}, left : Seq(TableSet), cycles : 0..ResetCycles, gone : BOOLEAN]

NoReset == [of |-> None, left |-> <<>>, cycles |-> 0, gone |-> FALSE]

(* A write gives the job another `at`: adoptions that look for the old one *)
(* skip it.                                                                *)
Write(j, h) ==
  /\ job' = [job EXCEPT ![j] = h]
  /\ fresh' = [s \in Servers |-> fresh[s] \ {j}]
  /\ late' = [s \in Servers |-> late[s] \ {j}]

Event == events < MaxEvents /\ events' = events + 1

Init ==
  /\ job = [j \in Jobs |-> [due |-> "due", exec |-> None, retries |-> MaxRetries]]
  /\ runners = Runners
  /\ caps = [s \in Servers |-> capabilitiesToBuffer(Runners[s], AllSorted)]
  /\ up = [s \in Servers |-> "up"]
  /\ ring = Members
  /\ token = [at |-> None, left |-> Members, provisional |-> TRUE, caps |-> <<>>, shown |-> {},
              nextCaps |-> <<>>, nextShown |-> {}]
  /\ pick = [s \in Servers |-> NoPick]
  /\ cands = [s \in Servers |-> {}]
  /\ fresh = [s \in Servers |-> {}]
  /\ late = [s \in Servers |-> {}]
  /\ runs = {}
  /\ reset = [s \in Servers |-> NoReset]
  /\ reported = FALSE
  /\ orphans = {}
  /\ events = 0

(***************************************************************************)
(* onToken                                                                 *)
(***************************************************************************)

(* Math.ceil(batchSize / Math.min(6, Math.max(ratio, 0.5))), where ratio   *)
(* is (0.0001 + running) / (0.0001 + average).                             *)
TargetJobs(running, average) ==
  LET num == 10000 * running + 1
      den == 10000 * average + 1
  IN IF 2 * num <= den THEN 2 * BatchSize
     ELSE IF num >= 6 * den THEN (BatchSize + 5) \div 6
     ELSE (BatchSize * den + num - 1) \div num

(* The ring remakes the token: its first round is provisional.             *)
Remade(members) ==
  [at |-> None, left |-> members, provisional |-> TRUE, caps |-> <<>>, shown |-> {},
   nextCaps |-> <<>>, nextShown |-> {}]

(* The token as it is passed on: when it has been everywhere, it is        *)
(* established and says what was gathered.                                 *)
Passed ==
  IF token.left # {} THEN token
  ELSE [token EXCEPT !.left = ring, !.provisional = FALSE,
                     !.caps = token.nextCaps, !.shown = token.nextShown,
                     !.nextCaps = <<>>, !.nextShown = {}]

(* The ring merges the bitmap of the server; every picker of the server    *)
(* starts, unless the server is terminating.                               *)
OnToken(s) ==
  /\ up[s] # "down"
  /\ token.at = None
  /\ s \in Passed.left
  /\ ~pick[s].on
  /\ token' = [Passed EXCEPT !.at = s, !.left = @ \ {s},
                             !.nextCaps = mergeCapabilityBuffers(@, caps[s]),
                             !.nextShown = @ \cup runners[s]]
  /\ \E running, average \in Loads :
       pick' = [pick EXCEPT ![s] =
         [on |-> TRUE, provisional |-> Passed.provisional,
          supported |-> bufferToCapabilities(Passed.caps, AllSorted), shown |-> Passed.shown,
          target |-> TargetJobs(running, average),
          ctl |-> [t \in TableSet |-> IF up[s] = "destroyed" THEN "failed" ELSE "scan"],
          cycles |-> [t \in TableSet |-> Cycles], got |-> {}]]
  /\ UNCHANGED <<jobVars, runners, caps, up, ring, cands, runs, reset, reported, orphans, events>>

(***************************************************************************)
(* The pickers of one server, which run side by side                       *)
(***************************************************************************)

(* Phase I takes a job the server can run, or one that nobody can.         *)
Eligible(s, j) ==
  \/ TypeOf[j] \in runners[s]
  \/ ~pick[s].provisional /\ TypeOf[j] \notin pick[s].supported

Scan(s, t) ==
  /\ pick[s].ctl[t] = "scan"
  /\ LET due == {j \in Jobs : TableOf[j] = t /\ job[j].due = "due" /\ Eligible(s, j)} IN
       \E S \in SUBSET due :
         /\ Cardinality(S) <= pick[s].target
         /\ Cardinality(S) < pick[s].target => S = due
         /\ cands' = [cands EXCEPT ![s] = @ \cup S]
         /\ fresh' = [fresh EXCEPT ![s] = @ \cup S]
  /\ pick' = [pick EXCEPT ![s].ctl[t] = "adopt"]
  /\ UNCHANGED <<job, late, runners, caps, ringVars, runs, reset, reported, orphans, events>>

(* The scan conflicts: another cycle, if there is one left.  What causes   *)
(* the first conflict may cause all of them: only the first is an event.   *)
ScanConflict(s, t) ==
  /\ pick[s].ctl[t] = "scan"
  /\ IF pick[s].cycles[t] = Cycles THEN Event ELSE UNCHANGED events
  /\ pick' = [pick EXCEPT ![s].cycles[t] = @ - 1,
                          ![s].ctl[t] = IF pick[s].cycles[t] = 1 THEN "failed" ELSE "scan"]
  /\ UNCHANGED <<jobVars, runners, caps, ringVars, cands, runs, reset, reported, orphans>>

(* Any other error: the picker returns nothing.                            *)
ScanFails(s, t) ==
  /\ pick[s].ctl[t] = "scan"
  /\ Event
  /\ pick' = [pick EXCEPT ![s].ctl[t] = "failed"]
  /\ UNCHANGED <<jobVars, runners, caps, ringVars, cands, runs, reset, reported, orphans>>

(* Phase II.                                                               *)
Adopt(s, j) ==
  /\ j \in cands[s] \cap fresh[s]
  /\ job[j].exec # s
  /\ Write(j, [job[j] EXCEPT !.due = "later", !.exec = s])
  /\ pick' = [pick EXCEPT ![s].got = @ \cup {j}]
  /\ orphans' = orphans \ {j}
  /\ cands' = [cands EXCEPT ![s] = @ \ {j}]
  /\ UNCHANGED <<runners, caps, ringVars, runs, reset, reported, events>>

RefuseOwn(s, j) ==
  /\ j \in cands[s] \cap fresh[s]
  /\ job[j].exec = s
  /\ Write(j, [job[j] EXCEPT !.due = "later"])
  /\ cands' = [cands EXCEPT ![s] = @ \ {j}]
  /\ UNCHANGED <<runners, caps, ringVars, pick, runs, reset, reported, orphans, events>>

Skip(s, j) ==
  /\ j \in cands[s] \ fresh[s]
  /\ cands' = [cands EXCEPT ![s] = @ \ {j}]
  /\ UNCHANGED <<jobVars, runners, caps, ringVars, pick, runs, reset, reported, orphans, events>>

AdoptConflict(s, j) ==
  /\ j \in cands[s]
  /\ Event
  /\ cands' = [cands EXCEPT ![s] = @ \ {j}]
  /\ UNCHANGED <<jobVars, runners, caps, ringVars, pick, runs, reset, reported, orphans>>

(* The other adoptions that are under way in a table when j's fails.       *)
StillUnderWay(s, t, j) == {i \in cands[s] \cap fresh[s] : TableOf[i] = t} \ {j}

(* One adoption fails with another error: the picker returns nothing.  The *)
(* jobs it had keep its name; adoptions under way go on without it.        *)
AdoptFails(s, j) ==
  /\ j \in cands[s]
  /\ Event
  /\ LET t    == TableOf[j]
         lost == {i \in pick[s].got : TableOf[i] = t}
     IN  /\ cands' = [cands EXCEPT ![s] = {i \in @ : TableOf[i] # t}]
         /\ late' = [late EXCEPT ![s] = @ \cup StillUnderWay(s, t, j)]
         /\ pick' = [pick EXCEPT ![s].ctl[t] = "failed", ![s].got = @ \ lost]
         /\ orphans' = orphans \cup {i \in lost : job[i].exec = s}
  /\ UNCHANGED <<job, fresh, runners, caps, ringVars, runs, reset, reported>>

(* An adoption that outlived its pick, while the next one may be on: what  *)
(* it takes, nobody starts.  It may also fail, or never come.              *)
AdoptLate(s, j) ==
  /\ j \in late[s]
  /\ Write(j, [job[j] EXCEPT !.due = "later", !.exec = s])
  /\ orphans' = IF job[j].exec = s THEN orphans ELSE orphans \cup {j}
  /\ UNCHANGED <<runners, caps, ringVars, pick, cands, runs, reset, reported, events>>

(* A plausible fault: the adoptions are not awaited.                       *)
PickerEarly(s, t) == pick[s].ctl[t] # "scan"

(* A plausible fault: a picker that fails does not resolve.                *)
PickerReturned(s, t) == pick[s].ctl[t] = "adopt" /\ \A j \in cands[s] : TableOf[j] # t

PickerDone(s, t) ==
  \/ pick[s].ctl[t] = "failed"
  \/ pick[s].ctl[t] = "adopt" /\ \A j \in cands[s] : TableOf[j] # t

(* Promise.all is through: every adopted job is started, with its runner   *)
(* or the ErrorRunner, and the token is given back.                        *)
StartJobs(s) ==
  /\ pick[s].on
  /\ \A t \in TableSet : PickerDone(s, t)
  /\ runs' = runs \cup {[job |-> j, by |-> s, able |-> TypeOf[j] \in runners[s],
                         ctl |-> "starting"] : j \in pick[s].got}
  /\ pick' = [pick EXCEPT ![s] = NoPick]
  /\ token' = IF token.at = s THEN [token EXCEPT !.at = None] ELSE token
  /\ UNCHANGED <<jobVars, runners, caps, up, ring, cands, reset, reported, orphans, events>>

(***************************************************************************)
(* The runs                                                                *)
(***************************************************************************)

Owned(r) == job[r.job].exec = r.by

Read(r) ==
  /\ r.ctl = "starting"
  /\ runs' = (runs \ {r}) \cup (IF Owned(r) THEN {[r EXCEPT !.ctl = "running"]} ELSE {})
  /\ UNCHANGED <<jobVars, runners, caps, ringVars, pick, cands, reset, reported, orphans, events>>

(* A first read or an error transaction fails: the job keeps its owner.    *)
RunRejects(r) ==
  /\ Event
  /\ runs' = runs \ {r}
  /\ orphans' = IF Owned(r) THEN orphans \cup {r.job} ELSE orphans
  /\ UNCHANGED <<jobVars, runners, caps, ringVars, pick, cands, reset, reported>>

(* What an outcome makes of the header of j: it comes again later, with    *)
(* `retries` left, or never.                                               *)
Later(h, retries) == [h EXCEPT !.due = "later", !.exec = None, !.retries = retries]

Never(h) == [h EXCEPT !.due = "never", !.exec = None]

(* computeNextSchedule: another occurrence, or none is left.               *)
RepeatOrFinish(j, h, retries) ==
  {Never(h)} \cup IF j \in Repeating THEN {Later(h, retries)} ELSE {}

(* The success transaction.  A body may return the time to run again; that *)
(* keeps the retries, an occurrence restores them.                         *)
Succeeded(j, h) == {Later(h, h.retries)} \cup RepeatOrFinish(j, h, MaxRetries)

(* A plausible fault: a job without a runner costs no retry.               *)
FreelyFailed(j, h, able) == {Later(h, h.retries)}

(* A plausible fault: the budget is not asked for.                         *)
UnbudgetedFailed(j, h, able) == {Later(h, h.retries - 1)}

(* The error transaction: a retry, if one is left; a fatal error asks for  *)
(* none, and a job that vanished is over.  The ErrorRunner's error is      *)
(* recoverable.                                                            *)
Failed(j, h, able) ==
  (IF h.retries > 0 THEN {Later(h, h.retries - 1)} ELSE RepeatOrFinish(j, h, h.retries))
  \cup IF able THEN {Never(h)} \cup RepeatOrFinish(j, h, h.retries) ELSE {}

Succeed(r) ==
  /\ r.ctl = "running"
  /\ r.able
  /\ runs' = runs \ {r}
  /\ IF Owned(r)
     THEN /\ \E h \in Succeeded(r.job, job[r.job]) : Write(r.job, h)
          /\ orphans' = orphans \ {r.job}
     ELSE UNCHANGED <<jobVars, orphans>>
  /\ UNCHANGED <<runners, caps, ringVars, pick, cands, reset, reported, events>>

(* The error transaction does not ask whose the job is.                    *)
Fail(r) ==
  /\ r.ctl = "running"
  /\ runs' = runs \ {r}
  /\ \E h \in Failed(r.job, job[r.job], r.able) : Write(r.job, h)
  /\ orphans' = orphans \ {r.job}
  /\ UNCHANGED <<runners, caps, ringVars, pick, cands, reset, reported, events>>

(* The run has noticed that its job is another's.                          *)
Readopted(r) ==
  /\ r.ctl = "running"
  /\ r.able
  /\ ~Owned(r)
  /\ runs' = runs \ {r}
  /\ UNCHANGED <<jobVars, runners, caps, ringVars, pick, cands, reset, reported, orphans, events>>

(***************************************************************************)
(* resetLostJobs                                                           *)
(***************************************************************************)

(* A plausible fault: the first picker only is asked.                      *)
FirstPicker == <<Tables[1]>>

(* Every picker is asked, one after the other.                             *)
Pickers == Tables

(* The ring gives a member up, and one of the others resets its jobs.  (A  *)
(* ring that is wrong about a member is in WorkflowCore.)                  *)
Unresponsive(d, e) ==
  /\ {d, e} \subseteq ring
  /\ d # e
  /\ up[d] # "down"
  /\ up[e] = "down"
  /\ reset[d] = NoReset
  /\ ring' = ring \ {e}
  /\ token' = Remade(ring')
  /\ reset' = [reset EXCEPT ![d] = [of |-> e, left |-> Pickers, cycles |-> ResetCycles,
                                           gone |-> TRUE]]
  /\ UNCHANGED <<jobVars, runners, caps, up, pick, cands, runs, reported, orphans, events>>

JobsIn(e, t) == {j \in Jobs : job[j].exec = e /\ TableOf[j] = t}

(* A plausible fault: giving up is not reported.                           *)
NoAlarm(cycles) == FALSE

(* "Escape counter hit".                                                   *)
Alarm(cycles) == cycles = 0

(* One transaction.  The loop over a table ends when it found nothing or   *)
(* its cycles ran out; the alarm compares the counter only.                *)
ResetTxn(d) ==
  /\ reset[d] # NoReset
  /\ LET this   == reset[d]
         lost   == JobsIn(this.of, Head(this.left))
         cycles == this.cycles - 1
     IN \E S \in SUBSET lost :
          /\ Cardinality(S) <= ResetLimit
          /\ Cardinality(S) < ResetLimit => S = lost
          /\ job' = [j \in Jobs |-> IF j \in S THEN [job[j] EXCEPT !.due = "due", !.exec = None]
                                    ELSE job[j]]
          /\ fresh' = [s \in Servers |-> fresh[s] \ S]
          /\ late' = [s \in Servers |-> late[s] \ S]
          /\ orphans' = orphans \ S
          /\ reported' = (reported \/ Alarm(cycles))
          /\ reset' = [reset EXCEPT ![d] =
               IF S # {} /\ cycles # 0 THEN [this EXCEPT !.cycles = cycles]
               ELSE IF Len(this.left) = 1 THEN NoReset
               ELSE [this EXCEPT !.left = Tail(this.left), !.cycles = ResetCycles]]
  /\ UNCHANGED <<runners, caps, ringVars, pick, cands, runs, events>>

ResetFails(d) ==
  /\ reset[d] # NoReset
  /\ reset' = [reset EXCEPT ![d] = NoReset]
  /\ reported' = TRUE
  /\ UNCHANGED <<jobVars, runners, caps, ringVars, pick, cands, runs, orphans, events>>

(***************************************************************************)
(* Changes                                                                 *)
(***************************************************************************)

(* AddRunner(type)(runner or null), for the types there are jobs of; the   *)
(* bitmap is rebuilt.                                                      *)
AddRunner(s, t) ==
  /\ up[s] # "down"
  /\ Event
  /\ \E has \in BOOLEAN :
       runners' = [runners EXCEPT ![s] = IF has THEN @ \cup {t} ELSE @ \ {t}]
  /\ caps' = [caps EXCEPT ![s] = capabilitiesToBuffer(runners'[s], AllSorted)]
  /\ UNCHANGED <<jobVars, ringVars, pick, cands, runs, reset, reported, orphans>>

(* Destroy() stops neither picks nor runs.                                 *)
Destroy(s) ==
  /\ up[s] = "up"
  /\ Event
  /\ up' = [up EXCEPT ![s] = "destroyed"]
  /\ UNCHANGED <<jobVars, runners, caps, ring, token, pick, cands, runs, reset, reported, orphans>>

(* The ring lets a destroyed member go, and takes in one that started.     *)
Leave(s) ==
  /\ s \in ring
  /\ up[s] = "destroyed"
  /\ ring' = ring \ {s}
  /\ token' = Remade(ring')
  /\ UNCHANGED <<jobVars, runners, caps, up, pick, cands, runs, reset, reported, orphans, events>>

Join(s) ==
  /\ s \notin ring
  /\ up[s] = "up"
  /\ ring' = ring \cup {s}
  /\ token' = Remade(ring')
  /\ UNCHANGED <<jobVars, runners, caps, up, pick, cands, runs, reset, reported, orphans, events>>

Crash(s) ==
  /\ up[s] # "down"
  /\ Event
  /\ up' = [up EXCEPT ![s] = "down"]
  /\ pick' = [pick EXCEPT ![s] = NoPick]
  /\ cands' = [cands EXCEPT ![s] = {}]
  /\ fresh' = [fresh EXCEPT ![s] = {}]
  /\ late' = [late EXCEPT ![s] = {}]
  /\ runs' = {r \in runs : r.by # s}
  /\ reset' = [reset EXCEPT ![s] = NoReset]
  /\ UNCHANGED <<job, runners, caps, ring, token, reported, orphans>>

(* It starts again under its old issuer_id, with the jobs that carry it,   *)
(* whether or not the ring has noticed.                                    *)
Restart(s) ==
  /\ up[s] = "down"
  /\ up' = [up EXCEPT ![s] = "up"]
  /\ runners' = [runners EXCEPT ![s] = Runners[s]]
  /\ caps' = [caps EXCEPT ![s] = capabilitiesToBuffer(Runners[s], AllSorted)]
  /\ ring' = ring \ {s}
  /\ token' = Remade(ring')
  /\ reset' = [d \in Servers |-> IF reset[d].of = s THEN [reset[d] EXCEPT !.gone = FALSE]
                                 ELSE reset[d]]
  /\ orphans' = orphans \cup {j \in Jobs : job[j].exec = s}
  /\ UNCHANGED <<jobVars, pick, cands, runs, reported, events>>

(* Some server has the job in its hands.                                   *)
Served(j) ==
  \/ \E s \in Servers : job[j].exec = s /\ j \in pick[s].got
  \/ \E r \in runs : r.job = j /\ Owned(r)

(* The time of a job comes: a backoff, or a lease.  A lease outlasts the   *)
(* work it covers, unless a server stalls; that is an event.               *)
Lapse(j) ==
  /\ job[j].due = "later"
  /\ IF Served(j) THEN Event ELSE UNCHANGED events
  /\ Write(j, [job[j] EXCEPT !.due = "due"])
  /\ UNCHANGED <<runners, caps, ringVars, pick, cands, runs, reset, reported, orphans>>

(***************************************************************************)
(* The specification                                                       *)
(***************************************************************************)

PickStep(s) ==
  \/ \E t \in TableSet : Scan(s, t) \/ ScanConflict(s, t) \/ ScanFails(s, t)
  \/ \E j \in cands[s] : \/ Adopt(s, j) \/ RefuseOwn(s, j) \/ Skip(s, j)
                         \/ AdoptConflict(s, j) \/ AdoptFails(s, j)
  \/ \E j \in late[s] : AdoptLate(s, j)
  \/ StartJobs(s)

RunStep(r) == Read(r) \/ RunRejects(r) \/ Succeed(r) \/ Fail(r) \/ Readopted(r)

Next ==
  \/ \E s \in Servers : \/ OnToken(s) \/ PickStep(s) \/ ResetTxn(s) \/ ResetFails(s)
                        \/ Destroy(s) \/ Leave(s) \/ Join(s)
                        \/ Crash(s) \/ Restart(s)
                        \/ \E j \in Jobs : AddRunner(s, TypeOf[j])
  \/ \E d, e \in Servers : Unresponsive(d, e)
  \/ \E r \in runs : RunStep(r)
  \/ \E j \in Jobs : Lapse(j)

(* What the event loop of a server gets done.  A pick is a bounded number  *)
(* of these steps.                                                         *)
Picks(s) ==
  \/ \E t \in TableSet : Scan(s, t)
  \/ \E j \in cands[s] : Adopt(s, j) \/ RefuseOwn(s, j) \/ Skip(s, j)
  \/ StartJobs(s)

Runs(s, j) ==
  \E r \in runs : /\ r.by = s /\ r.job = j
                  /\ Read(r) \/ Succeed(r) \/ Fail(r) \/ Readopted(r)

(* The ring notices who is there and who is gone.                          *)
Notices ==
  \E e \in Servers : Join(e) \/ Leave(e) \/ \E d \in Servers : Unresponsive(d, e)

(* Transactions end, bodies return or run into their deadline, the ring    *)
(* goes on, time passes.                                                   *)
Fairness ==
  /\ WF_vars(\E s \in Servers : OnToken(s))
  /\ \A s \in Servers :
       WF_vars(Picks(s)) /\ WF_vars(ResetTxn(s)) /\ \A j \in Jobs : WF_vars(Runs(s, j))
  /\ WF_vars(Notices)
  /\ \A j \in Jobs : WF_vars(Lapse(j))

Spec == Init /\ [][Next]_vars /\ Fairness

(***************************************************************************)
(* Properties                                                              *)
(***************************************************************************)

(* The variables have their types; a pick asks for at least one job and at *)
(* most two batches, whatever the loads are.                               *)
TypeOK ==
  /\ job \in [Jobs -> JobState]
  /\ runners \in [Servers -> SUBSET Types]
  /\ caps \in [Servers -> Buffer]
  /\ up \in [Servers -> {"up", "destroyed", "down"}]
  /\ ring \in SUBSET Servers
  /\ token \in TokenState
  /\ pick \in [Servers -> PickState]
  /\ cands \in [Servers -> SUBSET Jobs]
  /\ fresh \in [Servers -> SUBSET Jobs]
  /\ late \in [Servers -> SUBSET Jobs]
  /\ runs \in SUBSET RunState
  /\ reset \in [Servers -> ResetState]
  /\ reported \in BOOLEAN
  /\ orphans \in SUBSET Jobs
  /\ events \in Nat

(* A server takes a job it has no runner for only when the ring has been   *)
(* asked, in a whole round, and no member had one: encoding, merging and   *)
(* decoding the bitmaps lose nothing on the way.                           *)
RoutedRight ==
  [][\A s \in Servers : \A j \in cands'[s] \ cands[s] :
       TypeOf[j] \notin runners[s] =>
         ~pick[s].provisional /\ TypeOf[j] \notin pick[s].shown]_vars

(* A job that carries the name of a server that is not down is in that     *)
(* server's hands, all the way from the adoption, through the other        *)
(* pickers, to the outcome; or it is an orphan: it got that name, and has  *)
(* kept it since, by one of the failures that are known (an adoption       *)
(* failed beside its own or came late, its run rejected, or the server     *)
(* started again under its name).                                          *)
OwnedIsServed ==
  \A j \in Jobs : job[j].exec # None /\ up[job[j].exec] # "down" =>
    Served(j) \/ j \in orphans

(* When a reset has gone through the tables of a server that has been down *)
(* all the while, no job carries its name any more; or the failure was     *)
(* reported.                                                               *)
ResetIsComplete ==
  [][\A d \in Servers :
       /\ reset[d] # NoReset
       /\ reset'[d] = NoReset
       /\ up'[d] # "down"
       /\ reset[d].gone
       => reported' \/ \A j \in Jobs : job'[j].exec # reset[d].of]_vars

(* Every visit of the token is answered, also through conflicts.           *)
TokenAnswered == \A s \in Servers : pick[s].on ~> ~pick[s].on

(* A run of j leaves it to come again without a retry: its body returned a *)
(* time, or another occurrence is due.                                     *)
Again(j) ==
  /\ \E r \in runs : r.job = j /\ (Succeed(r) \/ (j \in Repeating /\ Fail(r)))
  /\ job'[j] # job[j] /\ job'[j].due = "later" /\ job'[j].retries >= job[j].retries

(* Every job ends or comes again for ever, also one no server has a runner *)
(* for, and also when the server that has it crashes: retries, lost        *)
(* leases, refused adoptions and the ErrorRunner do not keep it going.     *)
(* The exceptions: it is left an orphan, or no server is up any more.      *)
EveryJobEnds ==
  \A j \in Jobs :
    \/ <>(job[j].due = "never" \/ \A s \in Servers : up[s] # "up")
    \/ []<><<Again(j)>>_vars
    \/ <>[](j \in orphans)

=============================================================================
