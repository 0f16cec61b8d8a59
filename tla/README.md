# Verification of workflow-core

workflow-core runs persistent jobs on a ring of servers. A job lives in a table
with a header: when it is due (`at`), who runs it (`execution_id`), how long a
lease lasts (`lost_deadline_ms`), how long a run may be silent
(`progress_deadline_ms`), a retry policy and a repeat schedule. The header is
all that servers share: whoever moves `at` into the future and writes its name
has the job until `at` has passed.

This directory holds TLA+ models of that protocol and of the parts around it,
the TLC configurations that check them on small instances, and proofs that hold
for every value of the constants. Paths are relative to `src/src/` unless they
begin with `README.md`, which is the repository's.

## 1. The system

| Component | State | Operations | What makes it correct |
|---|---|---|---|
| Job header (`workflowTypes.ts`) | `at`, `execution_id`, deadlines, retries with the snapshot `_initial`, `repeatSchedule` | rewritten by picker, runner, reset | an owned job can be found again; the retry ledger balances |
| `WorkflowPicker` (`workflowPicker.ts`) | none between picks; the candidates of a scan during one | `pick` (scan, then one transaction per candidate), `resetLostJobs` | a live lease is never taken, however old the scan; nothing is adopted without a runner for ever |
| `JobRunner` (`jobRunner.ts`) | one instance per adopted job: progress and pushback timers, memoised job, `completed`; static running counts | `Run`, `GetJob`, `Progress`, `Wait`; success and error transactions | at most one run of a job commits; a run that lost its job leaves it alone; retries are charged once |
| `WorkflowEngine` (`workflowEngine.ts`) | runners by type, pickers, named counters | `onToken`, `pick`, `startJob`, `onServerUnresponsive`, `resetLostJobs`, `Destroy` | every adopted job is started; the load it reports is the load it has; a dead server's jobs come back |
| Repeat schedules (`schedule.ts`) | `repeatSchedule` in the header | `computeNextSchedule` | the first date in the future that matches; a schedule ends when `until` says so |
| `SimulatedWorkflowClock` (`simulatedWorkflowClock.ts`) | `nowMs`, `pending`, `seqCounter`, intervals | `sleep`, `setTimer`, `setTimerInterval`, cancel, `advance`, `setTime` | entries fire in order, none late, none twice; `advance` returns |
| `WorkflowCounter` (`counter.ts`) | current counter, history of divisions, start of the window | `pegValue`, `getCurrentValue` | a window of the stated length, nothing counted twice |
| `InMemoryJobStorage` (`inMemoryStorage.ts`) | the MVCC store, its `at` and executor indices, watchers | `doTn`, `waitFor` | transactions are atomic; indices agree with the table |
| Capabilities (`workflowCapabilities.ts`) | bitmaps | encode, decode, merge | decode inverts encode; merge is union, also for different lengths |
| `SimulatedJobRunner`, errors, `utils.ts`, interfaces | - | - | - |
| Token ring, MVCC store | external libraries | tokens, unresponsive servers; serializable transactions | - |

How they interact. The ring gives a server a token; `onToken` runs `pick` on
every picker; `pick` scans the `at` index on a snapshot, adopts each candidate
in a transaction of its own, and hands the adopted jobs to the engine, which
starts a `JobRunner` for each and does not wait for it. The runner reads the
job, races the body against `outofProcessError` (raised by the timers) and
commits the outcome. When the ring declares a server unresponsive, one of the
others resets the jobs that carry its name. Everything between two transactions
is asynchronous: other servers, timers and other jobs run in between.

What is hard here: leases on clocks that differ; scans that are out of date
when acted on; a body that is not cancelled when it loses the race; a run that
learns late, or never, that it lost its job; transactions that fail after the
work is done; servers that are declared dead and are not; a restart under the
same name; calendar arithmetic; a shared simulated clock advanced by several
callers at once. `PROJECT.json` lists each of these as a hazard at the line
where it bites, with the properties aimed at it.

## 2. Modules

| Module | Models | Role |
|---|---|---|
| `JobHeader` | every rewriting of a header | operators on one record, used by `WorkflowCore` and `JobRunner` |
| `WorkflowCore` | picker, runner, engine start, reset, crash and restart over one table, with time and leases | the core of the system |
| `JobExclusion` | what the servers promise together | abstract specification of `WorkflowCore` |
| `JobStore` | the committed value of one job | the shared state of `JobRunner` |
| `JobRunner` | `Run()`, `Progress()` and the timers, one action per await | the runner inside one process |
| `Capabilities` | bitmaps: encode, decode, merge | operators, used by `Engine` |
| `Engine` | tokens, several pickers, routing, starting, resets, servers that come and go | the engine above the picker and the runner |
| `Counter` | the window of divisions | component of its own |
| `Schedule` | `computeNextSchedule` and a job that repeats by it | pure algorithm and the loop around it |
| `SimulatedClock` | the simulated clock with overlapping `advance` calls | component of its own |
| `MC...` | constant values, symmetry, schedules | instances for TLC |
| `..._proofs` | - | theorems |

Three modules look at a job from three distances. `WorkflowCore` has time and
leases, several servers and one table; `Progress()` is one step. `JobRunner`
has no time and one server, and takes every await apart. `Engine` reduces a
header to due, owner and retries, and a run to its first read and its outcome,
and has what lies above: tables, tokens, types. `JobHeader` is shared by the
first two, so a header is rewritten in one way only; `Engine` repeats it on its
reduced header.

### WorkflowCore

State. `jobs` and `header` are the table; `pick[e]` is the pick of server `e`:
its candidates, and in `late` the adoptions that go on after `Promise.all`
rejected; `runs[r]` is one `JobRunner` with the body it started; `alive`;
`now`, global time. Each server reads `Clock(e) = now + Skew[e]`.

Actions. One storage transaction is one action: the snapshot scan (`Scan`), one
adoption (`Adopt`, `AdoptLate`, `RefuseOwn`, `Skip`, `Conflict`), the read that
starts a run (`GetJob`), `Progress`, the pushback timer (`Pushback`), the
success and the error transaction (`CommitSuccess`, `CommitError`), one batch of
`resetLostJobs`. A failing transaction is a `Fault` of its own
(`PickFails`, `StartFails`, `PushbackFails`, `CommitSuccessFails`,
`CommitErrorFails`). What decides the race is an action each: `Return`,
`Throw`, `ProgressThrows`, `ProgressDeadlineFires`. A run that has settled while
its body goes on is a `zombie`, whose `Progress` still renews the lease.

    runs[r].ctl   code
    adopted       adopted in pick(), which has not returned yet
    starting      startJob() called, Run() is reading the job
    racing        Promise.race([runJob(), outofProcessError])
    returned      the body won; success transaction next
    failing       in the catch block; error transaction next
    zombie        Run() has returned, runJob() has not

Two specifications. `Spec` assumes nothing about time: a server may stall for
any time and the ring may suspect a server that is up. `TimelySpec` is the
deployment the lease is made for: time does not pass a step that has been due
for `Latency` (`Timely`), and only servers that are down are reset.

What is abstracted. One configuration for all jobs, with one periodic schedule
in the header (the calendar is `Schedule`). Retry policies have an integer
exponent. `custom-recoverable`, `payloadMismatch` and `progress-deadline` are
one error, the code treats them alike. `last_progress`, payloads, logs, hooks,
counters and job types are left out. A body that returns a time returns one in
the future, as documented. The storage transaction is atomic and serializable,
as the library's is.

### JobExclusion

For each job the set of runs that work on it and whether it is open, finished or
gone. A run takes a job nobody works on; runs yield; the one that works on a job
completes it; a job may be removed under a run's feet. A job that is finished
stays finished. `WorkflowCore` instantiates it with `workers` the runs between
adoption and commit and `status` read off the table.

### JobRunner and JobStore

State. `run[r]` is one instance: where `Run()` is, the two timers, the calls of
`ResetJob()` under way (one of the body, several of the pushback timer, which
may go off again before its last call is back), the transactions nobody awaits
(`stray`, counted by kind), and the fatal-error callback. `running` is the
static count all instances share. `present`, `header` and `mail` (the payload is
a `scheduled_email`) are the store.

    run[r].ctl    code
    reading       GetJob() waits for its first read
    racing        Promise.race
    returned      the body won, clearTimers() is done
    failing       in the catch block, clearTimers() is done
    committed     the outcome is written, Run() has not gone on yet
    settled       Run() has returned, `completed` is set
    lost, unread  Run() returned, or threw, the error of its first read
    rejected      the error transaction failed; Run() threw

Actions. `Progress()` is `ProgressCalled`, `ProgressWritten` (its transaction)
and `ProgressReturns` (its continuation, which arms both timers whatever became
of the run); the pushback timer likewise, with the case that `GetJob()` found no
progress timer and arms one (`rearm`). `Raised` is `outofProcessError`: it wins
the race or is not heard. After `Run()` has returned, `GetJob()` throws before
anybody awaits the transaction: that is a `stray`. `AttemptRolledBack` is an
attempt of the error transaction that the store repeats: what it assigned to
`onFatalErrorCallback` stays. Other servers and the application appear as
`Adopt`, `Reset` and `Clear`, at any moment.

`Notifiable` is which outcomes set the callback (`jobRunner.ts:408-428`): fatal
and vanished ones, a rescheduled error only if the job's schedule is periodic and
forever (`header.forever`), and none of a `scheduled_email`. `CommitError` writes nothing
for a run that knows it lost its job, and its outcome is then `readopted`.

There is no time: an armed timer may fire, and a lease may end, whenever it
likes. That adds behaviours and so is sound for what is checked. A body calls
`Progress()` and awaits it; a body that calls it twice without awaiting, and
payload updates, are left out.

### Capabilities and Engine

A byte is the set of its bits and a buffer a sequence of bytes, so that encoding,
merging and decoding are set operations with the code's positions, byte counts
and lengths.

`Engine` has the token: whose turn it is, whom it has yet to visit, whether it is
provisional, the bitmap it carries and the one it gathers. `shown` and
`nextShown` are ghosts: the types behind the bitmaps. `pick[s]` is one pick:
`ctl[t]` of the picker of table `t`, its conflict cycles, what it `got`; `cands`
are candidates not yet tried, `fresh` those of them that nobody wrote since the
scan (the comparison of `at`). `runs` are runs from `startJob()` on, `able` when
the engine found a runner and not the `ErrorRunner`. `reset[d]` is a
`resetLostJobs()`: whose jobs, the tables to go, the cycles left.

`OnToken` starts all pickers, `Scan` and the adoptions go on side by side,
`StartJobs` is what follows `Promise.all`. `ScanConflict` uses up a cycle; what
causes one conflict may cause all eleven, so only the first of a pick is an
event and the cycles do run out. `AdoptFails` loses what its picker got. The
other adoptions of that picker go on without it (`late`) and may commit while the
server's next pick is on (`AdoptLate`), or never. What they take is an orphan, and
so are the jobs a run leaves that rejects in its first read or its error
transaction (`RunRejects`) and the jobs that carry the name of a server that
starts again (`Restart`). `orphans` holds exactly the jobs that got their owner in
one of these ways: an adoption by another server, an outcome or a reset takes a
job out of it.

`Succeeded` and `Failed` are the branches of the two transactions: the body
returned a time, the schedule has another occurrence or none, a retry is left or
not, the error is fatal, the job vanished. A job in `Repeating` may have another
occurrence every time, so it may come again for ever. `Alarm` is the escape
counter of `resetLostJobs`, which looks at the counter only.

`Lapse` is time: a backoff or a lease ends. That a lease ends under a job that is
being worked on, like every failure and change (`AddRunner`, `Destroy`, `Crash`),
is an `Event`, of which there are `MaxEvents`.

The ring is external. From what the engine sees of it, `Passed`, `Remade`,
`Join`, `Leave` and `Unresponsive` take: a token visits each member once a
round; its first round is provisional; a change of membership makes a new token;
only members that are down are given up (wrong suspicions are in
`WorkflowCore`). All servers have the same `allSortedCapabilities`.

### Counter

A value is reduced to how much was pegged at each time, so that one can ask where
a peg went; `merge` is addition. `MissedBeats`, `Shifted`, `Aggregate` are
`ResetDivisions`, `PegValue` is `pegValue`, and `CurrentValue` is
`getCurrentValue`, which moves nothing. Time is counted in units of which a
division has several, so that resets fall between divisions.

### Schedule

A moment is a day: all schedule types but `periodic` move by days of the local
calendar and keep the time of day. `RepeatOn` is the body of the loop,
`Step` adds `until`, and the actions `Begin`, `Iterate`, `BombOut` are the loop
with its cap. The calendar (`Date`) is modelled by arithmetic on days since
2000-01-01, month lengths and leap years included, and is marked external. The
header is the one the code mutates in place: what `until` was charged stays
charged. `Regular` names the schedules the properties and theorems speak of: a
monthly one starts on its date, an annual one on a day that its month has in every
year. `MCSchedule` asserts that those of `schedule_next` are regular, and, as
`MonthsCountFromZero`, that an annual schedule goes to the month after the one it
names by the comment at the field (section 3).

### SimulatedClock

`pending` holds the entries that are neither fired nor cancelled. What runs
between two awaits of `advance()` is one action, so calls overlap exactly at
`flushMicrotasks()`. `Tick` is the callback of an interval and what follows it:
the callback may throw, cancel its interval, or cancel it and set it again, and
`advance()` then asks whether it was cancelled before it enqueues the next entry.
What else a callback does (set other timers, advance the clock) is a later step of
the model: a callback that moves the clock before it returns is left out. A
cancelled entry leaves `pending` at once; in the code it is skipped and pruned.

## 3. What is checked

| Run | Specification and instance | Shows |
|---|---|---|
| `core_shared` | `Spec`; 2 jobs in one batch that repeat once, 2 servers two ticks apart, 2 runs, 1 retry, lease of 1, time to 2, 1 fault | `TypeOK`, `RetryLedger`, `OwnedIsReachable`, `NoEarlySteal` |
| `core_timely` | `TimelySpec`; 1 job that repeats, 2 servers a tick apart, 2 runs, time to 10, 2 faults | `Exclusive`, `Implements` |
| `runner` | `FairSpec`; 1 run whose job others adopt, reset and delete and which repeats forever or not and is a `scheduled_email` or not, 2 calls of `Progress()`, 2 pushback calls at once, 1 retry, 1 fault | `TypeOK`, `RacingIsTimed`, `NotificationMatches`, `LateWritesOnlyRenew`, `RunEnds`, `TimersDie` |
| `engine` | `Spec`; 2 servers with different runners of which one joins later, 2 tables of which the first is empty, 2 jobs in one batch of which one repeats, 9 types of which one has no runner, 1 event | `TypeOK`, `OwnedIsServed`, `RoutedRight`, `ResetIsComplete` |
| `engine_ends` | `Spec` with its fairness; both jobs in one table, 1 retry, a reset of one job a transaction and one transaction a table, 1 event | `ResetIsComplete`, `TokenAnswered`, `EveryJobEnds` |
| `counter` | `Spec`; 2 divisions of 2 units, time to 16 | `TypeOK`, `CountedOnce`, `WindowIsComplete` |
| `schedule_next` | 5 schedule types, `until` of each kind, runs 0, 1, 33 or 70 days late, to March 2025, cap of 40 steps | `TypeOK`, `NextIsFirst` |
| `clock_shared` | `FairSpec`; 2 calls, 1 interval, 2 entries, time to 5, `setTime` back to 0 | `TypeOK`, `NoneOverdue`, `IntervalsTick`, `AdvanceReturns` |

Bounds. In `core_shared` a lease of one tick that the slow server takes at its
time 2 is over on the fast server's clock, which shows 4: jobs do pass directly from
one server to the other, also under a run that is racing, and the run that lost its job
writes its errors beside its successor. The picker's repair of the progress deadline
applies there (a lease below twice the deadline). The retry can be used up by runs
that lost their job to a reset or to the other server and interleave with their
successors, and the batch of two lets a failed adoption leave another in flight. In `core_timely` the lease is the
shortest that `GoodTiming` admits (`1 + 5 * 1 + 1`; TLC evaluates `GoodTiming`
there, so the theorems' hypothesis has an instance); with a lease of 6, TLC finds
`Exclusive` violated: the sum is tight. In `runner` two calls make the second meet
what the first left behind, and one fault fails or rolls back any one transaction;
`MaxPushbacks` is two so that a pushback call meets the one before it. A second
instance would meet the first in the header only, where other executors already do
everything a run can. The safety properties are proved for any number of runs,
calls and faults. In `engine` nine types put the last one alone into a second
byte; one job can be run by one server only and the other by nobody; a batch of
two lets an adoption fail beside another, which then comes late; the empty table is
one a reset that stops too early would stop at; and one event is each kind of
failure and change. Liveness, and the escape counter, which one transaction
exhausts, need the single table of `engine_ends`. The safety properties of `Engine`
are proved without these bounds. `ASSUME TargetJobsIsCeil` compares the batch size
with a definition of its own for all loads to 15. In `counter` sixteen units are
four durations, enough for quiet times longer than the window. In `schedule_next`
the cap is 40 instead of 1000 so that daily schedules reach it within 70 days;
`LastDay` gives each schedule more than a year and a leap day. In `clock_shared`
`MaxSeq` bounds what callers enqueue; what intervals enqueue is bounded by time.
`MaxTime`, `MaxFaults`, `MaxEvents`, `MaxCalls`, `Runs`, `Calls` and `Intervals`
are bounds of the model and named so, as is `MaxPushbacks`; `Endless` and `Mails`
say which kinds of jobs there are. Deadlock checking is off where time runs out
(`WorkflowCore`, `Counter`) and where everything may come to its end (`Schedule`,
`JobRunner`, `Engine`).

Fairness. The safety properties need none. `FairSpec` of the clock is weakly
fair to the continuations of each `advance()`: what follows an `await` of
resolved promises and one `setImmediate` is always run by the event loop.
`AdvanceReturns` then needs that callers enqueue finitely many entries and that
no interval has period 0; an interval of period 0 keeps `advance()` busy for
ever. `FairSpec` of `JobRunner` is weakly fair to what the event loop does:
transactions come back (each but finitely many with success), continuations are
run, armed timers go off. Nothing is assumed of bodies, which may hang, of other
servers or of callers. `Spec` of `Engine` is fair to the picks and the resets of
each server, to the runs of each job on it (they are independent promises), to the
token's next visit, to the ring's noticing who is gone, and to the time of each
job; `EveryJobEnds` rests on bodies that return or run into their deadline, which
is what `RunEnds` shows.

What the properties are after, where it is not obvious:

- `RacingIsTimed`: a body that hangs is ended by the progress timer only, and two
  kinds of calls cancel and set that timer with awaits in between.
- `LateWritesOnlyRenew`, `TimersDie`: `clearTimers()` comes too early for a call
  under way, whose continuation arms the timers of a run that is over. They fire
  once more each; what they write may renew the lease of the executor's next
  run of the job, and nothing else; then they are gone because `completed` is set.
- `RunEnds` rests on a body that calls `Progress()` finitely often (`MaxCalls`):
  each call sets the deadline again, and a body that calls it for ever may run for
  ever, as it should. `TimersDie` speaks of runs that returned; a run whose error
  transaction failed never sets `completed`, and the timers it may still have go on.
- `NotificationMatches` is what lines 408-428 of `jobRunner.ts` mean, `Notifiable`,
  which is less than the documentation says (below). It excepts runs with
  an attempt that was rolled back: there the callback of that attempt may survive.
- `RetryLedger` says that the budget matches what was consumed, not who consumed it:
  that a stale run charges its successor is `StaleRunLeavesJobAlone` (below).
- `OwnedIsServed` goes from the adoption, through the other pickers `Promise.all`
  waits for, to the outcome; the exceptions are `orphans`.
- `EveryJobEnds` is true of a job that ends or comes again for ever: a body that
  keeps returning a time and a schedule without an end are wanted. What it excludes
  is a job that is retried, refused, reset or given to the `ErrorRunner` for ever.
  It excepts orphans (on a single server an orphan is pushed ahead at every pick
  and never run again) and a time when no server is up.
- `ResetIsComplete` speaks of a server that stayed down; resets that failed or raised
  their alarm are reported.
- `WindowIsComplete` is about the duration before the last reset, and about the value
  that is read until the next one. Of the present it says nothing (below).

`NextIsFirst` is stated for schedules whose first date is one they name. A
`monthlyDate` schedule that starts on another day may skip its first date, an
annual 29 February moves to 29 January in common years and a `date` above 31
never leaves the inner loop; those are listed under hazards.

### Disagreements with the documentation, and faults

Each is a run that TLC ends with a counterexample.

| Run | The text says | The code does |
|---|---|---|
| `stale_run` | README.md:27 a run whose job is stolen "detects it and aborts cleanly" | the error transaction (`jobRunner.ts:333`) never looks at the owner: it charges a retry to the new owner and takes its name off |
| `pushback` | README.md:26 "Pushback timers extend the lease automatically" | the timer rewrites the job without moving `at`; on a job whose progress deadline exceeds its lease (one the picker "repaired") the lease runs out although the timer is served |
| `schedule_forever` | `schedule.ts:13` a schedule ends only past `until` or with type none | the first Monday of each month, forever, ends: day 0 sends the loop back through the calendar (every other `monthlyDay` schedule falls on the day before its weekday) |
| `runner_rejects` | `workflowEngine.ts:282` errors of a job "are logged but do not propagate" | a body that lost to its deadline calls `Progress()` after `Run()` has returned: the transaction is stored (`jobRunner.ts:174`), `GetJob()` throws at once (`161`), nobody awaits the transaction, and if the job is no longer this executor's its error is an unhandled rejection, which ends the process by default. A pushback timer that was armed again after `clearTimers()` (`187`) is a longer way there |

Others were read and are not runs.

Some hold of every state that gets there, so that a run would only restate the line:

- When its error transaction fails, `Run()` throws before it takes the run off the
  count (`jobRunner.ts:442`), which stays one too high for good, whereas README.md:232
  calls it "current running job counts" and `workflowPicker.ts:30` the "Current number
  of running jobs". `RunningCounted`, which theorem `CountIsRight` proves, says so: the
  count is that of the runs between their first read and their end, plus that of the
  runs whose error transaction failed. Nothing else makes it wrong.
- A rescheduled error is told to `onFatalError()` only of jobs that repeat periodically
  and forever (`jobRunner.ts:412`), and nothing is told of a `scheduled_email`
  (`jobRunner.ts:420`), whereas README.md:225 and `jobRunner.ts:477` say "called on
  fatal / vanished / rescheduled-error outcomes". `Notifiable` is the code's rule.
- Reading moves no window (`counter.ts:115`): after a quiet time the value is of any
  age, and is reported with a `sampleDuration` of `counter_duration_ms`
  (`counter.ts:121`). `counter.ts:4` says "sliding-window accumulator", README.md:32
  "in a sliding window". In `Counter`, `CurrentValue` does not depend on `now`.
- The month of an annual schedule is set with `setMonth(schedule.month)`
  (`schedule.ts:37`), which counts from 0, whereas `workflowTypes.ts:78` says 1-12:
  month 2 is March, month 12 January. `MCSchedule` asserts it as `MonthsCountFromZero`;
  `NextIsFirst` and the theorems read the month as the code does.
- Overlapping calls of `advance()` turn the clock back (`simulatedWorkflowClock.ts:117`),
  whereas lines 98-99 there say "Advance the clock by `ms`". `OneCallerOnlyForward`
  proves that it takes two calls; `NoneOverdue` holds all the same.
- `waitFor()` misses a commit between its read and its subscription
  (`inMemoryStorage.ts:96`) and goes on waiting, whereas line 81 there says "Resolve
  when `predicate` becomes true".
- The picker's repair of a configuration with a lease below twice the progress
  deadline sets the progress deadline to twice the lease (`workflowPicker.ts:227-231`;
  `RepairedProgress` does the same).

For the rest no state of a model tells them apart: `Wait` loops instead of returning
a time for long waits (README.md:212, `jobRunner.ts:128`); `isTerminating` is asked
once, at the start of a pick (`workflowPicker.ts:48`, `103`); `OnAfterWorkflowJob` is
also called with "success" for an outcome that was not written because the job was
lost (`workflowEngine.ts:384`, `jobRunner.ts:269`); `GetJob` arms the progress timer
only (README.md:210, `jobRunner.ts:160`); the alarm of `resetLostJobs` also goes off
when its last allowed iteration found nothing left (`workflowPicker.ts:380`; in
`ResetTxn`).

## 4. What is proved

| Theorem | Says | From |
|---|---|---|
| `CoreInvariant` | `Spec => []Core` | the assumptions on the constants |
| `TypeCorrect`, `OwnedJobsReachable`, `LedgerBalances` | `TypeOK`, `OwnedIsReachable`, `RetryLedger` | `CoreInvariant` |
| `LeaseRespected` | `Spec => NoEarlySteal` | `CoreInvariant` |
| `Exclusivity` | `TimelySpec => []Exclusive` | `GoodTiming` |
| `Refinement` | `TimelySpec => Implements` | `GoodTiming`, the invariant of `Exclusivity` |
| `RunnerInvariant` | `Spec => []RunnerInv` of the runner | finitely many runs |
| `RunnerTypes`, `RacesAreTimed`, `CountIsRight`, `NotificationsMatch` | `TypeOK`, `RacingIsTimed`, `RunningCounted`, `NotificationMatches` | `RunnerInvariant` |
| `LateWritesAreRenewals` | `Spec => LateWritesOnlyRenew` | `RunnerInvariant` |
| `RoundTrip`, `MergeIsUnion` | decoding inverts encoding; a merged bitmap decodes to the union | - |
| `TargetInRange` | a pick asks for 1 to `2 * BatchSize` jobs | - |
| `EngineTypes`, `RoutesAreRight`, `OwnersServe`, `ResetsAreComplete` | `TypeOK`, `RoutedRight`, `OwnedIsServed`, `ResetIsComplete` | the assumptions on the constants |
| `ClockTypes` | `Spec => []TypeOK` of the clock | - |
| `EveryIntervalTicks` | `Spec => []IntervalsTick` | - |
| `NothingOverdue` | `Spec => []NoneOverdue` | `setTime` only back to the start |
| `OneCallerOnlyForward` | `Spec => OnlyForward` | no `setTime`, one call |
| `CounterInvariant` | `Spec => []CounterInv` of the counter | the assumptions on the constants |
| `CounterTypes`, `NothingTwice`, `NothingLost` | `TypeOK`, `CountedOnce`, `WindowIsComplete` | `CounterInvariant` |
| `MonthOfIs` | every day lies in exactly one month, the one `MonthOf` finds | - |
| `RepeatOnIsFirst` | one step of the loop goes to the next day a schedule names | a regular schedule |
| `ScheduleInvariant` | `Spec => []ScheduleInv` of the schedules | `Schedules \subseteq Regular` |
| `ScheduleTypes`, `FirstInTheFuture` | `TypeOK`, `NextIsFirst` | `ScheduleInvariant` |

They hold for any number of servers, jobs, runs, tables, types, calls and
divisions, any skew, any job configuration the assumptions admit, any regular
schedule and delay, and any value of the model bounds.

The core. `RetryLedger` and `OwnedIsReachable` depend on the header alone, so
the work is a lemma for each rewriting in `JobHeader`: `Good(h)` (its type, a
positive `at` while it is owned, a balanced ledger) is kept by all of them, by
whomever and in whatever order they are applied. That is why no interleaving can
break the ledger, stale runs included. `Core` adds that the candidates of a scan
lie in the past of the clock that scanned: with the comparison of `at` in the
adoption this gives `NoEarlySteal`.

Exclusion. `Exclusive` is not inductive: that no clock is past a lease follows
from how far the run has come since the lease was granted. `Exclusion` says so:
a run began its present wait at most `Slack(ctl)` after the grant, where the
slack grows by one `Latency` with every stage (and by the progress deadline in
the race), and is at most `Latency` late. In the last stage the sum is
`ProgressDeadline + 5 * Latency`; `GoodTiming` asks the lease to outlast it on
the clock furthest ahead. `ConfigKept` is needed because the picker's repair
would change the progress deadline; under `GoodTiming` it never applies. `OneRun`
then follows: a job that is held is not due on any clock, so nobody can scan
and adopt it, and an earlier candidate differs in `at`.

The refinement. An adoption maps to `Take`: by `OneRun` and the lease nobody
works on the job. An outcome that finishes a job maps to `Complete`: the run that
commits it works on the job, alone. A `Clear` is `Remove`. All else lets runs give
up (`Yield`), or stutters, and `StepHolds` says that no other step makes a run
work on a job.

The runner. `RunnerInv` adds to the properties that each run is `Timed` (racing,
its deadline is armed) and `Told` (before its outcome is written it has a callback only if an
attempt was rolled back, and then the callback, or what it told, is the outcome's). The proof goes by the shape of a step: every action
replaces one `run[r]` by a record that is typed, timed and told, and moves the
count by one exactly when the run enters or leaves the counted ones (`Steps`); the
store is changed by commits only, which keep its types.

The engine. Routing: `Routed` says that every bitmap on its way decodes to the
types that were shown when it was made; `RoundTrip` and `MergeIsUnion` are what
keeps it, and a scan then reads the truth of the last round. Jobs in hand:
`OwnedIsServed` is inductive once a server between picks is known to hold nothing
and one that is down to do nothing (`Idle`), and candidates to belong to pickers
that adopt (`Adopting`: a picker that failed has none, so what commits after it
comes late and is an orphan); a job leaves one hand in the step in which the next
has it. Resets: `Resetting` says that a reset whose server has stayed down
(`gone`) has every job that still carries its name in a table yet to be asked,
unless the alarm was raised; a server that is down cannot adopt, so the set only
shrinks.

The clock. `TypeOK` is inductive as it stands, with uniqueness of the sequence
numbers. `Ticking` is `IntervalsTick` without counting: no two entries of an
interval, and one exactly if it runs; `TickCases` says what a callback leaves, which
is one new entry or none. `NoneOverdue` needs that `advance` fires the
earliest entry first and ends only when none is due, and it holds for overlapping
calls because turning the clock back makes nothing overdue. `OnlyForward` with one
caller adds that the target of the call in progress is not in the past
(`NotPast`).

The counter. `CounterInv` adds to the types where the divisions lie in time:
what is in `current` was pegged after the last reset (`Present`), and what is in
the k-th division from the end no later than k - 1 divisions before the last reset
(`Past`): what is dropped is older than the window. `Held` says what the properties are about: at
every time the divisions and `current` hold at most what was pegged, and exactly
that from `start` on. A reset closes `current`, adds an empty division for every
further beat missed and drops the oldest; the lemmas say how the sum over the
divisions changes with each of these. That needs induction along a sequence,
which the library's theorems offer only for an operator parameter.
`IntervalInduction` states it for a set and is proved by counting: the numbers
not in the set could otherwise be mapped, one down, into themselves but not onto
themselves, and a finite set has no such map.

The schedules. The calendar comes first. `MonthStarts` says that a month starts
where the one before ends and, what everything else needs, that its first day
differs from 146097/4800 days per month by less than eleven days. From this the
months start in their order, every day lies in one month, and that one is among the
three `MonthOf` tries. `LongMonthFollows` (a month that lacks a date is followed
by one that has it) and `YearLater` then show that one step of `RepeatOn` goes to
the first day after `nextDate` that the schedule names, for each schedule type. The
loop is an invariant of its own: `LoopInv` says that the steps taken are the number
of days the schedule named since the loop began, and what `until` has left is what it
had less these steps. When the loop ends with a date it is the first in the future,
and what it charged is right; when it ends without one, either the count was used up
on the way, or the date of `until` lies before the first day in the future, or more than
`MaxSteps + 1` days were passed. `DayAhead` (a day is never more than a year away) is
needed for the last case, where the loop never got to that day.

Only model-checked. Liveness (`RunEnds`, `TimersDie`, `TokenAnswered`,
`EveryJobEnds`, `AdvanceReturns`): liveness under fairness and `ENABLED` are
beyond the prover. Every other property of a run that passes is stated by
a theorem.
Two hypotheses leave something to TLC alone: `NothingOverdue` and
`OneCallerOnlyForward` are about clocks that are used as their hypotheses say, and
`Regular` leaves out `monthlyDay` schedules, which `schedule_forever` shows not to
keep their date, and those that start on a day they do not name (section 3). No
module here declares a recursive operator.

## 5. Not modelled, and why

- The token ring and the MVCC store are libraries outside the repository; the
  models have what the code sees of them. How the ring elects, times out and
  transports is not here.
- Servers with different `allSortedCapabilities` (two versions of a deployment)
  read each other's bits as other types. The code takes the list as given, and a
  model of it would only restate that.
- Key packing and the derived indices of `InMemoryJobStorage`: the indices are
  views of the table that the library keeps. Its `waitFor()`, which only tests call.
- Job logs, `onJobOutcome`, `OnAfterWorkflowJob`, debug logs, the summary interval
  and the numbers in the counters: effects outside the system that nothing in it
  reads.
- Payloads, and `payloadMismatch` as an error of its own: it takes the path of the
  recoverable errors.
- `retryPolicy` (`utils.ts`) computes with logarithms of floating-point numbers;
  `index.ts` exports; `SimulatedJobRunner` adds one seeding transaction for tests.
- Days of 23 or 25 hours in schedules.
- `docs/scheduler-redesign.md` is a design nothing implements yet.

A composition of `Engine` with the runner's awaits or with leases and clocks would
have too many states for TLC. What links them is stated instead: `Engine` takes
from `JobRunner` that runs end (`RunEnds`), and from `WorkflowCore` that a live
lease keeps others away (`NoEarlySteal`), as `Lapse` does.

## 6. Running

    tlc -config core_timely.cfg MCTimelyCore.tla
    tlapm WorkflowExclusion_proofs.tla

The `core_timely` configuration belongs to `MCTimelyCore`; `core_shared`,
`stale_run` and `pushback` to `MCWorkflowCore`; `runner*` to `MCJobRunner`, `engine*`
to `MCEngine`, `counter` to `Counter`, `schedule_*` to `MCSchedule`, `clock_shared` to
`MCSimulatedClock`. The longest runs are `core_shared` (1.2 million states),
`engine_ends` (187,000, with liveness) and `runner` (570,000, with liveness), one to two
and a half minutes each.
`PROJECT.json` maps every definition to the lines it models and names, for each
property, a plausible fault of the code that breaks it.
