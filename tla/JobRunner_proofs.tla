-------------------------- MODULE JobRunner_proofs --------------------------
(***************************************************************************)
(* Proofs about JobRunner, for every number of instances that run under    *)
(* one executor's name on one job, and every configuration of that job.    *)
(***************************************************************************)
EXTENDS JobRunner, FiniteSetTheorems, TLAPS

(***************************************************************************)
(* Headers                                                                 *)
(***************************************************************************)

(* What the pickers and the reset of lost jobs write is a header.          *)
LEMMA LeaseTyped ==
  ASSUME NEW h \in Header, NEW e \in Executors, NEW clk \in Nat
  PROVE  Adopted(h, e, clk) \in Header /\ Released(h, clk) \in Header /\ Renewed(h, clk) \in Header
<1>1. RepairedProgress(h) \in Nat \ {0}
  BY HeaderAssumption DEF RepairedProgress, Header
<1>2. clk + LostDeadline \in Int /\ clk \in Int
  BY HeaderAssumption
<1>3. Adopted(h, e, clk) \in Header
  BY <1>1, <1>2 DEF Adopted, Header
<1>4. Released(h, clk) \in Header
  BY <1>2 DEF Released, Header
<1>5. Renewed(h, clk) \in Header
  BY <1>2 DEF Renewed, Header
<1>6. QED
  BY <1>3, <1>4, <1>5

(* What ends a job, or repeats it, is a header.                            *)
LEMMA RepeatTyped ==
  ASSUME NEW h \in Header
  PROVE  /\ Finished(h) \in Header
         /\ Recurs(h) => NextOccurrence(h, 1) \in Header
         /\ RepeatOrFinish(h, 1) \in Header
<1>1. (IF h.at > 0 THEN -h.at ELSE h.at) \in Int
  BY DEF Header
<1>2. Finished(h) \in Header
  BY <1>1 DEF Finished, Header
<1>3. ASSUME Recurs(h) PROVE NextOccurrence(h, 1) \in Header
  <2>1. /\ (IF h.forever THEN h.repeat ELSE h.repeat - 1) \in 0..Occurrences
        /\ 1 + Period \in Int
    BY <1>3, HeaderAssumption DEF Recurs, Header
  <2>2. QED
    BY <2>1 DEF NextOccurrence, Header
<1>4. QED
  BY <1>2, <1>3 DEF RepeatOrFinish

(* The success transaction writes a header.                                *)
LEMMA AfterSuccessTyped ==
  ASSUME NEW h \in Header, NEW result \in Nat
  PROVE  AfterSuccess(h, result, 1) \in Header
<1>1. [h EXCEPT !.at = result, !.exec = None] \in Header
  <2>1. result \in Int
    OBVIOUS
  <2>2. QED
    BY <2>1 DEF Header
<1>2. ASSUME NEW g \in Header PROVE RestoredRetries(g) \in Header
  <2>1. CASE g.initial = NoSnapshot
    BY <2>1 DEF RestoredRetries
  <2>2. CASE g.initial # NoSnapshot
    <3>1. g.initial \in [max : 1..MaxRetries, backoff : Nat \ {0}] /\ NoSnapshot \in Snapshot
      BY <2>2 DEF Header, Snapshot
    <3>2. g.initial.max \in 0..MaxRetries /\ g.initial.backoff \in Nat \ {0}
      BY <3>1, HeaderAssumption
    <3>3. QED
      BY <2>2, <3>1, <3>2 DEF RestoredRetries, Header
  <2>3. QED
    BY <2>1, <2>2
<1>3. QED
  BY <1>1, <1>2, RepeatTyped DEF AfterSuccess

(* The error transaction writes a header.                                  *)
LEMMA AfterErrorTyped ==
  ASSUME NEW h \in Header, NEW err \in Errors
  PROVE  AfterError(h, err, 1) \in Header
<1>1. ASSUME h.max > 0 PROVE Retried(h, 1) \in Header
  <2>1. [max |-> h.max, backoff |-> h.backoff] \in Snapshot
    BY <1>1, HeaderAssumption DEF Header, Snapshot
  <2>2. /\ (IF h.initial = NoSnapshot THEN [max |-> h.max, backoff |-> h.backoff] ELSE h.initial)
             \in Snapshot
        /\ h.max - 1 \in 0..MaxRetries
        /\ 1 + h.backoff \in Int
    BY <1>1, <2>1, HeaderAssumption DEF Header
  <2>3. h.backoff * Exponent \in Nat \ {0}
    <3>1. \A a, b \in Nat \ {0} : a * b \in Nat \ {0}
      OBVIOUS
    <3>2. QED
      BY <3>1, HeaderAssumption DEF Header
  <2>4. QED
    BY <2>2, <2>3 DEF Retried, Header
<1>2. QED
  BY <1>1, RepeatTyped DEF AfterError, Errors

(***************************************************************************)
(* One step of one run                                                     *)
(***************************************************************************)

Counts == {"racing", "returned", "failing", "committed", "rejected"}

(* The parts of the inductive invariant that speak of one run: a race is   *)
(* timed, and the notification follows the outcome.                        *)
Timed(x) == x.ctl = "racing" => x.prog = "armed"

Matched(x, told) ==
  /\ Notifiable(x.outcome) => told = x.outcome
  /\ ~x.rolled /\ ~Notifiable(x.outcome) => told = "none"

Told(x) ==
  /\ x.ctl \notin Over /\ ~x.rolled => x.callback = "none"
  /\ x.ctl = "committed" => Matched(x, x.callback)
  /\ x.ctl = "settled" => Matched(x, x.notified)

Moves(x, y) ==
  /\ y \in RunState
  /\ Timed(x) => Timed(y)
  /\ Told(x) => Told(y)

SameCount(x, y) == x.ctl \in Counts <=> y.ctl \in Counts

(* An error that is raised ends the race.                                  *)
LEMMA RaisedMoves ==
  ASSUME NEW x \in RunState, NEW err \in Errors
  PROVE  /\ Raised(x, err) \in RunState
         /\ Raised(x, err).ctl # "racing"
         /\ Told(x) => Told(Raised(x, err))
         /\ SameCount(x, Raised(x, err))
<1>1. Cleared(x) \in RunState
  BY DEF RunState, Timer, Cleared
<1>2. [Cleared(x) EXCEPT !.ctl = "failing", !.err = err] \in RunState
  BY <1>1 DEF RunState
<1>3. Raised(x, err) \in RunState
  BY <1>2 DEF Raised
<1>4. CASE x.ctl # "racing"
  BY <1>3, <1>4 DEF Raised, SameCount
<1>5. CASE x.ctl = "racing"
  <2>1. Raised(x, err) = [x EXCEPT !.prog = "unset", !.push = "unset", !.ctl = "failing", !.err = err]
    BY <1>5 DEF Raised, Cleared, RunState
  <2>2. /\ Raised(x, err).ctl = "failing" /\ Raised(x, err).rolled = x.rolled
        /\ Raised(x, err).callback = x.callback
    BY <2>1 DEF RunState
  <2>3. QED
    BY <1>3, <1>5, <2>2 DEF SameCount, Told, Over, Counts
<1>6. QED
  BY <1>4, <1>5

(* A step that changes neither the control state nor the notification, and *)
(* cancels no deadline.                                                    *)
LEMMA QuietMoves ==
  ASSUME NEW x \in RunState, NEW y \in RunState,
         y.ctl = x.ctl, y.prog \in {x.prog, "armed"},
         y.callback = x.callback, y.outcome = x.outcome,
         y.notified = x.notified, y.rolled = x.rolled
  PROVE  Moves(x, y) /\ SameCount(x, y)
BY DEF Moves, SameCount, Timed, Told, Matched

(* A call or a timer that ends with an error.                              *)
LEMMA ErrorMoves ==
  ASSUME NEW x \in RunState, NEW back \in RunState, NEW err \in Errors,
         back.ctl = x.ctl, back.callback = x.callback, back.outcome = x.outcome,
         back.notified = x.notified, back.rolled = x.rolled
  PROVE  LET z == Raised(back, err)
             y == [z EXCEPT !.body = "ended"]
         IN  Moves(x, z) /\ SameCount(x, z) /\ Moves(x, y) /\ SameCount(x, y)
<1> DEFINE z == Raised(back, err)
           y == [z EXCEPT !.body = "ended"]
<1>1. z \in RunState /\ z.ctl # "racing" /\ (Told(back) => Told(z)) /\ SameCount(back, z)
  BY RaisedMoves
<1>2. (Told(x) => Told(back)) /\ SameCount(x, back)
  BY DEF Told, Matched, SameCount
<1> HIDE DEF z
<1>3. Moves(x, z) /\ SameCount(x, z)
  BY <1>1, <1>2 DEF Moves, SameCount, Timed
<1>4. y \in RunState
  BY <1>1 DEF RunState
<1>5. Moves(z, y) /\ SameCount(z, y)
  BY <1>1, <1>4, QuietMoves DEF RunState
<1>6. Moves(x, y) /\ SameCount(x, y)
  BY <1>1, <1>3, <1>4, <1>5 DEF Moves, SameCount
<1>7. QED
  BY <1>3, <1>6 DEF z

(* What a step of run r makes of it and of the count.                      *)
Steps(r, y) ==
  /\ Sets(r, y)
  /\ Moves(run[r], y)
  /\ \/ running' = running /\ SameCount(run[r], y)
     \/ running' = running + 1 /\ run[r].ctl \notin Counts /\ y.ctl \in Counts
     \/ running' = running - 1 /\ run[r].ctl \in Counts /\ y.ctl \notin Counts

(* Run(), until the race.                                                  *)
LEMMA BeginningMoves ==
  ASSUME NEW r \in Runs, run[r] \in RunState, Start(r) \/ Read(r) \/ ReadFails(r)
  PROVE  \E y : Steps(r, y)
<1> DEFINE x == run[r]
<1>0. x \in RunState
  OBVIOUS
<1>1. ASSUME x.ctl \in {"new", "reading"}, NEW c \in {"reading", "lost", "unread"}
      PROVE  Moves(x, [x EXCEPT !.ctl = c]) /\ SameCount(x, [x EXCEPT !.ctl = c])
  <2>1. [x EXCEPT !.ctl = c] \in RunState
    BY <1>0 DEF RunState, Over
  <2>2. QED
    BY <1>0, <1>1, <2>1 DEF Moves, SameCount, Timed, Told, RunState, Over, Counts
<1>2. ASSUME x.ctl = "reading"
      PROVE  /\ Moves(x, [x EXCEPT !.ctl = "racing", !.body = "running", !.prog = "armed"])
             /\ [x EXCEPT !.ctl = "racing", !.body = "running", !.prog = "armed"].ctl = "racing"
  <2>1. [x EXCEPT !.ctl = "racing", !.body = "running", !.prog = "armed"] \in RunState
    BY <1>0 DEF RunState, Timer
  <2>2. QED
    BY <1>0, <1>2, <2>1 DEF Moves, Timed, Told, RunState, Over
<1>3. CASE Start(r)
  BY <1>1, <1>3 DEF Start, Steps
<1>4. CASE Read(r)
  BY <1>1, <1>2, <1>4 DEF Read, Steps, Counts
<1>5. CASE ReadFails(r)
  BY <1>1, <1>5 DEF ReadFails, Steps
<1>6. QED
  BY <1>3, <1>4, <1>5

(* One transaction more, or one less, that nobody awaits.                  *)
LEMMA StrayTyped ==
  ASSUME NEW x \in RunState, NEW k \in Strays
  PROVE  /\ [x.stray EXCEPT ![k] = @ + 1] \in [Strays -> Nat]
         /\ x.stray[k] > 0 => [x.stray EXCEPT ![k] = @ - 1] \in [Strays -> Nat]
<1>1. x.stray \in [Strays -> Nat] /\ x.stray[k] \in Nat
  BY DEF RunState
<1>2. x.stray[k] + 1 \in Nat /\ (x.stray[k] > 0 => x.stray[k] - 1 \in Nat)
  BY <1>1
<1>3. QED
  BY <1>1, <1>2

(* The body's calls of Progress().                                         *)
LEMMA ProgressMoves ==
  ASSUME NEW r \in Runs, run[r] \in RunState,
         \/ ProgressCalled(r) \/ ProgressWritten(r) \/ ProgressFails(r)
         \/ ProgressReturns(r) \/ ProgressThrows(r)
  PROVE  \E y : Steps(r, y)
<1> DEFINE x == run[r]
<1>0. x \in RunState
  OBVIOUS
<1>1. ASSUME NEW b \in {"running", "ended"}
      PROVE  LET y == [x EXCEPT !.calls = @ + 1, !.stray["progress"] = @ + 1, !.body = b]
             IN  Moves(x, y) /\ SameCount(x, y)
  <2>1. x.calls + 1 \in Nat
    BY <1>0 DEF RunState
  <2>2. [x EXCEPT !.calls = @ + 1, !.stray["progress"] = @ + 1, !.body = b] \in RunState
    BY <1>0, <2>1, StrayTyped DEF RunState, Strays
  <2>3. QED
    BY <1>0, <2>2, QuietMoves DEF RunState
<1>2. LET y == [x EXCEPT !.calls = @ + 1, !.progress = "open", !.body = "calling"]
      IN  Moves(x, y) /\ SameCount(x, y)
  <2>1. x.calls + 1 \in Nat
    BY <1>0 DEF RunState
  <2>2. [x EXCEPT !.calls = @ + 1, !.progress = "open", !.body = "calling"] \in RunState
    BY <1>0, <2>1 DEF RunState, Call
  <2>3. QED
    BY <1>0, <2>2, QuietMoves DEF RunState
<1>3. ASSUME NEW c \in Call
      PROVE  Moves(x, [x EXCEPT !.progress = c]) /\ SameCount(x, [x EXCEPT !.progress = c])
  <2>1. [x EXCEPT !.progress = c] \in RunState
    BY <1>0 DEF RunState
  <2>2. QED
    BY <1>0, <2>1, QuietMoves DEF RunState
<1>4. LET y == [Rearmed(x) EXCEPT !.progress = "none", !.body = "running"]
      IN  Moves(x, y) /\ SameCount(x, y)
  <2>1. Rearmed(x) \in RunState
    BY <1>0 DEF Rearmed, RunState, Timer
  <2>2. [Rearmed(x) EXCEPT !.progress = "none", !.body = "running"] \in RunState
    BY <2>1 DEF RunState, Call
  <2>3. QED
    BY <1>0, <2>2, QuietMoves DEF Rearmed, RunState
<1>5. LET y == [x EXCEPT !.progress = "none", !.body = "running"]
      IN  Moves(x, y) /\ SameCount(x, y)
  <2>1. [x EXCEPT !.progress = "none", !.body = "running"] \in RunState
    BY <1>0 DEF RunState, Call
  <2>2. QED
    BY <1>0, <2>1, QuietMoves DEF RunState
<1>6. ASSUME x.progress \in CallError
      PROVE  LET y == [Raised([x EXCEPT !.progress = "none"], x.progress) EXCEPT !.body = "ended"]
             IN  Moves(x, y) /\ SameCount(x, y)
  <2> DEFINE back == [x EXCEPT !.progress = "none"]
  <2>1. back \in RunState
    BY <1>0 DEF RunState, Call
  <2>2. x.progress \in Errors
    BY <1>6 DEF CallError, Errors
  <2>3. /\ back.ctl = x.ctl /\ back.callback = x.callback /\ back.outcome = x.outcome
        /\ back.notified = x.notified /\ back.rolled = x.rolled
    BY <1>0 DEF RunState
  <2>4. QED
    BY <1>0, <2>1, <2>2, <2>3, ErrorMoves
<1>7. CASE ProgressCalled(r)
  BY <1>1, <1>2, <1>7 DEF ProgressCalled, Steps
<1>8. CASE ProgressWritten(r)
  BY <1>3, <1>8 DEF ProgressWritten, LostError, Call, Steps
<1>9. CASE ProgressFails(r)
  BY <1>3, <1>9 DEF ProgressFails, Call, Steps
<1>10. CASE ProgressReturns(r)
  BY <1>4, <1>10 DEF ProgressReturns, Steps
<1>11. CASE ProgressThrows(r)
  <2>1. \/ Sets(r, [x EXCEPT !.progress = "none", !.body = "running"])
        \/ Sets(r, [Raised([x EXCEPT !.progress = "none"], x.progress) EXCEPT !.body = "ended"])
    <3>1. [[x EXCEPT !.progress = "none"] EXCEPT !.body = "running"]
            = [x EXCEPT !.progress = "none", !.body = "running"]
      BY <1>0 DEF RunState
    <3>2. QED
      BY <1>11, <3>1 DEF ProgressThrows
  <2>2. x.progress \in CallError /\ running' = running
    BY <1>11 DEF ProgressThrows
  <2>3. QED
    BY <1>5, <1>6, <2>1, <2>2 DEF Steps
<1>12. QED
  BY <1>7, <1>8, <1>9, <1>10, <1>11

(* The timers, and the transactions nobody awaits.                         *)
LEMMA TimerMoves ==
  ASSUME NEW r \in Runs, run[r] \in RunState,
         \/ DeadlineFires(r)
         \/ PushbackFires(r)
         \/ \E i \in Pushbacks : \/ PushbackWritten(r, i) \/ PushbackFails(r, i)
                                \/ PushbackReturns(r, i) \/ PushbackThrows(r, i)
         \/ \E k \in Strays : StrayWritten(r, k) \/ StrayFails(r, k)
  PROVE  \E y : Steps(r, y)
<1> DEFINE x == run[r]
<1>0. x \in RunState
  OBVIOUS
<1>1. LET y == Raised([x EXCEPT !.prog = "fired"], "recoverable")
      IN  Moves(x, y) /\ SameCount(x, y)
  <2> DEFINE back == [x EXCEPT !.prog = "fired"]
  <2>1. back \in RunState
    BY <1>0 DEF RunState, Timer
  <2>2. /\ back.ctl = x.ctl /\ back.callback = x.callback /\ back.outcome = x.outcome
        /\ back.notified = x.notified /\ back.rolled = x.rolled
    BY <1>0 DEF RunState
  <2>3. QED
    BY <1>0, <2>1, <2>2, ErrorMoves DEF Errors
<1>2. LET y == [x EXCEPT !.push = "fired", !.stray["pushback"] = @ + 1]
      IN  Moves(x, y) /\ SameCount(x, y)
  <2>1. [x EXCEPT !.push = "fired", !.stray["pushback"] = @ + 1] \in RunState
    BY <1>0, StrayTyped DEF RunState, Timer, Strays
  <2>2. QED
    BY <1>0, <2>1, QuietMoves DEF RunState
<1>3. ASSUME NEW i \in Pushbacks, NEW c \in Call
      PROVE  [x.pushback EXCEPT ![i] = c] \in [Pushbacks -> Call]
  BY <1>0 DEF RunState
<1>4. ASSUME NEW i \in Pushbacks
      PROVE  LET y == [x EXCEPT !.push = "fired", !.pushback[i] = "open",
                                !.rearm = IF x.prog = "unset" THEN @ \cup {i} ELSE @]
             IN  Moves(x, y) /\ SameCount(x, y)
  <2> DEFINE y == [x EXCEPT !.push = "fired", !.pushback[i] = "open",
                            !.rearm = IF x.prog = "unset" THEN @ \cup {i} ELSE @]
  <2>1. x.rearm \cup {i} \in SUBSET Pushbacks
    BY <1>0 DEF RunState
  <2>2. y \in RunState
    BY <1>0, <1>3, <2>1 DEF RunState, Timer, Call
  <2>3. /\ y.ctl = x.ctl /\ y.prog = x.prog
        /\ y.callback = x.callback /\ y.outcome = x.outcome
        /\ y.notified = x.notified /\ y.rolled = x.rolled
    BY <1>0 DEF RunState
  <2>4. QED
    BY <1>0, <2>2, <2>3, QuietMoves
<1>5. ASSUME NEW i \in Pushbacks, NEW c \in Call
      PROVE  Moves(x, [x EXCEPT !.pushback[i] = c]) /\ SameCount(x, [x EXCEPT !.pushback[i] = c])
  <2>1. [x EXCEPT !.pushback[i] = c] \in RunState
    BY <1>0, <1>3 DEF RunState
  <2>2. QED
    BY <1>0, <2>1, QuietMoves DEF RunState
<1>6. ASSUME NEW i \in Pushbacks
      PROVE  LET y == [x EXCEPT !.pushback[i] = "none", !.push = "armed", !.rearm = @ \ {i},
                                !.prog = IF i \in x.rearm THEN "armed" ELSE @]
             IN  Moves(x, y) /\ SameCount(x, y)
  <2> DEFINE y == [x EXCEPT !.pushback[i] = "none", !.push = "armed", !.rearm = @ \ {i},
                            !.prog = IF i \in x.rearm THEN "armed" ELSE @]
  <2>1. x.rearm \ {i} \in SUBSET Pushbacks
    BY <1>0 DEF RunState
  <2>2. y \in RunState
    BY <1>0, <1>3, <2>1 DEF RunState, Timer, Call
  <2>3. /\ y.ctl = x.ctl /\ y.prog \in {x.prog, "armed"}
        /\ y.callback = x.callback /\ y.outcome = x.outcome
        /\ y.notified = x.notified /\ y.rolled = x.rolled
    BY <1>0 DEF RunState
  <2>4. QED
    BY <1>0, <2>2, <2>3, QuietMoves
<1>7. ASSUME NEW i \in Pushbacks, x.pushback[i] \in CallError
      PROVE  LET y == Raised([x EXCEPT !.pushback[i] = "none", !.rearm = @ \ {i}], x.pushback[i])
             IN  Moves(x, y) /\ SameCount(x, y)
  <2> DEFINE back == [x EXCEPT !.pushback[i] = "none", !.rearm = @ \ {i}]
  <2>1. x.rearm \ {i} \in SUBSET Pushbacks
    BY <1>0 DEF RunState
  <2>2. back \in RunState
    BY <1>0, <1>3, <2>1 DEF RunState, Call
  <2>3. x.pushback[i] \in Errors
    BY <1>7 DEF CallError, Errors
  <2>4. /\ back.ctl = x.ctl /\ back.callback = x.callback /\ back.outcome = x.outcome
        /\ back.notified = x.notified /\ back.rolled = x.rolled
    BY <1>0 DEF RunState
  <2>5. QED
    BY <1>0, <2>2, <2>3, <2>4, ErrorMoves
<1>8. ASSUME NEW k \in Strays, x.stray[k] > 0
      PROVE  LET y == [x EXCEPT !.stray[k] = @ - 1] IN Moves(x, y) /\ SameCount(x, y)
  <2>1. [x EXCEPT !.stray[k] = @ - 1] \in RunState
    BY <1>0, <1>8, StrayTyped DEF RunState
  <2>2. QED
    BY <1>0, <2>1, QuietMoves DEF RunState
<1>9. CASE DeadlineFires(r)
  BY <1>1, <1>9 DEF DeadlineFires, Steps
<1>10. CASE PushbackFires(r)
  <2>1. CASE Completed(r)
    BY <1>2, <1>10, <2>1 DEF PushbackFires, Steps
  <2>2. CASE ~Completed(r)
    BY <1>4, <1>10, <2>2 DEF PushbackFires, Steps
  <2>3. QED
    BY <2>1, <2>2
<1>11. ASSUME NEW i \in Pushbacks, PushbackWritten(r, i)
       PROVE  \E y : Steps(r, y)
  BY <1>5, <1>11 DEF PushbackWritten, LostError, Call, Steps
<1>12. ASSUME NEW i \in Pushbacks, PushbackFails(r, i)
       PROVE  \E y : Steps(r, y)
  BY <1>5, <1>12 DEF PushbackFails, Call, Steps
<1>13. ASSUME NEW i \in Pushbacks, PushbackReturns(r, i)
       PROVE  \E y : Steps(r, y)
  BY <1>6, <1>13 DEF PushbackReturns, Steps
<1>14. ASSUME NEW i \in Pushbacks, PushbackThrows(r, i)
       PROVE  \E y : Steps(r, y)
  BY <1>7, <1>14 DEF PushbackThrows, Steps
<1>15. CASE \E k \in Strays : StrayWritten(r, k) \/ StrayFails(r, k)
  BY <1>8, <1>15 DEF StrayWritten, StrayFails, Steps
<1>16. QED
  BY <1>9, <1>10, <1>11, <1>12, <1>13, <1>14, <1>15

(* The end of the body, and the outcome.                                   *)
LEMMA EndMoves ==
  ASSUME NEW r \in Runs, run[r] \in RunState,
         \/ BodyReturns(r) \/ BodyThrows(r)
         \/ CommitSuccess(r) \/ CommitSuccessFails(r)
         \/ AttemptRolledBack(r) \/ CommitError(r) \/ CommitErrorFails(r)
         \/ Settle(r)
  PROVE  \E y : Steps(r, y)
<1> DEFINE x == run[r]
<1>0. x \in RunState
  OBVIOUS
<1>1. ASSUME x.ctl = "racing", NEW a \in BOOLEAN
      PROVE  LET y == [Cleared(x) EXCEPT !.ctl = "returned", !.body = "ended", !.again = a]
             IN  Moves(x, y) /\ SameCount(x, y)
  <2>1. Cleared(x) \in RunState
    BY <1>0 DEF Cleared, RunState, Timer
  <2>2. [Cleared(x) EXCEPT !.ctl = "returned", !.body = "ended", !.again = a] \in RunState
    BY <2>1 DEF RunState
  <2>3. QED
    BY <1>0, <1>1, <2>2 DEF Cleared, Moves, SameCount, Timed, Told, Over, Counts, RunState
<1>2. LET y == [x EXCEPT !.body = "ended"] IN Moves(x, y) /\ SameCount(x, y)
  <2>1. [x EXCEPT !.body = "ended"] \in RunState
    BY <1>0 DEF RunState
  <2>2. QED
    BY <1>0, <2>1, QuietMoves DEF RunState
<1>3. ASSUME NEW err \in Errors
      PROVE  LET y == [Raised(x, err) EXCEPT !.body = "ended"] IN Moves(x, y) /\ SameCount(x, y)
  BY <1>0, ErrorMoves
<1>4. ASSUME x.ctl = "returned"
      PROVE  LET y == [x EXCEPT !.ctl = "committed", !.outcome = "success"]
             IN  Moves(x, y) /\ SameCount(x, y)
  <2>1. [x EXCEPT !.ctl = "committed", !.outcome = "success"] \in RunState
    BY <1>0 DEF RunState, Over, Outcome
  <2>2. QED
    BY <1>0, <1>4, <2>1
       DEF Moves, SameCount, Timed, Told, Matched, Notifiable, Over, Counts, RunState
<1>5. ASSUME x.ctl = "returned"
      PROVE  LET y == [Cleared(x) EXCEPT !.ctl = "failing", !.err = "recoverable"]
             IN  Moves(x, y) /\ SameCount(x, y)
  <2>1. Cleared(x) \in RunState
    BY <1>0 DEF Cleared, RunState, Timer
  <2>2. [Cleared(x) EXCEPT !.ctl = "failing", !.err = "recoverable"] \in RunState
    BY <2>1 DEF RunState, Errors
  <2>3. QED
    BY <1>0, <1>5, <2>2 DEF Cleared, Moves, SameCount, Timed, Told, Over, Counts, RunState
<1>6. OutcomeOf(x.err) \in Outcome /\ OutcomeOf(x.err) \notin {"none", "success"}
  BY <1>0 DEF OutcomeOf, Outcome, Errors, RunState
<1>7. CallbackAfter(x, OutcomeOf(x.err)) \in Outcome
  BY <1>0, <1>6 DEF CallbackAfter, RunState
<1>8. ASSUME x.ctl = "failing"
      PROVE  LET y == [x EXCEPT !.rolled = TRUE, !.callback = CallbackAfter(x, OutcomeOf(x.err))]
             IN  Moves(x, y) /\ SameCount(x, y)
  <2>1. [x EXCEPT !.rolled = TRUE, !.callback = CallbackAfter(x, OutcomeOf(x.err))] \in RunState
    BY <1>0, <1>7 DEF RunState
  <2>2. QED
    BY <1>0, <1>8, <2>1 DEF Moves, SameCount, Timed, Told, Over, Counts, RunState
<1>9. ASSUME x.ctl = "failing"
      PROVE  LET o == OutcomeOf(x.err)
                 y == [x EXCEPT !.ctl = "committed", !.outcome = o, !.callback = CallbackAfter(x, o)]
             IN  Moves(x, y) /\ SameCount(x, y)
  <2> DEFINE o == OutcomeOf(x.err)
             c == CallbackAfter(x, o)
  <2>1. c = IF Notifiable(o) THEN o ELSE x.callback
    BY DEF CallbackAfter
  <2>2. o \in Outcome /\ c \in Outcome
    BY <1>6, <1>7
  <2> HIDE DEF o, c
  <2>3. [x EXCEPT !.ctl = "committed", !.outcome = o, !.callback = c] \in RunState
    BY <1>0, <2>2 DEF RunState, Over
  <2>4. LET y == [x EXCEPT !.ctl = "committed", !.outcome = o, !.callback = c]
        IN  Moves(x, y) /\ SameCount(x, y)
    BY <1>0, <1>9, <2>1, <2>3
       DEF Moves, SameCount, Timed, Told, Matched, Over, Counts, RunState
  <2>5. QED
    BY <2>4 DEF o, c
<1>10. ASSUME x.ctl = "failing"
       PROVE  Moves(x, [x EXCEPT !.ctl = "rejected"]) /\ SameCount(x, [x EXCEPT !.ctl = "rejected"])
  <2>1. [x EXCEPT !.ctl = "rejected"] \in RunState
    BY <1>0 DEF RunState, Over
  <2>2. QED
    BY <1>0, <1>10, <2>1 DEF Moves, SameCount, Timed, Told, Over, Counts, RunState
<1>11. ASSUME x.ctl = "committed"
       PROVE  LET y == [x EXCEPT !.ctl = "settled", !.notified = x.callback]
              IN  Moves(x, y) /\ x.ctl \in Counts /\ y.ctl \notin Counts
  <2>1. [x EXCEPT !.ctl = "settled", !.notified = x.callback] \in RunState
    BY <1>0 DEF RunState, Over
  <2>2. QED
    BY <1>0, <1>11, <2>1 DEF Moves, Timed, Told, Matched, Over, Counts, RunState
<1>12. CASE BodyReturns(r)
  BY <1>1, <1>2, <1>12 DEF BodyReturns, Steps
<1>13. CASE BodyThrows(r)
  BY <1>3, <1>13 DEF BodyThrows, Errors, Steps
<1>14. CASE CommitSuccess(r)
  BY <1>4, <1>14 DEF CommitSuccess, Steps
<1>15. CASE CommitSuccessFails(r)
  BY <1>5, <1>15 DEF CommitSuccessFails, Steps
<1>16. CASE AttemptRolledBack(r)
  BY <1>8, <1>16 DEF AttemptRolledBack, Steps
<1>17. CASE CommitError(r)
  BY <1>9, <1>17 DEF CommitError, Steps
<1>18. CASE CommitErrorFails(r)
  BY <1>10, <1>18 DEF CommitErrorFails, Steps
<1>19. CASE Settle(r)
  BY <1>11, <1>19 DEF Settle, Steps
<1>20. QED
  BY <1>12, <1>13, <1>14, <1>15, <1>16, <1>17, <1>18, <1>19

(* A step of one run.                                                      *)
LEMMA RunStepMoves ==
  ASSUME NEW r \in Runs, run[r] \in RunState, RunStep(r)
  PROVE  \E y : Steps(r, y)
<1>1. CASE Start(r) \/ Read(r) \/ ReadFails(r)
  BY <1>1, BeginningMoves
<1>2. CASE \/ ProgressCalled(r) \/ ProgressWritten(r) \/ ProgressFails(r)
           \/ ProgressReturns(r) \/ ProgressThrows(r)
  BY <1>2, ProgressMoves
<1>3. CASE \/ DeadlineFires(r)
           \/ PushbackFires(r)
           \/ \E i \in Pushbacks : \/ PushbackWritten(r, i) \/ PushbackFails(r, i)
                                  \/ PushbackReturns(r, i) \/ PushbackThrows(r, i)
           \/ \E k \in Strays : StrayWritten(r, k) \/ StrayFails(r, k)
  BY <1>3, TimerMoves
<1>4. CASE \/ BodyReturns(r) \/ BodyThrows(r)
           \/ CommitSuccess(r) \/ CommitSuccessFails(r)
           \/ AttemptRolledBack(r) \/ CommitError(r) \/ CommitErrorFails(r)
           \/ Settle(r)
  BY <1>4, EndMoves
<1>5. QED
  BY <1>1, <1>2, <1>3, <1>4 DEF RunStep

(***************************************************************************)
(* The store                                                               *)
(***************************************************************************)

StoreTyped == present \in BOOLEAN /\ header \in Header /\ mail \in BOOLEAN

(* What tells whether an outcome is notified never changes.                *)
KindKept == mail' = mail /\ header'.forever = header.forever

(* A rewriting of a header keeps the kind of the job.                      *)
LEMMA ForeverKept ==
  ASSUME NEW h \in Header, NEW e \in Executors, NEW clk \in Nat, NEW result \in Nat, NEW err \in Errors
  PROVE  /\ Adopted(h, e, clk).forever = h.forever
         /\ Released(h, clk).forever = h.forever
         /\ Renewed(h, clk).forever = h.forever
         /\ AfterSuccess(h, result, 1).forever = h.forever
         /\ AfterError(h, err, 1).forever = h.forever
<1>1. Adopted(h, e, clk).forever = h.forever
  BY DEF Adopted, Header
<1>2. Released(h, clk).forever = h.forever /\ Renewed(h, clk).forever = h.forever
  BY DEF Released, Renewed, Header
<1>3. Finished(h).forever = h.forever
  BY DEF Finished, Header
<1>4. NextOccurrence(h, 1).forever = h.forever
  BY DEF NextOccurrence, Header
<1>5. RestoredRetries(NextOccurrence(h, 1)).forever = h.forever
  BY <1>4 DEF RestoredRetries, NextOccurrence, Header
<1>6. Retried(h, 1).forever = h.forever
  BY DEF Retried, Header
<1>7. AfterSuccess(h, result, 1).forever = h.forever
  <2>1. [h EXCEPT !.at = result, !.exec = None].forever = h.forever
    BY DEF Header
  <2>2. QED
    BY <1>3, <1>5, <2>1 DEF AfterSuccess
<1>8. RepeatOrFinish(h, 1).forever = h.forever
  BY <1>3, <1>4 DEF RepeatOrFinish
<1>9. AfterError(h, err, 1).forever = h.forever
  BY <1>3, <1>6, <1>8 DEF AfterError, Errors
<1>10. QED
  BY <1>1, <1>2, <1>7, <1>9

(* A commit of a header keeps the types.                                   *)
LEMMA CommitKeeps ==
  ASSUME StoreTyped, NEW p \in BOOLEAN, NEW h \in Header, h.forever = header.forever, Commit(p, h)
  PROVE  StoreTyped' /\ KindKept
BY DEF StoreTyped, Commit, KindKept

(* What the steps of a run commit.                                         *)
LEMMA RunStepKeepsStore ==
  ASSUME StoreTyped, NEW r \in Runs, run[r] \in RunState, RunStep(r)
  PROVE  StoreTyped' /\ KindKept
<1>0. present \in BOOLEAN /\ header \in Header
  BY DEF StoreTyped
<1>1. Renewed(header, 1) \in Header /\ Renewed(header, 1).forever = header.forever
  BY <1>0, LeaseTyped, RunnerAssumption DEF Renewed, Header
<1>2. ASSUME UNCHANGED storeVars PROVE StoreTyped' /\ KindKept
  BY <1>2 DEF storeVars, StoreTyped, KindKept
<1>3. CASE ProgressWritten(r)
  BY <1>0, <1>1, <1>2, <1>3, CommitKeeps DEF ProgressWritten
<1>4. CASE \E i \in Pushbacks : PushbackWritten(r, i)
  BY <1>0, <1>2, <1>4, CommitKeeps DEF PushbackWritten
<1>5. CASE \E k \in Strays : StrayWritten(r, k)
  BY <1>0, <1>1, <1>2, <1>5, CommitKeeps DEF StrayWritten
<1>6. CASE CommitSuccess(r)
  <2> DEFINE result == IF run[r].again THEN 2 ELSE 0
  <2>1. result \in Nat
    OBVIOUS
  <2>2. /\ AfterSuccess(header, result, 1) \in Header
        /\ AfterSuccess(header, result, 1).forever = header.forever
    <3>1. Me \in Executors /\ 1 \in Nat /\ "fatal" \in Errors
      BY RunnerAssumption DEF Errors
    <3> HIDE DEF result
    <3>2. QED
      BY <1>0, <2>1, <3>1, AfterSuccessTyped, ForeverKept
  <2>3. QED
    BY <1>0, <1>2, <1>6, <2>2, CommitKeeps DEF CommitSuccess
<1>7. CASE CommitError(r)
  <2>1. /\ AfterError(header, run[r].err, 1) \in Header
        /\ AfterError(header, run[r].err, 1).forever = header.forever
    <3>1. Me \in Executors /\ 1 \in Nat /\ run[r].err \in Errors
      BY RunnerAssumption DEF RunState
    <3>2. QED
      BY <1>0, <3>1, AfterErrorTyped, ForeverKept
  <2>2. QED
    BY <1>0, <1>2, <1>7, <2>1, CommitKeeps DEF CommitError
<1>8. CASE Start(r) \/ Read(r) \/ ReadFails(r)
  BY <1>2, <1>8 DEF Start, Read, ReadFails
<1>9. CASE ProgressCalled(r) \/ ProgressFails(r) \/ ProgressReturns(r) \/ ProgressThrows(r)
  BY <1>2, <1>9 DEF ProgressCalled, ProgressFails, ProgressReturns, ProgressThrows
<1>10. CASE \/ DeadlineFires(r) \/ PushbackFires(r)
            \/ \E i \in Pushbacks : PushbackFails(r, i) \/ PushbackReturns(r, i) \/ PushbackThrows(r, i)
            \/ \E k \in Strays : StrayFails(r, k)
  BY <1>2, <1>10
     DEF DeadlineFires, PushbackFires, PushbackFails, PushbackReturns, PushbackThrows, StrayFails
<1>11. CASE \/ BodyReturns(r) \/ BodyThrows(r) \/ CommitSuccessFails(r)
            \/ AttemptRolledBack(r) \/ CommitErrorFails(r) \/ Settle(r)
  BY <1>2, <1>11
     DEF BodyReturns, BodyThrows, CommitSuccessFails, AttemptRolledBack, CommitErrorFails, Settle
<1>12. QED
  BY <1>3, <1>4, <1>5, <1>6, <1>7, <1>8, <1>9, <1>10, <1>11 DEF RunStep

(***************************************************************************)
(* The invariant                                                           *)
(***************************************************************************)

(* Every run is timed and told; the count is that of the runs counted.     *)
RunnerInv ==
  /\ TypeOK
  /\ RunningCounted
  /\ \A r \in Runs : Timed(run[r]) /\ Told(run[r])

LEMMA InitInv == Init => RunnerInv
<1> SUFFICES ASSUME Init PROVE RunnerInv
  OBVIOUS
<1>1. \A h \in FreshHeaders(1) : h \in Header
  BY HeaderAssumption DEF FreshHeaders, Header, Snapshot, NoSnapshot
<1>2. NewRun \in RunState
  BY DEF NewRun, RunState, Errors, Timer, Call, Outcome
<1>3. TypeOK
  <2>1. run \in [Runs -> RunState]
    BY <1>2 DEF Init
  <2>2. StoreTyped
    <3>1. present = TRUE /\ header \in Header /\ mail \in Mails
      BY <1>1 DEF Init, StoreInit
    <3>2. present \in BOOLEAN /\ mail \in BOOLEAN
      BY <3>1, StoreAssumption, Zenon
    <3>3. QED
      BY <3>1, <3>2 DEF StoreTyped
  <2>3. running \in Int /\ unhandled \in BOOLEAN /\ faults \in Nat
    <3>1. running = 0 /\ unhandled = FALSE /\ faults = 0
      BY DEF Init
    <3>2. unhandled \in BOOLEAN
      BY <3>1, Zenon
    <3>3. QED
      BY <3>1, <3>2
  <2>4. QED
    BY <2>1, <2>2, <2>3 DEF TypeOK, StoreTyped
<1>4. Running = {} /\ Rejected = {} /\ Cardinality({}) = 0
  BY FS_EmptySet DEF Init, NewRun, Running, Rejected
<1>5. QED
  BY <1>3, <1>4 DEF Init, NewRun, RunnerInv, RunningCounted, Timed, Told, Over

(* The runs that are counted are those that run and those that threw.      *)
Counted == {r \in Runs : run[r].ctl \in Counts}

LEMMA CountedIsSum ==
  ASSUME NEW f
  PROVE  LET all     == {r \in Runs : f[r].ctl \in Counts}
             current == {r \in Runs : f[r].ctl \in {"racing", "returned", "failing", "committed"}}
             threw   == {r \in Runs : f[r].ctl = "rejected"}
         IN  /\ Cardinality(all) = Cardinality(current) + Cardinality(threw)
             /\ IsFiniteSet(all)
<1> DEFINE all     == {r \in Runs : f[r].ctl \in Counts}
           current == {r \in Runs : f[r].ctl \in {"racing", "returned", "failing", "committed"}}
           threw   == {r \in Runs : f[r].ctl = "rejected"}
<1>1. IsFiniteSet(current) /\ IsFiniteSet(threw) /\ IsFiniteSet(all)
  BY RunnerAssumption, FS_Subset
<1>2. all = current \cup threw /\ current \cap threw = {}
  BY DEF Counts
<1> HIDE DEF all, current, threw
<1>3. Cardinality(current \cup threw)
        = Cardinality(current) + Cardinality(threw) - Cardinality(current \cap threw)
  BY <1>1, FS_Union
<1>4. Cardinality(current) \in Nat /\ Cardinality(threw) \in Nat
  BY <1>1, FS_CardinalityType
<1>5. Cardinality(current \cap threw) = 0
  BY <1>2, FS_EmptySet
<1>6. Cardinality(all) = Cardinality(current) + Cardinality(threw)
  BY <1>2, <1>3, <1>4, <1>5
<1>7. QED
  BY <1>1, <1>6 DEF all, current, threw

(* The count follows the run that enters or leaves the set of the counted. *)
LEMMA CountKept ==
  ASSUME TypeOK, RunningCounted, NEW r \in Runs, NEW y, Steps(r, y)
  PROVE  RunningCounted'
<1>1. IsFiniteSet(Counted) /\ Cardinality(Counted) = running
  BY CountedIsSum DEF RunningCounted, Running, Rejected, Counted
<1>2. /\ run' = [run EXCEPT ![r] = y] /\ run \in [Runs -> RunState]
  BY DEF Steps, Sets, TypeOK
<1>3. r \in Counted <=> run[r].ctl \in Counts
  BY DEF Counted
<1>4. \A s \in Runs \ {r} : s \in Counted' <=> s \in Counted
  BY <1>2 DEF Counted
<1>5. r \in Counted' <=> y.ctl \in Counts
  BY <1>2 DEF Counted
<1>6. Counted \subseteq Runs /\ Counted' \subseteq Runs
  BY DEF Counted
<1>7. Cardinality(Counted') = running' => RunningCounted'
  BY CountedIsSum DEF RunningCounted, Running, Rejected, Counted
<1>8. CASE running' = running /\ SameCount(run[r], y)
  <2>1. Counted' = Counted
    BY <1>3, <1>4, <1>5, <1>6, <1>8 DEF SameCount
  <2>2. QED
    BY <1>1, <1>7, <1>8, <2>1
<1>9. CASE running' = running + 1 /\ run[r].ctl \notin Counts /\ y.ctl \in Counts
  <2>1. Counted' = Counted \cup {r} /\ r \notin Counted
    BY <1>3, <1>4, <1>5, <1>6, <1>9
  <2>2. Cardinality(Counted') = Cardinality(Counted) + 1
    BY <1>1, <2>1, FS_AddElement
  <2>3. QED
    BY <1>1, <1>7, <1>9, <2>2
<1>10. CASE running' = running - 1 /\ run[r].ctl \in Counts /\ y.ctl \notin Counts
  <2>1. Counted' = Counted \ {r} /\ r \in Counted
    BY <1>3, <1>4, <1>5, <1>6, <1>10
  <2>2. Cardinality(Counted') = Cardinality(Counted) - 1
    BY <1>1, <2>1, FS_RemoveElement
  <2>3. QED
    BY <1>1, <1>7, <1>10, <2>2
<1>11. QED
  BY <1>8, <1>9, <1>10 DEF Steps

(* Every step keeps the invariant.                                         *)
LEMMA NextKeepsInv ==
  ASSUME RunnerInv, [Next]_vars
  PROVE  RunnerInv'
<1>0. TypeOK /\ RunningCounted /\ StoreTyped
  BY DEF RunnerInv, TypeOK, StoreTyped
<1>1. ASSUME NEW r \in Runs, RunStep(r)
      PROVE  RunnerInv'
  <2>1. run[r] \in RunState
    BY <1>0 DEF TypeOK
  <2>2. PICK y : Steps(r, y)
    BY <1>1, <2>1, RunStepMoves
  <2>3. StoreTyped' /\ KindKept
    BY <1>0, <1>1, <2>1, RunStepKeepsStore
  <2>4. RunningCounted'
    BY <1>0, <2>2, CountKept
  <2>5. run \in [Runs -> RunState] /\ run' = [run EXCEPT ![r] = y] /\ y \in RunState
    BY <1>0, <2>2 DEF TypeOK, Steps, Sets, Moves
  <2>6. run' \in [Runs -> RunState]
    BY <2>5
  <2>7. running' \in Int
    <3>1. running \in Int /\ running' \in {running, running + 1, running - 1}
      BY <1>0, <2>2 DEF TypeOK, Steps
    <3>2. QED
      BY <3>1
  <2>8. unhandled' \in BOOLEAN /\ faults' \in Nat
    <3>1. faults \in Nat /\ unhandled \in BOOLEAN
      BY <1>0 DEF TypeOK
    <3>2. unhandled' \in {unhandled, TRUE} /\ faults' \in {faults, faults + 1}
      BY <1>1 DEF RunStep, Fault, Start, Read, ReadFails, ProgressCalled, ProgressWritten,
           ProgressFails, ProgressReturns, ProgressThrows, DeadlineFires, PushbackFires,
           PushbackWritten, PushbackFails, PushbackReturns, PushbackThrows, StrayWritten,
           StrayFails, BodyReturns, BodyThrows, CommitSuccess, CommitSuccessFails,
           AttemptRolledBack, CommitError, CommitErrorFails, Settle
    <3>3. unhandled' \in BOOLEAN
      BY <3>1, <3>2, Zenon
    <3>4. faults' \in Nat
      BY <3>1, <3>2
    <3>5. QED
      BY <3>3, <3>4
  <2>9. \A s \in Runs : (Timed(run[s]) /\ Told(run[s]))'
    <3>1. ASSUME NEW s \in Runs PROVE Timed(run'[s]) /\ Told(run'[s])
      <4>1. Timed(run[s]) /\ Told(run[s])
        BY DEF RunnerInv
      <4>2. CASE s = r
        BY <2>2, <2>5, <4>1, <4>2 DEF Steps, Moves
      <4>3. CASE s # r
        BY <2>5, <4>1, <4>3
      <4>4. QED
        BY <4>2, <4>3
    <3>2. \A s \in Runs : (Told(run[s]))' <=> Told(run'[s])
      BY <2>3 DEF Told, Matched, Notifiable, KindKept
    <3>3. QED
      BY <3>1, <3>2 DEF Timed
  <2>10. QED
    BY <2>3, <2>4, <2>6, <2>7, <2>8, <2>9 DEF RunnerInv, TypeOK, StoreTyped
<1>2. ASSUME UNCHANGED <<run, running, unhandled, faults>>, StoreTyped' /\ KindKept
      PROVE  RunnerInv'
  <2>1. RunningCounted'
    BY <1>0, <1>2 DEF RunningCounted, Running, Rejected
  <2>2. \A s \in Runs : (Timed(run[s]) /\ Told(run[s]))'
    BY <1>2 DEF RunnerInv, Timed, Told, Matched, Notifiable, KindKept
  <2>3. QED
    BY <1>0, <1>2, <2>1, <2>2 DEF RunnerInv, TypeOK, StoreTyped
<1>3. CASE \E e \in Executors : Adopt(e)
  <2>1. PICK e \in Executors : Adopt(e)
    BY <1>3
  <2>2. Adopted(header, e, 1) \in Header /\ Adopted(header, e, 1).forever = header.forever
    BY <1>0, LeaseTyped DEF StoreTyped, Adopted, Header
  <2>3. QED
    BY <1>0, <1>2, <2>1, <2>2, CommitKeeps DEF Adopt, StoreTyped
<1>4. CASE Reset
  <2>1. Released(header, 1) \in Header /\ Released(header, 1).forever = header.forever
    BY <1>0, LeaseTyped, RunnerAssumption DEF StoreTyped, Released, Header
  <2>2. QED
    BY <1>0, <1>2, <1>4, <2>1, CommitKeeps DEF Reset, StoreTyped
<1>5. CASE Clear
  BY <1>0, <1>2, <1>5, CommitKeeps DEF Clear, StoreTyped
<1>6. CASE UNCHANGED vars
  <2>1. StoreTyped' /\ KindKept /\ UNCHANGED <<run, running, unhandled, faults>>
    BY <1>0, <1>6 DEF vars, storeVars, StoreTyped, KindKept
  <2>2. QED
    BY <1>2, <2>1
<1>7. QED
  BY <1>1, <1>3, <1>4, <1>5, <1>6 DEF Next

(* The inductive invariant of the runs of one executor on one job: types,  *)
(* the running count, and of every run its deadline and its notification.  *)
THEOREM RunnerInvariant == Spec => []RunnerInv
BY InitInv, NextKeepsInv, PTL DEF Spec

(* All variables keep their types, however many instances act on the job.  *)
THEOREM RunnerTypes == Spec => []TypeOK
<1>1. RunnerInv => TypeOK
  BY DEF RunnerInv
<1>2. QED
  BY <1>1, RunnerInvariant, PTL

(* A body that races always has a deadline (jobRunner.ts, GetJob and       *)
(* ResetProgressTimer), however its calls of Progress() and those of the   *)
(* pushback timer overlap.                                                 *)
THEOREM RacesAreTimed == Spec => []RacingIsTimed
<1>1. RunnerInv => RacingIsTimed
  BY DEF RunnerInv, RacingIsTimed, Timed
<1>2. QED
  BY <1>1, RunnerInvariant, PTL

(* The count the ring balances by (JobRunner.totalRunningJobs) is the      *)
(* number of runs that have read their job and have not ended, plus one    *)
(* for every run whose error transaction failed: nothing else shifts it.   *)
THEOREM CountIsRight == Spec => []RunningCounted
<1>1. RunnerInv => RunningCounted
  BY DEF RunnerInv
<1>2. QED
  BY <1>1, RunnerInvariant, PTL

(* onFatalError() is told of every outcome that jobRunner.ts 408-428 means *)
(* it to be told of (fatal, vanished, the retry of a job that repeats      *)
(* forever; never of a scheduled_email), and of nothing else unless the    *)
(* store rolled an attempt back.                                           *)
THEOREM NotificationsMatch == Spec => []NotificationMatches
<1>1. RunnerInv => NotificationMatches
  BY DEF RunnerInv, NotificationMatches, Told, Matched
<1>2. QED
  BY <1>1, RunnerInvariant, PTL

(* What a run still does when its outcome is written leaves the owner, the *)
(* retries and the repetition of the job alone, and moves its time only    *)
(* while the run's executor has the job.                                   *)
THEOREM LateWritesAreRenewals == Spec => LateWritesOnlyRenew
<1> DEFINE Late == \A r \in Runs : run[r].ctl \in Over /\ run'[r] # run[r] =>
                     header' \in {header, Renewed(header, 1)} /\ (header.exec # Me => header' = header)
<1>1. ASSUME RunnerInv, [Next]_vars PROVE Late
  <2> SUFFICES ASSUME NEW r \in Runs, run[r].ctl \in Over, run'[r] # run[r]
               PROVE  /\ header' \in {header, Renewed(header, 1)}
                      /\ header.exec # Me => header' = header
    OBVIOUS
  <2>1. run \in [Runs -> RunState]
    BY <1>1 DEF RunnerInv, TypeOK
  <2>2. ~UNCHANGED run
    OBVIOUS
  <2>3. PICK s \in Runs : RunStep(s)
    BY <1>1, <2>2 DEF Next, Adopt, Reset, Clear, vars
  <2>4. PICK y : Steps(s, y)
    BY <2>1, <2>3, RunStepMoves
  <2>5. s = r
    BY <2>1, <2>4 DEF Steps, Sets
  <2>6. run[r].ctl \notin {"new", "reading", "racing", "returned", "failing"}
    BY DEF Over
  <2>7. CASE \/ ProgressWritten(r) \/ \E i \in Pushbacks : PushbackWritten(r, i)
            \/ \E k \in Strays : StrayWritten(r, k)
    BY <2>7 DEF ProgressWritten, PushbackWritten, StrayWritten, Owned, Commit, storeVars
  <2>8. CASE UNCHANGED storeVars
    BY <2>8 DEF storeVars
  <2>9. CASE \/ ProgressCalled(r) \/ ProgressFails(r) \/ ProgressReturns(r) \/ ProgressThrows(r)
             \/ DeadlineFires(r) \/ PushbackFires(r)
             \/ \E i \in Pushbacks : \/ PushbackFails(r, i) \/ PushbackReturns(r, i)
                                    \/ PushbackThrows(r, i)
             \/ \E k \in Strays : StrayFails(r, k)
    BY <2>8, <2>9
       DEF ProgressCalled, ProgressFails, ProgressReturns, ProgressThrows, DeadlineFires,
           PushbackFires, PushbackFails, PushbackReturns, PushbackThrows, StrayFails
  <2>10. CASE \/ BodyReturns(r) \/ Settle(r)
    BY <2>8, <2>10 DEF BodyReturns, Settle
  <2>11. ~(\/ Start(r) \/ Read(r) \/ ReadFails(r) \/ BodyThrows(r) \/ CommitSuccess(r)
           \/ CommitSuccessFails(r) \/ AttemptRolledBack(r) \/ CommitError(r) \/ CommitErrorFails(r))
    BY <2>6 DEF Start, Read, ReadFails, BodyThrows, CommitSuccess, CommitSuccessFails,
           AttemptRolledBack, CommitError, CommitErrorFails
  <2>12. QED
    BY <2>3, <2>5, <2>7, <2>9, <2>10, <2>11 DEF RunStep
<1>2. QED
  BY <1>1, RunnerInvariant, PTL DEF Spec, LateWritesOnlyRenew

=============================================================================
