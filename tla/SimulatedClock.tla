--------------------------- MODULE SimulatedClock ---------------------------
(***************************************************************************)
(* SimulatedWorkflowClock: a clock that moves only when it is advanced.    *)
(* It is shared by everything that runs in one process: a test advances    *)
(* it, and so does every job in Wait(), which sleeps with                  *)
(* advanceIfSupported.                                                     *)
(*                                                                         *)
(* advance() is asynchronous: after each entry it fires it waits until the *)
(* microtask queue is empty, and anything may run in the meantime, another *)
(* advance() included.  What runs between two awaits is one action.  What  *)
(* the callback of an interval does to its own interval is part of the     *)
(* tick, for the entry is renewed after it; whatever else a callback does  *)
(* is a step of its own that follows.  (An entry it enqueues is then       *)
(* numbered after the interval's and not before it, which only orders two  *)
(* entries of one instant.)  Callbacks do not move the clock before they   *)
(* return.  A cancelled entry leaves `pending` at once.                    *)
(***************************************************************************)
EXTENDS Integers, FiniteSets

CONSTANTS
  Calls,      \* slots for calls of advance() (model bound)
  Intervals,  \* slots for intervals (model bound)
  Delays,     \* delays of sleeps and timers
  Periods,    \* delays of intervals
  Strides,    \* arguments of advance()
  Jumps,      \* arguments of setTime()
  MaxTime,    \* bound of the clock (model bound)
  MaxSeq      \* bound on the entries that callers enqueue (model bound)

ASSUME ClockAssumption ==
  /\ Delays \subseteq Nat
  /\ Periods \subseteq Nat \ {0}
  /\ Strides \subseteq Nat
  /\ Jumps \subseteq Nat
  /\ MaxTime \in Nat
  /\ MaxSeq \in Nat
  /\ Intervals \cap {"sleep", "timer"} = {}

VARIABLES
  now,         \* nowMs
  seqCounter,
  pending,     \* the entries that are neither fired nor cancelled
  interval,    \* interval[i]: the period of interval i, 0 if there is none
  calls        \* calls[a]: one call of advance()

vars == <<now, seqCounter, pending, interval, calls>>

Kinds == {"sleep", "timer"} \cup Intervals

Entry == [at : Nat, seq : Nat, kind : Kinds]

(* Between two entries ("draining"), at the last await ("exiting").        *)
Call == [pc : {"off", "draining", "exiting"}, target : Nat]

Off == [pc |-> "off", target |-> 0]

Init ==
  /\ now = 0
  /\ seqCounter = 0
  /\ pending = {}
  /\ interval = [i \in Intervals |-> 0]
  /\ calls = [a \in Calls |-> Off]

(***************************************************************************)
(* Entries                                                                 *)
(***************************************************************************)

(* A plausible fault: entries share a sequence number.                     *)
EnqueueUnnumbered(at, kind, kept) ==
  /\ pending' = kept \cup {[at |-> at, seq |-> seqCounter, kind |-> kind]}
  /\ UNCHANGED seqCounter

Enqueue(at, kind, kept) ==
  /\ pending' = kept \cup {[at |-> at, seq |-> seqCounter, kind |-> kind]}
  /\ seqCounter' = seqCounter + 1

Sleep(ms) ==
  /\ seqCounter < MaxSeq
  /\ Enqueue(now + ms, "sleep", pending)
  /\ UNCHANGED <<now, interval, calls>>

SetTimer(ms) ==
  /\ seqCounter < MaxSeq
  /\ Enqueue(now + ms, "timer", pending)
  /\ UNCHANGED <<now, interval, calls>>

CancelTimer(p) ==
  /\ p.kind = "timer"
  /\ pending' = pending \ {p}
  /\ UNCHANGED <<now, seqCounter, interval, calls>>

SetTimerInterval(i, ms) ==
  /\ seqCounter < MaxSeq
  /\ interval[i] = 0
  /\ interval' = [interval EXCEPT ![i] = ms]
  /\ Enqueue(now + ms, i, pending)
  /\ UNCHANGED <<now, calls>>

(* What cancelling an interval cancels: its current entry.                 *)
EntriesOf(i) == {p \in pending : p.kind = i}

CancelInterval(i) ==
  /\ interval[i] # 0
  /\ interval' = [interval EXCEPT ![i] = 0]
  /\ pending' = pending \ EntriesOf(i)
  /\ UNCHANGED <<now, seqCounter, calls>>

(***************************************************************************)
(* advance()                                                               *)
(***************************************************************************)

Due(target) == {p \in pending : p.at <= target}

(* A plausible fault: entries fire in the order they were set.             *)
SetBefore(p, q) == p.seq <= q.seq

(* Deadline order, FIFO on ties.                                           *)
Before(p, q) == p.at < q.at \/ (p.at = q.at /\ p.seq <= q.seq)

(* A plausible fault: the entry that fires is not taken out.               *)
KeptIn(p) == pending

TakenOut(p) == pending \ {p}

(* A plausible fault: an interval is renewed without a look at `cancelled`. *)
TickUnchecked(p, i) ==
  /\ Enqueue(p.at + interval[i], i, TakenOut(p))
  /\ interval' \in {interval, [interval EXCEPT ![i] = 0]}

(* A tick of interval i.  The callback leaves the interval alone, cancels  *)
(* it, or cancels it and sets it again; then, whether the callback threw   *)
(* or not, the interval is enqueued again unless it was cancelled.         *)
Tick(p, i) ==
  \/ /\ Enqueue(p.at + interval[i], i, TakenOut(p))
     /\ UNCHANGED interval
  \/ /\ interval' = [interval EXCEPT ![i] = 0]
     /\ pending' = TakenOut(p)
     /\ UNCHANGED seqCounter
  \/ /\ seqCounter < MaxSeq
     /\ \E ms \in Periods :
          /\ interval' = [interval EXCEPT ![i] = ms]
          /\ Enqueue(p.at + ms, i, TakenOut(p))

(* The clock moves to the entry and fires it.                              *)
Fire(p) ==
  /\ now' = p.at
  /\ IF p.kind \in Intervals
     THEN Tick(p, p.kind)
     ELSE pending' = TakenOut(p) /\ UNCHANGED <<seqCounter, interval>>

(* One iteration of the loop.                                              *)
Drain(a, target) ==
  \/ \E p \in Due(target) :
       /\ \A q \in Due(target) : Before(p, q)
       /\ Fire(p)
       /\ calls' = [calls EXCEPT ![a] = [pc |-> "draining", target |-> target]]
  \/ \E p \in Due(target) :
       /\ \A q \in Due(target) : Before(p, q)
       /\ Fire(p)
       /\ p.kind # "sleep"              \* the callback throws, and advance() with it
       /\ calls' = [calls EXCEPT ![a] = Off]
  \/ /\ Due(target) = {}
     /\ now' = target
     /\ calls' = [calls EXCEPT ![a] = [pc |-> "exiting", target |-> target]]
     /\ UNCHANGED <<seqCounter, pending, interval>>

(* advance(ms), or sleep(ms) with advanceIfSupported.                      *)
Advance(a, ms) ==
  /\ calls[a].pc = "off"
  /\ now + ms <= MaxTime
  /\ Drain(a, now + ms)

Continue(a) ==
  /\ calls[a].pc = "draining"
  /\ Drain(a, calls[a].target)

Return(a) ==
  /\ calls[a].pc = "exiting"
  /\ calls' = [calls EXCEPT ![a] = Off]
  /\ UNCHANGED <<now, seqCounter, pending, interval>>

SetTime(ms) ==
  /\ now' = ms
  /\ UNCHANGED <<seqCounter, pending, interval, calls>>

Next ==
  \/ \E ms \in Delays : Sleep(ms) \/ SetTimer(ms)
  \/ \E p \in pending : CancelTimer(p)
  \/ \E i \in Intervals, ms \in Periods : SetTimerInterval(i, ms)
  \/ \E i \in Intervals : CancelInterval(i)
  \/ \E a \in Calls, ms \in Strides : Advance(a, ms)
  \/ \E a \in Calls : Continue(a) \/ Return(a)
  \/ \E ms \in Jumps : SetTime(ms)

(* The event loop always gets to the end of a flush.                       *)
Fairness == \A a \in Calls : WF_vars(Continue(a)) /\ WF_vars(Return(a))

Spec == Init /\ [][Next]_vars

FairSpec == Spec /\ Fairness

(***************************************************************************)
(* Properties                                                              *)
(***************************************************************************)

(* The variables have their types, and the sequence numbers that break     *)
(* ties are unique.                                                        *)
TypeOK ==
  /\ now \in Nat
  /\ seqCounter \in Nat
  /\ pending \subseteq Entry
  /\ \A p, q \in pending : p.seq = q.seq => p = q
  /\ \A p \in pending : p.seq < seqCounter
  /\ interval \in [Intervals -> {0} \cup Periods]
  /\ calls \in [Calls -> Call]

(* An interval that runs has one entry, never none and never two, however  *)
(* its callbacks throw and whenever it is cancelled and set again, by its  *)
(* own callback too; one that was cancelled has none.                      *)
IntervalsTick ==
  \A i \in Intervals :
    Cardinality({p \in pending : p.kind = i}) = (IF interval[i] = 0 THEN 0 ELSE 1)

(* While setTime() only sets the clock back to its start, however many     *)
(* calls of advance() overlap and turn the clock back and forth: no entry  *)
(* is ever overdue, so none fires after its time.                          *)
NoneOverdue == \A p \in pending : now <= p.at

(* "Advance the clock by `ms`, firing any pending sleeps/timers whose      *)
(* deadline is reached": no advance() turns the clock back.  This holds    *)
(* while calls of advance() do not overlap, and not when they do.          *)
OnlyForward == [][now' >= now]_vars

(* Every advance() returns or throws, whatever intervals tick, however     *)
(* calls overlap and setTime() moves the clock, as long as callers enqueue *)
(* only finitely many entries (MaxSeq) and no interval has period 0.       *)
AdvanceReturns == \A a \in Calls : (calls[a].pc # "off") ~> (calls[a].pc = "off")

=============================================================================
