------------------------ MODULE SimulatedClock_proofs ------------------------
(***************************************************************************)
(* What SimulatedClock promises for any number of callers, entries and     *)
(* intervals, and without a bound on time.                                 *)
(***************************************************************************)
EXTENDS SimulatedClock, FiniteSetTheorems, TLAPS

(* An iteration of advance(), its target given.                            *)
Fires(p, target) ==
  /\ p \in Due(target)
  /\ \A q \in Due(target) : Before(p, q)
  /\ Fire(p)

Drained(target) ==
  /\ Due(target) = {}
  /\ now' = target
  /\ UNCHANGED <<seqCounter, pending, interval>>

(* What one iteration of the loop does: it fires a due entry, or ends.     *)
LEMMA DrainCases ==
  ASSUME NEW a, NEW target, Drain(a, target)
  PROVE  (\E p \in pending : Fires(p, target)) \/ Drained(target)
BY DEF Drain, Fires, Drained, Due

(* The calls after an iteration.                                           *)
LEMMA DrainCalls ==
  ASSUME NEW a \in Calls, NEW target \in Nat, calls \in [Calls -> Call], Drain(a, target)
  PROVE  /\ calls' \in [Calls -> Call]
         /\ \A b \in Calls : b # a => calls'[b] = calls[b]
         /\ calls'[a].pc = "draining" => calls'[a].target = target /\ Due(target) # {}
<1>1. CASE calls' = [calls EXCEPT ![a] = [pc |-> "draining", target |-> target]] /\ Due(target) # {}
  BY <1>1 DEF Call
<1>2. CASE calls' = [calls EXCEPT ![a] = [pc |-> "exiting", target |-> target]]
  BY <1>2 DEF Call
<1>3. CASE calls' = [calls EXCEPT ![a] = Off]
  BY <1>3 DEF Call, Off
<1>4. QED
  BY <1>1, <1>2, <1>3 DEF Drain

(***************************************************************************)
(* Types.                                                                  *)
(***************************************************************************)

(* What TypeOK says of the entries.                                        *)
EntriesOK ==
  /\ seqCounter \in Nat
  /\ pending \subseteq Entry
  /\ \A p, q \in pending : p.seq = q.seq => p = q
  /\ \A p \in pending : p.seq < seqCounter

(* A new entry has a number no other entry has.                            *)
LEMMA EnqueueEntries ==
  ASSUME EntriesOK, NEW kept \in SUBSET pending, NEW at \in Nat, NEW kind \in Kinds,
         Enqueue(at, kind, kept)
  PROVE  EntriesOK'
<1> DEFINE e == [at |-> at, seq |-> seqCounter, kind |-> kind]
<1>1. e \in Entry /\ e.seq = seqCounter
  BY DEF EntriesOK, Entry
<1>2. pending' = kept \cup {e} /\ seqCounter' = seqCounter + 1
  BY DEF Enqueue
<1>3. \A p \in kept : p.seq \in Nat /\ p.seq < seqCounter
  BY DEF EntriesOK, Entry
<1> HIDE DEF e
<1>4. QED
  BY <1>1, <1>2, <1>3 DEF EntriesOK

(* The period of an interval, or 0.                                        *)
LEMMA IntervalNat ==
  ASSUME TypeOK, NEW i \in Intervals
  PROVE  interval[i] \in Nat
<1>1. interval \in [Intervals -> {0} \cup Periods]
  BY DEF TypeOK
<1>2. interval[i] \in {0} \cup Periods
  BY <1>1
<1>3. CASE interval[i] = 0
  BY <1>3
<1>4. CASE interval[i] \in Periods
  <2>1. Periods \subseteq Nat \ {0}
    BY ClockAssumption
  <2> DEFINE n == interval[i]
  <2>2. n \in Periods
    BY <1>4
  <2> HIDE DEF n
  <2>3. n \in Nat
    BY <2>1, <2>2
  <2>4. QED
    BY <2>3 DEF n
<1>5. QED
  BY <1>2, <1>3, <1>4

(* What a tick does: it renews the interval, or ends it.                   *)
LEMMA TickCases ==
  ASSUME TypeOK, NEW p \in pending, NEW i \in Intervals, Tick(p, i)
  PROVE  /\ interval' \in [Intervals -> {0} \cup Periods]
         /\ \A k \in Intervals : k # i => interval'[k] = interval[k]
         /\ \/ interval'[i] = 0 /\ pending' = TakenOut(p) /\ UNCHANGED seqCounter
            \/ \E ms \in Nat : /\ Enqueue(p.at + ms, i, TakenOut(p))
                               /\ interval[i] # 0 => interval'[i] # 0
<1>1. interval \in [Intervals -> {0} \cup Periods] /\ interval[i] \in Nat
  BY IntervalNat DEF TypeOK
<1>2. CASE Enqueue(p.at + interval[i], i, TakenOut(p)) /\ UNCHANGED interval
  BY <1>1, <1>2
<1>3. CASE /\ interval' = [interval EXCEPT ![i] = 0]
           /\ pending' = TakenOut(p)
           /\ UNCHANGED seqCounter
  BY <1>1, <1>3
<1>4. ASSUME NEW ms \in Periods,
             interval' = [interval EXCEPT ![i] = ms],
             Enqueue(p.at + ms, i, TakenOut(p))
      PROVE  /\ interval' \in [Intervals -> {0} \cup Periods]
             /\ \A k \in Intervals : k # i => interval'[k] = interval[k]
             /\ ms \in Nat /\ Enqueue(p.at + ms, i, TakenOut(p)) /\ interval'[i] # 0
  <2>1. ms \in Nat \ {0}
    BY ClockAssumption
  <2>2. QED
    BY <1>1, <1>4, <2>1
<1>5. QED
  BY <1>2, <1>3, <1>4 DEF Tick

(* Firing an entry keeps the entries and the intervals well-formed.        *)
LEMMA FireEntries ==
  ASSUME TypeOK, NEW p \in pending, Fire(p)
  PROVE  EntriesOK' /\ now' \in Nat /\ interval' \in [Intervals -> {0} \cup Periods]
<1>1. EntriesOK /\ p \in Entry /\ TakenOut(p) \in SUBSET pending
  BY DEF TypeOK, EntriesOK, TakenOut
<1>2. p.at \in Nat /\ p.kind \in Kinds /\ now' \in Nat
  BY <1>1 DEF Entry, Fire
<1>3. pending' = TakenOut(p) /\ UNCHANGED seqCounter => EntriesOK'
  BY <1>1 DEF EntriesOK, TakenOut
<1>4. CASE p.kind \in Intervals
  <2>1. Tick(p, p.kind)
    BY <1>4 DEF Fire
  <2>2. interval' \in [Intervals -> {0} \cup Periods]
    BY <1>4, <2>1, TickCases
  <2>3. ASSUME NEW ms \in Nat, Enqueue(p.at + ms, p.kind, TakenOut(p))
        PROVE  EntriesOK'
    <3>1. p.at + ms \in Nat
      BY <1>2
    <3>2. QED
      BY <1>1, <1>2, <2>3, <3>1, EnqueueEntries
  <2>4. QED
    BY <1>2, <1>3, <1>4, <2>1, <2>2, <2>3, TickCases
<1>5. CASE p.kind \notin Intervals
  BY <1>2, <1>3, <1>5 DEF Fire, TypeOK
<1>6. QED
  BY <1>4, <1>5

(* The types hold initially.                                               *)
LEMMA TypeInit == Init => TypeOK
BY DEF Init, TypeOK, Off, Call

(* An iteration of the loop keeps the types.                               *)
LEMMA DrainType ==
  ASSUME TypeOK, NEW a \in Calls, NEW target \in Nat, Drain(a, target)
  PROVE  TypeOK'
<1>1. calls' \in [Calls -> Call]
  BY DrainCalls DEF TypeOK
<1>2. ASSUME NEW p \in pending, Fires(p, target)
      PROVE  TypeOK'
  BY <1>1, <1>2, FireEntries DEF Fires, Fire, TypeOK, EntriesOK
<1>3. CASE Drained(target)
  BY <1>1, <1>3 DEF Drained, TypeOK
<1>4. QED
  BY <1>2, <1>3, DrainCases

(* Every step keeps the types.                                             *)
LEMMA TypeStep == TypeOK /\ [Next]_vars => TypeOK'
<1> SUFFICES ASSUME TypeOK, [Next]_vars PROVE TypeOK'
  OBVIOUS
<1>1. EntriesOK /\ now \in Nat
  BY DEF TypeOK, EntriesOK
<1>2. ASSUME NEW ms \in Delays, Sleep(ms) \/ SetTimer(ms)
      PROVE  TypeOK'
  <2>1. now + ms \in Nat /\ "sleep" \in Kinds /\ "timer" \in Kinds
    BY <1>1, ClockAssumption DEF Kinds
  <2>2. EntriesOK'
    BY <1>1, <1>2, <2>1, EnqueueEntries DEF Sleep, SetTimer
  <2>3. QED
    BY <1>2, <2>2 DEF Sleep, SetTimer, TypeOK, EntriesOK
<1>3. ASSUME NEW p \in pending, CancelTimer(p)
      PROVE  TypeOK'
  BY <1>3 DEF CancelTimer, TypeOK
<1>4. ASSUME NEW i \in Intervals, NEW ms \in Periods, SetTimerInterval(i, ms)
      PROVE  TypeOK'
  <2>1. now + ms \in Nat /\ i \in Kinds
    BY <1>1, ClockAssumption DEF Kinds
  <2>2. EntriesOK'
    BY <1>1, <1>4, <2>1, EnqueueEntries DEF SetTimerInterval
  <2>3. QED
    BY <1>4, <2>2 DEF SetTimerInterval, TypeOK, EntriesOK
<1>5. ASSUME NEW i \in Intervals, CancelInterval(i)
      PROVE  TypeOK'
  BY <1>5 DEF CancelInterval, EntriesOf, TypeOK
<1>6. ASSUME NEW a \in Calls, NEW ms \in Strides, Advance(a, ms)
      PROVE  TypeOK'
  <2>1. now + ms \in Nat
    BY <1>1, ClockAssumption
  <2>2. QED
    BY <1>6, <2>1, DrainType DEF Advance
<1>7. ASSUME NEW a \in Calls, Continue(a)
      PROVE  TypeOK'
  <2>1. calls[a].target \in Nat
    BY DEF TypeOK, Call
  <2>2. QED
    BY <1>7, <2>1, DrainType DEF Continue
<1>8. ASSUME NEW a \in Calls, Return(a)
      PROVE  TypeOK'
  <2>1. Off \in Call
    BY DEF Off, Call
  <2>2. QED
    BY <1>8, <2>1 DEF Return, TypeOK
<1>9. ASSUME NEW ms \in Jumps, SetTime(ms)
      PROVE  TypeOK'
  BY <1>9, ClockAssumption DEF SetTime, TypeOK
<1>10. CASE UNCHANGED vars
  BY <1>10 DEF vars, TypeOK
<1>11. QED
  BY <1>2, <1>3, <1>4, <1>5, <1>6, <1>7, <1>8, <1>9, <1>10 DEF Next

(* The clock's variables keep their types and its sequence numbers stay    *)
(* unique, whatever the callers do.                                        *)
THEOREM ClockTypes == Spec => []TypeOK
BY TypeInit, TypeStep, PTL DEF Spec

(***************************************************************************)
(* No entry is overdue.                                                    *)
(***************************************************************************)

(* An iteration of advance() leaves nothing behind, and moves the clock to *)
(* an entry or to its target.                                              *)
LEMMA DrainOverdue ==
  ASSUME TypeOK, NoneOverdue, NEW a \in Calls, NEW target \in Nat, Drain(a, target)
  PROVE  /\ NoneOverdue'
         /\ now <= now' \/ now' = target
         /\ Due(target) # {} => now <= now' /\ now' <= target
<1>1. now \in Nat /\ \A q \in pending : q.at \in Nat /\ now <= q.at
  BY DEF TypeOK, Entry, NoneOverdue
<1>2. ASSUME NEW p \in pending, Fires(p, target)
      PROVE  NoneOverdue' /\ now <= now' /\ now' <= target
  <2>1. now' = p.at /\ p.at <= target
    BY <1>2 DEF Fires, Fire, Due
  <2>2. \A q \in pending : p.at <= q.at
    BY <1>1, <1>2 DEF Fires, Due, Before
  <2>3. ASSUME NEW q \in pending' PROVE p.at <= q.at
    <3>1. CASE q \in pending
      BY <2>2, <3>1
    <3>2. CASE q \notin pending
      <4>1. p.kind \in Intervals /\ Tick(p, p.kind) /\ q \notin TakenOut(p)
        BY <1>2, <3>2, <2>3 DEF Fires, Fire, TakenOut
      <4>2. PICK ms \in Nat : Enqueue(p.at + ms, p.kind, TakenOut(p))
        BY <2>3, <4>1, TickCases
      <4>3. q.at = p.at + ms
        BY <2>3, <4>1, <4>2 DEF Enqueue
      <4>4. QED
        BY <1>1, <4>3
    <3>3. QED
      BY <3>1, <3>2
  <2>4. QED
    BY <1>1, <2>1, <2>3 DEF NoneOverdue
<1>3. ASSUME Drained(target)
      PROVE  NoneOverdue' /\ now' = target /\ Due(target) = {}
  <2>1. \A q \in pending : ~(q.at <= target)
    BY <1>3 DEF Drained, Due
  <2>2. QED
    BY <1>1, <1>3, <2>1 DEF Drained, NoneOverdue
<1>4. QED
  BY <1>2, <1>3, DrainCases

(* Unless setTime() sets it ahead, no step makes an entry overdue: the     *)
(* loop never moves the clock past an entry it has not fired.              *)
LEMMA OverdueStep ==
  ASSUME Jumps \subseteq {0}, TypeOK, NoneOverdue, [Next]_vars
  PROVE  NoneOverdue'
<1>1. now \in Nat
  BY DEF TypeOK
<1>2. ASSUME NEW ms \in Nat, NEW kind, Enqueue(now + ms, kind, pending), UNCHANGED now
      PROVE  NoneOverdue'
  BY <1>1, <1>2 DEF Enqueue, NoneOverdue
<1>3. ASSUME NEW ms \in Delays, Sleep(ms) \/ SetTimer(ms)
      PROVE  NoneOverdue'
  BY <1>2, <1>3, ClockAssumption DEF Sleep, SetTimer
<1>4. ASSUME NEW i \in Intervals, NEW ms \in Periods, SetTimerInterval(i, ms)
      PROVE  NoneOverdue'
  BY <1>2, <1>4, ClockAssumption DEF SetTimerInterval
<1>5. CASE pending' \subseteq pending /\ UNCHANGED now
  BY <1>5 DEF NoneOverdue
<1>6. ASSUME NEW a \in Calls, NEW ms \in Strides, Advance(a, ms)
      PROVE  NoneOverdue'
  <2>1. now + ms \in Nat
    BY <1>1, ClockAssumption
  <2>2. QED
    BY <1>6, <2>1, DrainOverdue DEF Advance
<1>7. ASSUME NEW a \in Calls, Continue(a)
      PROVE  NoneOverdue'
  <2>1. calls[a].target \in Nat
    BY DEF TypeOK, Call
  <2>2. QED
    BY <1>7, <2>1, DrainOverdue DEF Continue
<1>8. ASSUME NEW ms \in Jumps, SetTime(ms)
      PROVE  NoneOverdue'
  BY <1>8 DEF SetTime, NoneOverdue, TypeOK, Entry
<1>9. QED
  BY <1>3, <1>4, <1>5, <1>6, <1>7, <1>8 DEF Next, CancelTimer, CancelInterval, Return, vars

(* While setTime() only sets the clock back to its start, no entry is ever *)
(* overdue, however many calls of advance() overlap.                       *)
THEOREM NothingOverdue ==
  ASSUME Jumps \subseteq {0}
  PROVE  Spec => []NoneOverdue
<1>1. Init => NoneOverdue
  BY DEF Init, NoneOverdue
<1>2. TypeOK /\ NoneOverdue /\ [Next]_vars => NoneOverdue'
  BY OverdueStep
<1>3. QED
  BY <1>1, <1>2, ClockTypes, PTL DEF Spec

(***************************************************************************)
(* A clock with one caller.                                                *)
(***************************************************************************)

(* A call under way has not passed its target.                             *)
NotPast == \A a \in Calls : calls[a].pc = "draining" => now <= calls[a].target

(* With one caller, no step moves the clock back, and the target of the    *)
(* call stays in the future.                                               *)
LEMMA ForwardStep ==
  ASSUME Jumps = {}, \A a, b \in Calls : a = b, TypeOK, NoneOverdue, NotPast, [Next]_vars
  PROVE  NotPast' /\ now' >= now
<1>1. now \in Nat /\ calls \in [Calls -> Call]
  BY DEF TypeOK
<1>2. ASSUME NEW a \in Calls, NEW target \in Nat, now <= target, Drain(a, target)
      PROVE  NotPast' /\ now' >= now
  <2>1. now' \in Nat
    BY <1>2, DrainType DEF TypeOK
  <2>2. now' >= now
    BY <1>1, <1>2, <2>1, DrainOverdue
  <2>3. calls'[a].pc = "draining" => calls'[a].target = target /\ Due(target) # {}
    BY <1>1, <1>2, DrainCalls
  <2>4. Due(target) # {} => now' <= target
    BY <1>2, DrainOverdue
  <2>5. QED
    BY <2>2, <2>3, <2>4 DEF NotPast
<1>3. ASSUME NEW a \in Calls, NEW ms \in Strides, Advance(a, ms)
      PROVE  NotPast' /\ now' >= now
  <2>1. now + ms \in Nat /\ now <= now + ms
    BY <1>1, ClockAssumption
  <2>2. QED
    BY <1>2, <1>3, <2>1 DEF Advance
<1>4. ASSUME NEW a \in Calls, Continue(a)
      PROVE  NotPast' /\ now' >= now
  <2>1. calls[a].target \in Nat /\ now <= calls[a].target
    BY <1>1, <1>4 DEF Continue, Call, NotPast
  <2>2. QED
    BY <1>2, <1>4, <2>1 DEF Continue
<1>5. ASSUME NEW a \in Calls, Return(a)
      PROVE  NotPast' /\ now' >= now
  <2>1. UNCHANGED now /\ calls'[a].pc = "off"
    BY <1>1, <1>5 DEF Return, Off
  <2>2. QED
    BY <1>1, <2>1 DEF NotPast
<1>6. CASE UNCHANGED <<now, calls>>
  BY <1>1, <1>6 DEF NotPast
<1>7. QED
  BY <1>3, <1>4, <1>5, <1>6
     DEF Next, Sleep, SetTimer, CancelTimer, SetTimerInterval, CancelInterval, vars

(* Without setTime() and with one caller at a time, the clock never turns  *)
(* back.                                                                   *)
THEOREM OneCallerOnlyForward ==
  ASSUME Jumps = {}, \A a, b \in Calls : a = b
  PROVE  Spec => OnlyForward
<1>1. Init => NotPast
  BY DEF Init, NotPast, Off
<1>2. TypeOK /\ NoneOverdue /\ NotPast /\ [Next]_vars => NotPast' /\ [now' >= now]_vars
  BY ForwardStep
<1>3. Spec => []NoneOverdue
  BY NothingOverdue
<1>4. QED
  BY <1>1, <1>2, <1>3, ClockTypes, PTL DEF Spec, OnlyForward

(***************************************************************************)
(* Intervals.                                                              *)
(***************************************************************************)

(* An interval that runs has an entry and no two; one that does not, none. *)
Ticking ==
  \A i \in Intervals :
    /\ \A p, q \in EntriesOf(i) : p = q
    /\ EntriesOf(i) # {} <=> interval[i] # 0

(* Entries of callers come and go beside those of the intervals.           *)
LEMMA EntriesAlone ==
  ASSUME Ticking, UNCHANGED interval,
         \A i \in Intervals : \A p : (p \in pending' /\ p.kind = i) <=> (p \in pending /\ p.kind = i)
  PROVE  Ticking'
<1>1. \A i \in Intervals : EntriesOf(i)' = EntriesOf(i)
  BY DEF EntriesOf
<1>2. QED
  BY <1>1 DEF Ticking

(* An entry of interval i that is enqueued when there is no other.         *)
LEMMA EntryRenewed ==
  ASSUME TypeOK, Ticking, NEW i \in Intervals, NEW at \in Nat, NEW kept \in SUBSET pending,
         Enqueue(at, i, kept), interval'[i] # 0,
         \A p \in kept : p.kind # i,
         \A p \in pending : p \notin kept => p.kind = i,
         \A k \in Intervals : k # i => interval'[k] = interval[k]
  PROVE  Ticking'
<1> DEFINE e == [at |-> at, seq |-> seqCounter, kind |-> i]
<1>1. pending' = kept \cup {e} /\ e.kind = i
  BY DEF Enqueue
<1> HIDE DEF e
<1>2. EntriesOf(i)' = {e}
  BY <1>1 DEF EntriesOf
<1>3. \A k \in Intervals : k # i => EntriesOf(k)' = EntriesOf(k)
  BY <1>1 DEF EntriesOf
<1>4. QED
  BY <1>2, <1>3 DEF Ticking

(* An iteration of advance() renews the interval that it fired, or its     *)
(* callback has ended it.                                                  *)
LEMMA DrainTicks ==
  ASSUME TypeOK, Ticking, NEW a, NEW target, Drain(a, target)
  PROVE  Ticking'
<1>1. ASSUME NEW p \in pending, Fires(p, target), p.kind \in Intervals
      PROVE  Ticking'
  <2> DEFINE i == p.kind
  <2>1. p.at \in Nat /\ TakenOut(p) \in SUBSET pending
    BY DEF TypeOK, Entry, TakenOut
  <2>2. Tick(p, i) /\ i \in Intervals
    BY <1>1 DEF Fires, Fire
  <2>3. interval[i] # 0 /\ \A q \in TakenOut(p) : q.kind # i
    BY <1>1 DEF Ticking, EntriesOf, TakenOut
  <2>4. \A q \in pending : q \notin TakenOut(p) => q.kind = i
    BY DEF TakenOut
  <2> HIDE DEF i
  <2>5. \A k \in Intervals : k # i => interval'[k] = interval[k]
    BY <2>2, TickCases
  <2>6. CASE interval'[i] = 0 /\ pending' = TakenOut(p)
    <3>1. EntriesOf(i)' = {}
      BY <2>3, <2>6 DEF EntriesOf
    <3>2. \A k \in Intervals : k # i => EntriesOf(k)' = EntriesOf(k)
      BY <2>1, <2>4, <2>6 DEF EntriesOf
    <3>3. QED
      BY <2>5, <2>6, <3>1, <3>2 DEF Ticking
  <2>7. ASSUME NEW ms \in Nat, Enqueue(p.at + ms, i, TakenOut(p)), interval'[i] # 0
        PROVE  Ticking'
    <3>1. p.at + ms \in Nat
      BY <2>1
    <3>2. QED
      BY <2>1, <2>2, <2>3, <2>4, <2>5, <2>7, <3>1, EntryRenewed
  <2>8. QED
    BY <2>2, <2>3, <2>6, <2>7, TickCases
<1>2. ASSUME NEW p \in pending, Fires(p, target), p.kind \notin Intervals
      PROVE  Ticking'
  BY <1>2, EntriesAlone DEF Fires, Fire, TakenOut
<1>3. CASE Drained(target)
  BY <1>3, EntriesAlone DEF Drained
<1>4. QED
  BY <1>1, <1>2, <1>3, DrainCases

LEMMA TickingStep == TypeOK /\ Ticking /\ [Next]_vars => Ticking'
<1> SUFFICES ASSUME TypeOK, Ticking, [Next]_vars PROVE Ticking'
  OBVIOUS
<1>1. ASSUME NEW ms \in Delays, Sleep(ms) \/ SetTimer(ms)
      PROVE  Ticking'
  <2>1. PICK kind \in {"sleep", "timer"} : Enqueue(now + ms, kind, pending)
    BY <1>1 DEF Sleep, SetTimer
  <2> DEFINE e == [at |-> now + ms, seq |-> seqCounter, kind |-> kind]
  <2>2. pending' = pending \cup {e} /\ e.kind = kind
    BY <2>1 DEF Enqueue
  <2> HIDE DEF e
  <2>3. e.kind \notin Intervals
    BY <2>2, ClockAssumption
  <2>4. UNCHANGED interval
    BY <1>1 DEF Sleep, SetTimer
  <2>5. QED
    BY <2>2, <2>3, <2>4, EntriesAlone
<1>2. ASSUME NEW p \in pending, CancelTimer(p)
      PROVE  Ticking'
  <2>1. p.kind \notin Intervals
    BY <1>2, ClockAssumption DEF CancelTimer
  <2>2. QED
    BY <1>2, <2>1, EntriesAlone DEF CancelTimer
<1>3. ASSUME NEW i \in Intervals, NEW ms \in Periods, SetTimerInterval(i, ms)
      PROVE  Ticking'
  <2>1. ms \in Nat /\ ms # 0 /\ now + ms \in Nat /\ interval \in [Intervals -> {0} \cup Periods]
    BY ClockAssumption DEF TypeOK
  <2>2. /\ interval'[i] = ms
        /\ \A k \in Intervals : k # i => interval'[k] = interval[k]
        /\ Enqueue(now + ms, i, pending)
    BY <1>3, <2>1 DEF SetTimerInterval
  <2>3. \A p \in pending : p.kind # i
    BY <1>3 DEF SetTimerInterval, Ticking, EntriesOf
  <2>4. QED
    BY <2>1, <2>2, <2>3, EntryRenewed
<1>4. ASSUME NEW i \in Intervals, CancelInterval(i)
      PROVE  Ticking'
  <2>1. /\ interval'[i] = 0
        /\ \A k \in Intervals : k # i => interval'[k] = interval[k]
        /\ pending' = pending \ EntriesOf(i)
    BY <1>4 DEF CancelInterval, TypeOK
  <2>2. EntriesOf(i)' = {} /\ \A k \in Intervals : k # i => EntriesOf(k)' = EntriesOf(k)
    BY <2>1 DEF EntriesOf
  <2>3. QED
    BY <2>1, <2>2 DEF Ticking
<1>5. ASSUME NEW a, NEW target, Drain(a, target)
      PROVE  Ticking'
  BY <1>5, DrainTicks
<1>6. CASE UNCHANGED <<pending, interval>>
  BY <1>6, EntriesAlone
<1>7. QED
  BY <1>1, <1>2, <1>3, <1>4, <1>5, <1>6 DEF Next, Advance, Continue, Return, SetTime, vars

(* An interval that runs has exactly one entry, and one that was cancelled *)
(* has none, however calls of advance() overlap and callbacks throw.       *)
THEOREM EveryIntervalTicks == Spec => []IntervalsTick
<1>1. Init => Ticking
  BY DEF Init, Ticking, EntriesOf
<1>2. Ticking => IntervalsTick
  <2> SUFFICES ASSUME Ticking, NEW i \in Intervals
               PROVE  Cardinality(EntriesOf(i)) = (IF interval[i] = 0 THEN 0 ELSE 1)
    BY DEF IntervalsTick, EntriesOf
  <2>1. CASE EntriesOf(i) = {}
    BY <2>1, FS_EmptySet DEF Ticking
  <2>2. ASSUME NEW p \in EntriesOf(i)
        PROVE  Cardinality(EntriesOf(i)) = (IF interval[i] = 0 THEN 0 ELSE 1)
    <3>1. EntriesOf(i) = {p} /\ interval[i] # 0
      BY DEF Ticking
    <3>2. QED
      BY <3>1, FS_Singleton
  <2>3. QED
    BY <2>1, <2>2
<1>3. QED
  BY <1>1, <1>2, TickingStep, ClockTypes, PTL DEF Spec

=============================================================================
