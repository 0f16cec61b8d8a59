------------------------------ MODULE Counter -------------------------------
(***************************************************************************)
(* WorkflowCounter: a window of divisions over what is pegged.  A value is *)
(* reduced to how much was pegged at each time, so that one can ask where  *)
(* a peg went; merging two values adds them up.  Time is counted in units  *)
(* of which a division has several.                                        *)
(***************************************************************************)
EXTENDS Integers, Sequences

CONSTANTS
  Divisions,  \* division_count (20)
  Division,   \* counter_duration_ms / division_count
  MaxTime     \* bound of the clock (model bound)

ASSUME CounterAssumption ==
  /\ Divisions \in Nat \ {0}
  /\ Division \in Nat \ {0}
  /\ MaxTime \in Nat

Duration == Divisions * Division

Times == 0..MaxTime

VARIABLES
  now,        \* the clock
  start,      \* arrayStartTime
  history,    \* division_history
  aggregate,  \* division_history_aggregate, <<>> while it is undefined
  current,    \* currentCounter
  pegged      \* what was pegged, and when

vars == <<now, start, history, aggregate, current, pegged>>

Value == [Times -> Nat]

Zero == [t \in Times |-> 0]

Merge(v, w) == [t \in Times |-> v[t] + w[t]]

(* The sum of a sequence of values, and a given one.                       *)
Total(divisions, zero) ==
  LET sum[n \in 0..Len(divisions)] ==
        IF n = 0 THEN zero ELSE Merge(divisions[n], sum[n - 1])
  IN sum[Len(divisions)]

(* A plausible fault: the old aggregate is added to.                       *)
AggregateOnTop(divisions) == Total(divisions, IF aggregate = <<>> THEN Zero ELSE aggregate)

Aggregate(divisions) == Total(divisions, Zero)

Init ==
  /\ now = 0
  /\ start = 0
  /\ history = <<>>
  /\ aggregate = <<>>
  /\ current = Zero
  /\ pegged = Zero

(* How many divisions have gone by; no more than matter.                   *)
MissedBeats(at) ==
  LET missed == (at - Duration - start) \div Division
  IN IF missed > Divisions + 1 THEN Divisions + 1 ELSE missed

(* At most the last `Divisions` divisions.                                 *)
Kept(all) ==
  SubSeq(all, IF Len(all) > Divisions THEN Len(all) - Divisions + 1 ELSE 1, Len(all))

(* Plausible faults: nothing is dropped; an empty division too many.       *)
ShiftedKeepingAll(missed) == history \o <<current>> \o [n \in 1..(missed - 1) |-> Zero]

ShiftedOnceMore(missed) == Kept(history \o <<current>> \o [n \in 1..missed |-> Zero])

(* The present division is closed, empty ones follow for the time in which *)
(* nothing was pegged, and the oldest ones go.                             *)
Shifted(missed) == Kept(history \o <<current>> \o [n \in 1..(missed - 1) |-> Zero])

(* pegValue(): ResetDivisions(), then the value goes into the present      *)
(* division.                                                               *)
PegValue ==
  LET missed == MissedBeats(now)
      value  == [Zero EXCEPT ![now] = 1]
  IN /\ IF missed <= 0
        THEN /\ current' = Merge(current, value)
             /\ UNCHANGED <<start, history, aggregate>>
        ELSE /\ history' = Shifted(missed)
             /\ aggregate' = Aggregate(history')
             /\ start' = now - Duration
             /\ current' = value
     /\ pegged' = Merge(pegged, value)
     /\ UNCHANGED now

(* One peg at a time.                                                      *)
Peg == pegged[now] = 0 /\ PegValue

Tick ==
  /\ now < MaxTime
  /\ now' = now + 1
  /\ UNCHANGED <<start, history, aggregate, current, pegged>>

Next == Peg \/ Tick

Spec == Init /\ [][Next]_vars

(* getCurrentValue()                                                       *)
CurrentValue == IF aggregate = <<>> THEN current ELSE aggregate

(* When the divisions were last reset.                                     *)
LastReset == start + Duration

(***************************************************************************)
(* Properties                                                              *)
(***************************************************************************)

(* The variables have their types, and there are never more divisions than *)
(* there should be.                                                        *)
TypeOK ==
  /\ now \in Times
  /\ start \in Int
  /\ history \in Seq(Value)
  /\ Len(history) <= Divisions
  /\ aggregate \in Value \cup {<<>>}
  /\ current \in Value
  /\ pegged \in Value

(* Nothing is counted twice: not in two divisions, and not through an      *)
(* aggregate that is kept from one reset to the next.                      *)
CountedOnce ==
  \A t \in Times : CurrentValue[t] <= pegged[t]

(* The window loses nothing: what was pegged in the `counter_duration_ms`  *)
(* before the last reset is in the value that is read until the next one,  *)
(* although every reset moves the start by other than whole divisions and  *)
(* quiet times fill the divisions with nothing.  Of what was pegged since  *)
(* the last reset this says nothing.                                       *)
WindowIsComplete ==
  aggregate # <<>> =>
    \A t \in Times : t >= LastReset - Duration /\ t < LastReset => CurrentValue[t] = pegged[t]

=============================================================================
