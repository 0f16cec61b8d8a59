------------------------------ MODULE Schedule ------------------------------
(***************************************************************************)
(* computeNextSchedule: the next occurrence of a job's repeatSchedule.     *)
(*                                                                         *)
(* Every schedule but "periodic" moves its date by whole days of the local *)
(* calendar and keeps the time of day, so a moment is a day number: the    *)
(* instant nextDate is its day, and clock.now() is the last day whose time *)
(* of day has passed.  Day 0 is 2000-01-01; days of 23 or 25 hours are     *)
(* left out.                                                               *)
(***************************************************************************)
EXTENDS Integers, FiniteSetsExt

CONSTANTS
  Schedules,    \* repeatSchedules of the jobs that are enqueued
  Delays,       \* days from the date of an occurrence to the end of its run
  MaxSteps,     \* counter of computeNextSchedule: 1000
  LastDay       \* bound of the clock (model bound)

ASSUME ScheduleAssumption ==
  /\ Delays \subseteq Nat
  /\ MaxSteps \in Nat
  /\ LastDay \in Nat

(***************************************************************************)
(* Date.  Months are counted from January 2000, 0.                         *)
(***************************************************************************)

IsLeap(year) == year % 4 = 0 /\ (year % 100 # 0 \/ year % 400 = 0)

(* The first day of a month.                                               *)
StartOf(m) ==
  LET y == m \div 12
  IN  365 * y + (y + 3) \div 4 - (y + 99) \div 100 + (y + 399) \div 400
      + <<0, 31, 59, 90, 120, 151, 181, 212, 243, 273, 304, 334>>[(m % 12) + 1]
      + (IF IsLeap(y) /\ m % 12 > 1 THEN 1 ELSE 0)

(* 4800 months have 146097 days.                                           *)
MonthOf(d) ==
  LET m == (4800 * d) \div 146097
  IN  CHOOSE k \in m - 1 .. m + 1 : StartOf(k) <= d /\ d < StartOf(k + 1)

GetMonth(d) == MonthOf(d) % 12
GetDate(d) == d - StartOf(MonthOf(d)) + 1
GetDay(d) == (d + 6) % 7

(* A day of the month that the month does not have runs over into the next *)
(* month, or back into the one before.                                     *)
SetDate(d, date) == StartOf(MonthOf(d)) + date - 1
AddMonths(d, n) == StartOf(MonthOf(d) + n) + GetDate(d) - 1
SetMonth(d, month) == AddMonths(d, month - GetMonth(d))

(***************************************************************************)
(* One step of the loop.                                                   *)
(***************************************************************************)

None == [type |-> "none"]

(* `while (getDate() != date) setDate(getDate() - 1)`                      *)
BackToDate(d, date) == Max({x \in d - 62 .. d : GetDate(x) = date})

(* `while (getMonth() != month) setDate(getDate() - 7)`                    *)
BackToMonth(d, month) ==
  Max({x \in {d - 7 * k : k \in 0..53} : GetMonth(x) = month})

FirstMatchingDayDelta(d, weekDay) == (weekDay - GetDay(d)) % 7

(* The date after s.nextDate, -1 if there is none.                         *)
RepeatOn(s, now) ==
  LET d == s.nextDate IN
  CASE s.type = "periodic" -> now + s.period
    [] s.type = "daily" -> d + 1
    [] s.type = "annually" ->
         BackToDate(SetDate(SetMonth(AddMonths(d, 12), s.month), s.date), s.date)
    [] s.type = "monthlyDate" -> BackToDate(SetDate(AddMonths(d, 1), s.date), s.date)
    [] s.type = "monthlyDay" ->
         LET first == AddMonths(SetDate(d, 1), 1)
         IN  BackToMonth(SetDate(first, FirstMatchingDayDelta(first, s.weekDay) + 7 * (s.week - 1)),
                         GetMonth(first))
    [] s.type = "weekly" ->
         LET S == {x \in d + 1 .. d + 11 : GetDay(x) \in s.weekDays}
         IN  IF S = {} THEN -1 ELSE Min(S)

(* A plausible fault: the last occurrence is counted twice.                *)
WithinAndOneMore(s, on) ==
  CASE s.until = "count" -> s.value > -1
    [] s.until = "date" -> on <= s.value
    [] s.until = "forever" -> TRUE

(* `until` allows one more occurrence.                                     *)
Within(s, on) ==
  CASE s.until = "count" -> s.value > 0
    [] s.until = "date" -> on <= s.value
    [] s.until = "forever" -> TRUE

(* A plausible fault: only an occurrence in the future counts.             *)
ForgivingStep(s, now) ==
  LET on == RepeatOn(s, now) IN
  IF on = -1 \/ ~Within(s, on) THEN None
  ELSE [s EXCEPT !.nextDate = on,
                 !.value = IF s.until = "count" /\ on > now THEN @ - 1 ELSE @]

(* One iteration: the date moves, and `until` is charged for it.           *)
Step(s, now) ==
  LET on == RepeatOn(s, now) IN
  IF on = -1 \/ ~Within(s, on) THEN None
  ELSE [s EXCEPT !.nextDate = on, !.value = IF s.until = "count" THEN @ - 1 ELSE @]

(***************************************************************************)
(* A repeating job: it ends a run some time after it was due, and its      *)
(* schedule is advanced until it lies in the future.                       *)
(***************************************************************************)

VARIABLES
  schedule,   \* header.repeatSchedule; None: the job is finished
  now,        \* clock.now()
  counter,    \* steps the loop may still take
  looping,    \* the loop is running
  from        \* the schedule when the loop began

vars == <<schedule, now, counter, looping, from>>

Init ==
  /\ schedule \in Schedules
  /\ now = schedule.nextDate
  /\ counter = MaxSteps
  /\ looping = FALSE
  /\ from = schedule

(* A run has ended: computeNextSchedule is called.                         *)
Begin ==
  /\ ~looping
  /\ schedule # None
  /\ \E delay \in Delays :
       /\ now' = schedule.nextDate + delay
       /\ now' <= LastDay
  /\ counter' = MaxSteps
  /\ looping' = TRUE
  /\ from' = schedule
  /\ UNCHANGED schedule

Iterate ==
  /\ looping
  /\ counter >= 0
  /\ LET s == Step(schedule, now)
     IN  /\ schedule' = s
         /\ looping' = (s # None /\ s.nextDate <= now)
  /\ counter' = counter - 1
  /\ UNCHANGED <<now, from>>

(* "Bombing out on bad schedule entry"                                     *)
BombOut ==
  /\ looping
  /\ counter < 0
  /\ schedule' = None
  /\ looping' = FALSE
  /\ UNCHANGED <<now, counter, from>>

Next == Begin \/ Iterate \/ BombOut

Spec == Init /\ [][Next]_vars

(***************************************************************************)
(* Properties                                                              *)
(***************************************************************************)

(* The days a schedule names, as the code reads its fields: months count   *)
(* from 0, whereas workflowTypes.ts says "1-12" at the field.              *)
Matches(s, d) ==
  CASE s.type = "daily" -> TRUE
    [] s.type = "weekly" -> GetDay(d) \in s.weekDays
    [] s.type = "monthlyDate" -> GetDate(d) = s.date
    [] s.type = "annually" -> GetDate(d) = s.date /\ GetMonth(d) = s.month

(* The days that a month of this name has in every year.                   *)
Lengths == <<31, 28, 31, 30, 31, 30, 31, 31, 30, 31, 30, 31>>
Always(month) == 1..Lengths[month + 1]

(* Well-formed schedules: a monthly one starts on its date, an annual one  *)
(* on a day that its month always has.                                     *)
UntilKinds == {"forever", "count", "date"}

Regular ==
  [type : {"daily"}, nextDate : Nat, until : UntilKinds, value : Nat]
    \cup [type : {"periodic"}, period : Nat \ {0}, nextDate : Nat, until : UntilKinds, value : Nat]
    \cup [type : {"weekly"}, weekDays : (SUBSET (0..6)) \ {{}},
          nextDate : Nat, until : UntilKinds, value : Nat]
    \cup {s \in [type : {"monthlyDate"}, date : 1..31, month : 0..11,
                 nextDate : Nat, until : UntilKinds, value : Nat] : Matches(s, s.nextDate)}
    \cup {s \in [type : {"annually"}, date : 1..31, month : 0..11,
                 nextDate : Nat, until : UntilKinds, value : Nat] :
            Matches(s, s.nextDate) /\ s.date \in Always(s.month)}

(* The first matching day in the future; the matching days missed on the   *)
(* way count against `until`.                                              *)
Expected(s, n) ==
  LET on == IF s.type = "periodic" THEN n + s.period
            ELSE Min({d \in n + 1 .. n + 366 : Matches(s, d)})
      used == IF s.type = "periodic" THEN 1
              ELSE Cardinality({d \in s.nextDate + 1 .. on : Matches(s, d)})
  IN  IF \/ s.until = "count" /\ s.value < used
         \/ s.until = "date" /\ s.value < on
         \/ used > MaxSteps + 1
      THEN None
      ELSE [s EXCEPT !.nextDate = on, !.value = IF s.until = "count" THEN @ - used ELSE @]

(* The occurrences left never go below zero, however many were missed, and *)
(* the loop takes at most MaxSteps + 1 steps.                              *)
TypeOK ==
  /\ now \in Nat
  /\ counter \in -1..MaxSteps
  /\ looping \in BOOLEAN
  /\ \E s \in Schedules : from = [s EXCEPT !.nextDate = from.nextDate, !.value = from.value]
  /\ schedule # None => schedule.nextDate \in Nat /\ schedule.value \in Nat

(* However late a run ends, and however many occurrences it missed, the    *)
(* loop goes to the first matching day in the future, skips none, and      *)
(* charges every missed occurrence to the count; it ends the schedule when *)
(* `until` is reached or more than MaxSteps occurrences were missed, and   *)
(* never otherwise.                                                        *)
NextIsFirst == [][looping /\ ~looping' => schedule' = Expected(from, now)]_vars

(***************************************************************************)
(* What the documentation says and the code does not do                    *)
(***************************************************************************)

(* "Returns the updated RepeatSchedule with nextDate advanced to the       *)
(* future, or undefined if the schedule is exhausted (past until           *)
(* date/count, or type "none")": one that repeats forever never ends.      *)
ForeverNeverEnds == from.until = "forever" => schedule # None

=============================================================================
