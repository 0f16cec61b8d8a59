----------------------------- MODULE MCSchedule -----------------------------
(* Schedules for the runs of Schedule.                                     *)
EXTENDS Schedule

Day(year, month, date) == StartOf(12 * (year - 2000) + month - 1) + date - 1

March2025 == Day(2025, 3, 31)

Untils(horizon) ==
  {<<"forever", 0>>, <<"count", 0>>, <<"count", 1>>, <<"count", 4>>, <<"date", horizon>>}

(* The first date matches the schedule.                                    *)
Dated(type, date, d) ==
  {[type |-> type, nextDate |-> d, until |-> u[1], value |-> u[2], date |-> date,
    month |-> GetMonth(d)] : u \in Untils(d + 370)}

RegularSchedules ==
  UNION {[type : {"daily"}, nextDate : {Day(2024, 2, 27), Day(2024, 12, 30)},
          until : {u[1]}, value : {u[2]}] : u \in Untils(Day(2024, 3, 2))}
  \cup UNION {[type : {"weekly"}, weekDays : {{1}, {0, 6}, {2, 3, 5}},
               nextDate : {Day(2024, 2, 26), Day(2024, 12, 28)},
               until : {u[1]}, value : {u[2]}] : u \in Untils(Day(2024, 3, 12))}
  \cup UNION {[type : {"periodic"}, period : {1, 3}, nextDate : {Day(2024, 2, 27)},
               until : {u[1]}, value : {u[2]}] : u \in Untils(Day(2024, 3, 2))}
  \cup UNION {Dated("monthlyDate", date, Day(2023, 12, date)) : date \in {1, 15, 28, 29, 30, 31}}
  \cup UNION {Dated("annually", date, Day(2024, 2, date)) : date \in {1, 15, 28}}
  \cup UNION {Dated("annually", 31, Day(2023, month, 31)) : month \in {1, 12}}

(* The theorems of Schedule_proofs speak of them.                          *)
ASSUME RegularSchedulesAreRegular == RegularSchedules \subseteq Regular

(* The first Monday of every month, forever.                               *)
FirstMonday ==
  {[type |-> "monthlyDay", weekDay |-> 1, week |-> 1, until |-> "forever", value |-> 0,
    nextDate |-> Day(2024, month, 2)] : month \in 1..12}

(* Annual schedules on the first of the month they name, counted from 1 as *)
(* the comment at the field, workflowTypes.ts:78, has it.                  *)
DocumentedAnnual ==
  {[type |-> "annually", date |-> 1, month |-> month, until |-> "forever", value |-> 0,
    nextDate |-> Day(2024, month, 1)] : month \in 1..12}

(* The code counts months from 0, against that comment: every one of these *)
(* goes to the month after the one it names, the twelfth to January.       *)
ASSUME MonthsCountFromZero ==
  \A s \in DocumentedAnnual :
    GetMonth(RepeatOn(s, s.nextDate)) + 1 = (IF s.month = 12 THEN 1 ELSE s.month + 1)

=============================================================================
