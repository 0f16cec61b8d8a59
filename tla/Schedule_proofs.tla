--------------------------- MODULE Schedule_proofs ---------------------------
(***************************************************************************)
(* Proofs about Schedule, for every set of regular schedules, every delay  *)
(* and every number of steps: computeNextSchedule finds the first day in   *)
(* the future, in whatever month and year.                                 *)
(***************************************************************************)
EXTENDS Schedule, FiniteSetTheorems, WellFoundedInduction, TLAPS

(* A set of naturals that is not empty has a least member.                 *)
LEMMA Least ==
  ASSUME NEW T, T \subseteq Nat, T # {}
  PROVE  \E x \in T : \A y \in T : x <= y
<1>1. IsWellFoundedOn(OpToRel(<, Nat), Nat)
  BY NatLessThanWellFounded
<1> DEFINE R == OpToRel(<, Nat)
<1>2. \A x, y \in Nat : <<y, x>> \in R <=> y < x
  BY DEF OpToRel
<1> HIDE DEF R
<1>3. IsWellFoundedOn(R, Nat)
  BY <1>1 DEF R
<1>4. \E x \in T : \A y \in T : ~ (<<y, x>> \in R)
  BY <1>3, WFMin, Zenon
<1>5. PICK x \in T : \A y \in T : ~ (<<y, x>> \in R)
  BY <1>4
<1>6. ASSUME NEW y \in T PROVE x <= y
  <2>1. x \in Nat /\ y \in Nat /\ ~ (<<y, x>> \in R)
    BY <1>5
  <2>2. ~(y < x)
    BY <1>2, <2>1
  <2>3. QED
    BY <2>1, <2>2
<1>7. QED
  BY <1>6

(***************************************************************************)
(* The calendar                                                            *)
(***************************************************************************)

(* The length of a month.                                                  *)
LengthOf(m) == IF m % 12 = 1 /\ IsLeap(m \div 12) THEN 29 ELSE Lengths[(m % 12) + 1]

(* Leap days of the years before y.                                        *)
LeapDays(y) == (y + 3) \div 4 - (y + 99) \div 100 + (y + 399) \div 400

LEMMA LeapDaysStep ==
  ASSUME NEW y \in Int
  PROVE  /\ LeapDays(y) \in Int
         /\ LeapDays(y + 1) = LeapDays(y) + (IF IsLeap(y) THEN 1 ELSE 0)
         /\ 400 * LeapDays(y) >= 97 * y - 396
         /\ 400 * LeapDays(y) <= 97 * y + 699
<1>1. (y + 4) \div 4 - (y + 3) \div 4 = IF y % 4 = 0 THEN 1 ELSE 0
  OBVIOUS
<1>2. (y + 100) \div 100 - (y + 99) \div 100 = IF y % 100 = 0 THEN 1 ELSE 0
  OBVIOUS
<1>3. (y + 400) \div 400 - (y + 399) \div 400 = IF y % 400 = 0 THEN 1 ELSE 0
  OBVIOUS
<1>4. (y % 100 = 0 => y % 4 = 0) /\ (y % 400 = 0 => y % 100 = 0)
  OBVIOUS
<1>5. LeapDays(y) \in Int
  BY DEF LeapDays
<1>6. LeapDays(y + 1) = LeapDays(y) + (IF IsLeap(y) THEN 1 ELSE 0)
  BY <1>1, <1>2, <1>3, <1>4 DEF LeapDays, IsLeap
<1>7. /\ 400 * LeapDays(y) >= 97 * y - 396
      /\ 400 * LeapDays(y) <= 97 * y + 699
  BY DEF LeapDays
<1>8. QED
  BY <1>5, <1>6, <1>7

(* m is month j of year y.                                                 *)
At(m, y, j) == y \in Int /\ j \in 0..11 /\ m \div 12 = y /\ m % 12 = j

LEMMA MonthInYear ==
  ASSUME NEW m \in Int
  PROVE  \E y \in Int, j \in 0..11 :
           /\ At(m, y, j)
           /\ m = 12 * y + j
           /\ j < 11 => At(m + 1, y, j + 1)
           /\ j = 11 => At(m + 1, y + 1, 0)
<1> DEFINE y == m \div 12
           j == m % 12
<1>1. y \in Int /\ j \in 0..11 /\ m = 12 * y + j /\ At(m, y, j)
  BY DEF At
<1>2. j < 11 => At(m + 1, y, j + 1)
  BY DEF At
<1>3. j = 11 => At(m + 1, y + 1, 0)
  BY DEF At
<1> HIDE DEF y, j
<1>4. QED
  BY <1>1, <1>2, <1>3

Days == <<0, 31, 59, 90, 120, 151, 181, 212, 243, 273, 304, 334>>

Leap(y) == IF IsLeap(y) THEN 1 ELSE 0

LEMMA StartOfIs ==
  ASSUME NEW m \in Int, NEW y \in Int, NEW j \in 0..11, At(m, y, j)
  PROVE  /\ Leap(y) \in 0..1
         /\ StartOf(m) = 365 * y + LeapDays(y) + Days[j + 1] + (IF j > 1 THEN Leap(y) ELSE 0)
         /\ LengthOf(m) = IF j = 1 /\ Leap(y) = 1 THEN 29 ELSE Lengths[j + 1]
<1>1. Leap(y) \in 0..1 /\ (Leap(y) = 1 <=> IsLeap(y))
  BY DEF Leap
<1>2. LengthOf(m) = IF j = 1 /\ Leap(y) = 1 THEN 29 ELSE Lengths[j + 1]
  BY <1>1 DEF LengthOf, At
<1>3. StartOf(m) = 365 * y + ((y + 3) \div 4) - ((y + 99) \div 100) + ((y + 399) \div 400)
        + Days[j + 1] + (IF IsLeap(y) /\ j > 1 THEN 1 ELSE 0)
  BY DEF StartOf, Days, At
<1>4. Days[j + 1] \in Int
  BY DEF Days
<1>5. (IF IsLeap(y) /\ j > 1 THEN 1 ELSE 0) = (IF j > 1 THEN Leap(y) ELSE 0)
  BY DEF Leap
<1>6. QED
  BY <1>1, <1>2, <1>3, <1>4, <1>5 DEF LeapDays

LEMMA MonthStarts ==
  ASSUME NEW m \in Int
  PROVE  /\ StartOf(m) \in Int
         /\ StartOf(m + 1) = StartOf(m) + LengthOf(m)
         /\ LengthOf(m) \in 28..31
         /\ 4800 * StartOf(m) >= 146097 * m - 50000
         /\ 4800 * StartOf(m) <= 146097 * m + 50000
<1>1. PICK y \in Int, j \in 0..11 :
        /\ At(m, y, j)
        /\ m = 12 * y + j
        /\ j < 11 => At(m + 1, y, j + 1)
        /\ j = 11 => At(m + 1, y + 1, 0)
  BY MonthInYear
<1>2. /\ Leap(y) \in 0..1
      /\ StartOf(m) = 365 * y + LeapDays(y) + Days[j + 1] + (IF j > 1 THEN Leap(y) ELSE 0)
      /\ LengthOf(m) = IF j = 1 /\ Leap(y) = 1 THEN 29 ELSE Lengths[j + 1]
  BY <1>1, StartOfIs
<1>3. /\ LeapDays(y) \in Int /\ LeapDays(y + 1) = LeapDays(y) + Leap(y)
      /\ 400 * LeapDays(y) >= 97 * y - 396
      /\ 400 * LeapDays(y) <= 97 * y + 699
  BY LeapDaysStep DEF Leap
<1>4. j < 11 => StartOf(m + 1) = 365 * y + LeapDays(y) + Days[j + 2] + (IF j > 0 THEN Leap(y) ELSE 0)
  <2> SUFFICES ASSUME j < 11
               PROVE  StartOf(m + 1) = 365 * y + LeapDays(y) + Days[j + 2] + (IF j > 0 THEN Leap(y) ELSE 0)
    OBVIOUS
  <2>1. m + 1 \in Int /\ j + 1 \in 0..11 /\ At(m + 1, y, j + 1)
    BY <1>1
  <2>2. StartOf(m + 1) = 365 * y + LeapDays(y) + Days[(j + 1) + 1] + (IF j + 1 > 1 THEN Leap(y) ELSE 0)
    BY <2>1, StartOfIs
  <2>3. (j + 1) + 1 = j + 2 /\ (j + 1 > 1 <=> j > 0)
    OBVIOUS
  <2>4. QED
    BY <2>2, <2>3
<1>5. j = 11 => StartOf(m + 1) = 365 * (y + 1) + LeapDays(y) + Leap(y)
  <2> SUFFICES ASSUME j = 11 PROVE StartOf(m + 1) = 365 * (y + 1) + LeapDays(y) + Leap(y)
    OBVIOUS
  <2>1. m + 1 \in Int /\ y + 1 \in Int /\ 0 \in 0..11 /\ At(m + 1, y + 1, 0)
    BY <1>1
  <2>2. StartOf(m + 1) = 365 * (y + 1) + LeapDays(y + 1) + Days[0 + 1] + (IF 0 > 1 THEN Leap(y + 1) ELSE 0)
    BY <2>1, StartOfIs
  <2>3. Days[0 + 1] = 0 /\ (IF 0 > 1 THEN Leap(y + 1) ELSE 0) = 0
    BY DEF Days
  <2>4. LeapDays(y) \in Int /\ Leap(y) \in Int /\ LeapDays(y + 1) = LeapDays(y) + Leap(y)
    BY <1>2, <1>3
  <2>5. QED
    BY <2>2, <2>3, <2>4
<1>6. j \in {0, 1, 2, 3, 4, 5, 6, 7, 8, 9, 10, 11}
  OBVIOUS
<1>7. QED
  BY <1>1, <1>2, <1>3, <1>4, <1>5, <1>6 DEF Lengths, Days

LEMMA StartTyped ==
  ASSUME NEW m \in Int
  PROVE  StartOf(m) \in Int /\ LengthOf(m) \in 28..31
BY MonthStarts

LEMMA NextStart ==
  ASSUME NEW m \in Int, NEW l \in Int, l = m + 1
  PROVE  StartOf(l) = StartOf(m) + LengthOf(m)
BY MonthStarts

(* The months start in their order.                                        *)
LEMMA StartsGrow ==
  ASSUME NEW a \in Int, NEW b \in Int
  PROVE  /\ a < b => StartOf(a + 1) <= StartOf(b)
         /\ a < b <=> StartOf(a) < StartOf(b)
<1>1. \A m \in Int : /\ StartOf(m) \in Int
                     /\ StartOf(m + 1) > StartOf(m)
                     /\ 4800 * StartOf(m) >= 146097 * m - 50000
                     /\ 4800 * StartOf(m) <= 146097 * m + 50000
  BY MonthStarts
<1>2. \A x, y \in Int : x < y => StartOf(x + 1) <= StartOf(y)
  <2> SUFFICES ASSUME NEW x \in Int, NEW y \in Int, x < y
               PROVE  StartOf(x + 1) <= StartOf(y)
    OBVIOUS
  <2>1. CASE y = x + 1
    BY <2>1, <1>1
  <2>2. CASE y > x + 1
    <3>1. x + 1 \in Int
      OBVIOUS
    <3>2. /\ StartOf(x + 1) \in Int
          /\ 4800 * StartOf(x + 1) <= 146097 * (x + 1) + 50000
      BY <1>1, <3>1
    <3>3. /\ StartOf(y) \in Int
          /\ 4800 * StartOf(y) >= 146097 * y - 50000
      BY <1>1
    <3>4. QED
      BY <2>2, <3>2, <3>3
  <2>3. QED
    BY <2>1, <2>2
<1>3. \A x, y \in Int : x < y => StartOf(x) < StartOf(y)
  <2> SUFFICES ASSUME NEW x \in Int, NEW y \in Int, x < y
               PROVE  StartOf(x) < StartOf(y)
    OBVIOUS
  <2>1. StartOf(x) \in Int /\ StartOf(x + 1) \in Int /\ StartOf(y) \in Int /\ StartOf(x + 1) > StartOf(x)
    BY <1>1
  <2>2. StartOf(x + 1) <= StartOf(y)
    BY <1>2
  <2>3. QED
    BY <2>1, <2>2
<1>4. StartOf(a) \in Int /\ StartOf(b) \in Int
  BY <1>1
<1>5. QED
  BY <1>2, <1>3, <1>4

(* Day d lies in month k.                                                  *)
In(d, k) == d \in Int /\ k \in Int /\ StartOf(k) <= d /\ d < StartOf(k + 1)

(* A day lies in one month, and the three that MonthOf tries contain it.   *)
THEOREM MonthOfIs ==
  ASSUME NEW d \in Int
  PROVE  /\ In(d, MonthOf(d))
         /\ \A k \in Int : In(d, k) => k = MonthOf(d)
<1> DEFINE m == (4800 * d) \div 146097
           Has(k) == StartOf(k) <= d /\ d < StartOf(k + 1)
<1>1. m \in Int /\ 146097 * m <= 4800 * d /\ 4800 * d < 146097 * (m + 1)
  OBVIOUS
<1>2. MonthOf(d) = CHOOSE k \in m - 1 .. m + 1 : Has(k)
  BY DEF MonthOf
<1> HIDE DEF m
<1>3. \A k \in Int : /\ StartOf(k) \in Int
                     /\ 4800 * StartOf(k) >= 146097 * k - 50000
                     /\ 4800 * StartOf(k) <= 146097 * k + 50000
  BY MonthStarts
<1>4. \A k \in Int : In(d, k) => k \in m - 1 .. m + 1
  <2> SUFFICES ASSUME NEW k \in Int, In(d, k)
               PROVE  k \in m - 1 .. m + 1
    OBVIOUS
  <2>1. k + 1 \in Int /\ StartOf(k) <= d /\ d < StartOf(k + 1)
    BY DEF In
  <2>2. /\ StartOf(k) \in Int
        /\ 4800 * StartOf(k) >= 146097 * k - 50000
    BY <1>3
  <2>3. /\ StartOf(k + 1) \in Int
        /\ 4800 * StartOf(k + 1) <= 146097 * (k + 1) + 50000
    BY <1>3, <2>1
  <2>4. k < m + 2
    BY <1>1, <2>1, <2>2
  <2>5. k > m - 2
    BY <1>1, <2>1, <2>3
  <2>6. QED
    BY <1>1, <2>4, <2>5
<1>5. \A k, l \in Int : In(d, k) /\ In(d, l) => k = l
  <2> SUFFICES ASSUME NEW k \in Int, NEW l \in Int, In(d, k), In(d, l), k < l
               PROVE  FALSE
    OBVIOUS
  <2>1. d < StartOf(k + 1) /\ StartOf(l) <= d /\ StartOf(k + 1) \in Int /\ StartOf(l) \in Int
    BY <1>3 DEF In
  <2>2. StartOf(k + 1) <= StartOf(l)
    BY StartsGrow
  <2>3. QED
    BY <2>1, <2>2
<1>6. \E k \in m - 1 .. m + 1 : Has(k)
  <2>1. m - 1 \in Int /\ m \in Int /\ m + 1 \in Int /\ m + 2 \in Int
    BY <1>1
  <2>2. /\ StartOf(m - 1) \in Int /\ StartOf(m) \in Int /\ StartOf(m + 1) \in Int /\ StartOf(m + 2) \in Int
        /\ 4800 * StartOf(m - 1) <= 146097 * (m - 1) + 50000
        /\ 4800 * StartOf(m + 2) >= 146097 * (m + 2) - 50000
    BY <1>3, <2>1
  <2>3. StartOf(m - 1) <= d /\ d < StartOf(m + 2)
    BY <1>1, <2>2
  <2>4. (m - 1) + 1 = m /\ (m + 1) + 1 = m + 2
    BY <1>1
  <2>5. CASE d < StartOf(m)
    BY <2>1, <2>3, <2>4, <2>5
  <2>6. CASE StartOf(m) <= d /\ d < StartOf(m + 1)
    BY <2>1, <2>6
  <2>7. CASE StartOf(m + 1) <= d
    BY <2>1, <2>3, <2>4, <2>7
  <2>8. QED
    BY <2>2, <2>5, <2>6, <2>7
<1>7. MonthOf(d) \in m - 1 .. m + 1 /\ Has(MonthOf(d))
  <2> HIDE DEF Has
  <2>1. QED
    BY <1>2, <1>6
<1>8. In(d, MonthOf(d))
  BY <1>1, <1>7 DEF In
<1>9. QED
  BY <1>5, <1>8 DEF In

(* The date of a day is one its month has, and names the day.              *)
LEMMA DateOfDay ==
  ASSUME NEW d \in Int
  PROVE  /\ MonthOf(d) \in Int
         /\ GetDate(d) \in 1..LengthOf(MonthOf(d))
         /\ d = StartOf(MonthOf(d)) + GetDate(d) - 1
         /\ GetMonth(d) \in 0..11
<1>1. /\ MonthOf(d) \in Int
      /\ StartOf(MonthOf(d)) <= d
      /\ d < StartOf(MonthOf(d) + 1)
  BY MonthOfIs DEF In
<1>2. /\ StartOf(MonthOf(d)) \in Int
      /\ StartOf(MonthOf(d) + 1) = StartOf(MonthOf(d)) + LengthOf(MonthOf(d))
      /\ LengthOf(MonthOf(d)) \in 28..31
  BY <1>1, StartTyped, NextStart
<1>3. GetDate(d) = d - StartOf(MonthOf(d)) + 1
  BY DEF GetDate
<1>4. GetMonth(d) \in 0..11
  BY <1>1 DEF GetMonth
<1>5. QED
  BY <1>1, <1>2, <1>3, <1>4

LEMMA DayOfDate ==
  ASSUME NEW k \in Int, NEW date \in 1..LengthOf(k)
  PROVE  LET d == StartOf(k) + date - 1
         IN  d \in Int /\ MonthOf(d) = k /\ GetDate(d) = date /\ GetMonth(d) = k % 12
<1> DEFINE d == StartOf(k) + date - 1
<1>1. /\ StartOf(k) \in Int
      /\ StartOf(k + 1) = StartOf(k) + LengthOf(k)
      /\ LengthOf(k) \in 28..31
  BY StartTyped, NextStart
<1>2. date \in Int /\ d \in Int /\ StartOf(k) <= d /\ d < StartOf(k + 1) /\ d - StartOf(k) + 1 = date
  BY <1>1
<1> HIDE DEF d
<1>3. In(d, k)
  BY <1>2 DEF In
<1>4. MonthOf(d) = k
  BY <1>2, <1>3, MonthOfIs
<1>5. QED
  BY <1>2, <1>4 DEF GetDate, GetMonth, d

(* A month that is shorter than 31 days is followed by one that is not.    *)
LEMMA LongMonthFollows ==
  ASSUME NEW k \in Int, NEW l \in Int, l = k + 1
  PROVE  LengthOf(k) < 31 => LengthOf(l) = 31
<1>1. PICK y \in Int, j \in 0..11 :
        /\ At(k, y, j)
        /\ k = 12 * y + j
        /\ j < 11 => At(k + 1, y, j + 1)
        /\ j = 11 => At(k + 1, y + 1, 0)
  BY MonthInYear
<1>2. LengthOf(k) = IF j = 1 /\ Leap(y) = 1 THEN 29 ELSE Lengths[j + 1]
  BY <1>1, StartOfIs
<1>3. CASE j = 11
  BY <1>2, <1>3 DEF Lengths
<1>4. CASE j < 11
  <2>1. k + 1 \in Int /\ j + 1 \in 0..11 /\ At(k + 1, y, j + 1)
    BY <1>1, <1>4
  <2>2. LengthOf(k + 1) = IF j + 1 = 1 /\ Leap(y) = 1 THEN 29 ELSE Lengths[(j + 1) + 1]
    BY <2>1, StartOfIs
  <2>3. (j + 1) + 1 = j + 2
    OBVIOUS
  <2>4. j \in {0, 1, 2, 3, 4, 5, 6, 7, 8, 9, 10}
    BY <1>4
  <2>5. QED
    BY <1>2, <2>2, <2>3, <2>4 DEF Lengths
<1>5. QED
  BY <1>3, <1>4

(* A month has the days that it has in every year.                         *)
LEMMA AlwaysHas ==
  ASSUME NEW k \in Int
  PROVE  /\ k % 12 \in 0..11
         /\ Always(k % 12) \subseteq 1..LengthOf(k)
         /\ Always(k % 12) \subseteq 1..31
<1>1. k % 12 \in 0..11
  OBVIOUS
<1>2. LengthOf(k) \in 28..31
  BY StartTyped, NextStart
<1>3. LengthOf(k) = Lengths[(k % 12) + 1] \/ (k % 12 = 1 /\ LengthOf(k) = 29)
  BY DEF LengthOf
<1>4. Lengths[2] = 28
  BY DEF Lengths
<1>5. Lengths[(k % 12) + 1] \in Int /\ Lengths[(k % 12) + 1] <= LengthOf(k)
  BY <1>1, <1>2, <1>3, <1>4
<1>6. QED
  BY <1>1, <1>2, <1>5 DEF Always

(* The same month a year later starts 365 or 366 days later.               *)
LEMMA YearLater ==
  ASSUME NEW k \in Int, NEW l \in Int, l = k + 12
  PROVE  /\ StartOf(l) - StartOf(k) \in 365..366
         /\ l % 12 = k % 12
<1> DEFINE y == k \div 12
           j == k % 12
<1>1. y \in Int /\ j \in 0..11 /\ y + 1 \in Int /\ k + 12 \in Int
  OBVIOUS
<1>2. At(k, y, j) /\ At(k + 12, y + 1, j) /\ (k + 12) % 12 = j
  BY DEF At
<1> HIDE DEF y, j
<1>3. /\ Leap(y) \in 0..1
      /\ StartOf(k) = 365 * y + LeapDays(y) + Days[j + 1] + (IF j > 1 THEN Leap(y) ELSE 0)
  BY <1>1, <1>2, StartOfIs
<1>4. /\ Leap(y + 1) \in 0..1
      /\ StartOf(k + 12)
           = 365 * (y + 1) + LeapDays(y + 1) + Days[j + 1] + (IF j > 1 THEN Leap(y + 1) ELSE 0)
  BY <1>1, <1>2, StartOfIs
<1>5. LeapDays(y) \in Int /\ LeapDays(y + 1) = LeapDays(y) + Leap(y)
  BY <1>1, LeapDaysStep DEF Leap
<1>6. Days[j + 1] \in Int
  BY <1>1 DEF Days
<1>7. StartOf(k + 12) - StartOf(k) \in 365..366
  BY <1>1, <1>3, <1>4, <1>5, <1>6
<1>8. QED
  BY <1>2, <1>7 DEF j

(***************************************************************************)
(* One step of the loop                                                    *)
(***************************************************************************)

(* on is the first day after d that s matches, and at most a year away.    *)
FirstAfter(s, d, on) ==
  /\ on \in Int
  /\ d < on
  /\ on <= d + 366
  /\ Matches(s, on)
  /\ \A x \in Int : d < x /\ x < on => ~Matches(s, x)

(* `while (getDate() != date) ...` leaves a day of that date where it is.  *)
LEMMA BackIsHere ==
  ASSUME NEW d \in Int
  PROVE  BackToDate(d, GetDate(d)) = d
<1> DEFINE S == {x \in d - 62 .. d : GetDate(x) = GetDate(d)}
<1>1. d \in S /\ \A x \in S : x \in Int /\ x <= d
  OBVIOUS
<1>2. BackToDate(d, GetDate(d)) = CHOOSE x \in S : \A y \in S : x >= y
  BY DEF BackToDate, Max
<1> HIDE DEF S
<1>3. d \in S /\ \A y \in S : d >= y
  BY <1>1
<1>4. \A x \in S : (\A y \in S : x >= y) => x = d
  BY <1>1
<1>5. QED
  BY <1>2, <1>3, <1>4

LEMMA DailyIsFirst ==
  ASSUME NEW s, s.type = "daily", s.nextDate \in Nat, NEW n
  PROVE  FirstAfter(s, s.nextDate, RepeatOn(s, n))
BY DEF FirstAfter, RepeatOn, Matches

LEMMA WeeklyIsFirst ==
  ASSUME NEW s, s.type = "weekly", s.nextDate \in Nat, NEW n,
         s.weekDays \in (SUBSET (0..6)) \ {{}}
  PROVE  FirstAfter(s, s.nextDate, RepeatOn(s, n))
<1> DEFINE d == s.nextDate
           S == {x \in d + 1 .. d + 11 : GetDay(x) \in s.weekDays}
<1>1. PICK w \in 0..6 : w \in s.weekDays
  OBVIOUS
<1>2. \E x \in d + 1 .. d + 7 : GetDay(x) = w
  <2> DEFINE x == d + 1 + ((w - (d + 7)) % 7)
  <2>1. x \in d + 1 .. d + 7
    OBVIOUS
  <2>2. (x + 6) % 7 = w
    OBVIOUS
  <2> QED
    BY <2>1, <2>2 DEF GetDay
<1>3. PICK on \in S : \A x \in S : on <= x
  <2>1. S \subseteq Nat /\ S # {}
    BY <1>1, <1>2
  <2> HIDE DEF S
  <2> QED
    BY <2>1, Least
<1>4. on <= d + 7
  <2>1. PICK x \in d + 1 .. d + 7 : GetDay(x) = w
    BY <1>2
  <2>2. x \in S
    BY <1>1, <2>1
  <2> QED
    BY <1>3, <2>1, <2>2
<1>5. RepeatOn(s, n) = on
  <2>1. RepeatOn(s, n) = CHOOSE x \in S : \A y \in S : x <= y
    BY DEF RepeatOn, Min
  <2>2. \A x \in S : (\A y \in S : x <= y) => x = on
    BY <1>3
  <2> HIDE DEF S
  <2> QED
    BY <1>3, <2>1, <2>2
<1>6. \A x \in Int : d < x /\ x < on => ~Matches(s, x)
  <2> SUFFICES ASSUME NEW x \in Int, d < x, x < on, GetDay(x) \in s.weekDays
               PROVE  FALSE
    BY DEF Matches
  <2>1. x \in S
    BY <1>4
  <2> QED
    BY <1>3, <2>1
<1>7. QED
  BY <1>3, <1>4, <1>5, <1>6 DEF FirstAfter, Matches

(* A date of a later day lies in the same month or in a later one.         *)
LEMMA SameDateLater ==
  ASSUME NEW a \in Int, NEW b \in Int, GetDate(a) = GetDate(b)
  PROVE  a < b <=> MonthOf(a) < MonthOf(b)
<1>1. /\ MonthOf(a) \in Int /\ a = StartOf(MonthOf(a)) + GetDate(a) - 1
      /\ GetDate(a) \in 1..LengthOf(MonthOf(a))
  BY DateOfDay
<1>2. MonthOf(b) \in Int /\ b = StartOf(MonthOf(b)) + GetDate(b) - 1
  BY DateOfDay
<1>3. StartOf(MonthOf(a)) \in Int /\ StartOf(MonthOf(b)) \in Int /\ LengthOf(MonthOf(a)) \in 28..31
  BY <1>1, <1>2, StartTyped, NextStart
<1>4. MonthOf(a) < MonthOf(b) <=> StartOf(MonthOf(a)) < StartOf(MonthOf(b))
  BY <1>1, <1>2, StartsGrow
<1>5. QED
  BY <1>1, <1>2, <1>3, <1>4

LEMMA MonthlyIsFirst ==
  ASSUME NEW s, s.type = "monthlyDate", s.nextDate \in Nat, NEW n,
         s.date \in 1..31, Matches(s, s.nextDate)
  PROVE  FirstAfter(s, s.nextDate, RepeatOn(s, n))
<1> DEFINE d == s.nextDate
           k == MonthOf(d)
           next == IF s.date <= LengthOf(k + 1) THEN k + 1 ELSE k + 2
           on == StartOf(next) + s.date - 1
           e == StartOf(k + 1) + s.date - 1
<1>1. /\ GetDate(d) = s.date /\ k \in Int /\ d = StartOf(k) + s.date - 1
      /\ s.date \in 1..LengthOf(k)
  BY DateOfDay DEF Matches
<1> HIDE DEF k
<1>2. k + 1 \in Int /\ k + 2 \in Int /\ (k + 1) + 1 = k + 2
  BY <1>1
<1>3. /\ LengthOf(k) \in 28..31 /\ LengthOf(k + 1) \in 28..31 /\ LengthOf(k + 2) \in 28..31
      /\ StartOf(k) \in Int /\ StartOf(k + 1) \in Int /\ StartOf(k + 2) \in Int
      /\ StartOf(k + 1) = StartOf(k) + LengthOf(k)
      /\ StartOf(k + 2) = StartOf(k + 1) + LengthOf(k + 1)
      /\ StartOf((k + 2) + 1) = StartOf(k + 2) + LengthOf(k + 2)
  BY <1>1, <1>2, StartTyped, NextStart
<1>4. s.date > LengthOf(k + 1) => LengthOf(k + 2) = 31
  BY <1>2, <1>3, LongMonthFollows
<1>5. next \in Int /\ s.date \in 1..LengthOf(next)
  BY <1>2, <1>3, <1>4
<1>6. on \in Int /\ MonthOf(on) = next /\ GetDate(on) = s.date
  <2> HIDE DEF next
  <2> QED
    BY <1>5, DayOfDate
<1>7. e \in Int /\ In(e, next)
  BY <1>2, <1>3 DEF In
<1>8. MonthOf(e) = next
  BY <1>5, <1>7, MonthOfIs
<1>9. RepeatOn(s, n) = on
  <2>1. RepeatOn(s, n) = BackToDate(SetDate(AddMonths(d, 1), s.date), s.date)
    BY DEF RepeatOn
  <2>2. AddMonths(d, 1) = e
    BY <1>1 DEF AddMonths, k
  <2>3. SetDate(e, s.date) = on
    BY <1>8 DEF SetDate
  <2>4. BackToDate(on, s.date) = on
    BY <1>6, BackIsHere
  <2> QED
    BY <2>1, <2>2, <2>3, <2>4
<1>10. d < on /\ on <= d + 366
  BY <1>1, <1>2, <1>3
<1>11. ASSUME NEW x \in Int, d < x, x < on PROVE ~Matches(s, x)
  <2> SUFFICES ASSUME GetDate(x) = s.date
               PROVE  FALSE
    BY DEF Matches
  <2> DEFINE q == MonthOf(x)
  <2>1. q \in Int /\ s.date \in 1..LengthOf(q)
    BY DateOfDay
  <2>2. k < q
    BY <1>1, <1>11, SameDateLater DEF k
  <2>3. q < next
    <3> HIDE DEF on, next
    <3> QED
      BY <1>6, <1>11, SameDateLater
  <2> HIDE DEF q
  <2>4. q = k + 1 /\ ~(s.date <= LengthOf(k + 1))
    BY <1>1, <1>2, <2>1, <2>2, <2>3
  <2> QED
    BY <1>3, <2>1, <2>4
<1>12. Matches(s, on)
  BY <1>6 DEF Matches
<1> HIDE DEF on
<1>13. QED
  BY <1>6, <1>9, <1>10, <1>11, <1>12 DEF FirstAfter

LEMMA AnnualIsFirst ==
  ASSUME NEW s, s.type = "annually", s.nextDate \in Nat, NEW n,
         s.month \in 0..11, s.date \in Always(s.month), Matches(s, s.nextDate)
  PROVE  FirstAfter(s, s.nextDate, RepeatOn(s, n))
<1> DEFINE d == s.nextDate
           k == MonthOf(d)
           on == StartOf(k + 12) + s.date - 1
<1>1. /\ GetDate(d) = s.date /\ k \in Int /\ d = StartOf(k) + s.date - 1
      /\ k % 12 = s.month
  BY DateOfDay DEF Matches, GetMonth
<1> HIDE DEF k
<1>2. k + 12 \in Int /\ (k + 12) % 12 = s.month
  BY <1>1, YearLater
<1>3. s.date \in 1..LengthOf(k + 12)
  BY <1>2, AlwaysHas
<1>4. on \in Int /\ MonthOf(on) = k + 12 /\ GetDate(on) = s.date /\ GetMonth(on) = s.month
  BY <1>2, <1>3, DayOfDate
<1>5. RepeatOn(s, n) = on
  <2>1. RepeatOn(s, n) = BackToDate(SetDate(SetMonth(AddMonths(d, 12), s.month), s.date), s.date)
    BY DEF RepeatOn
  <2>2. AddMonths(d, 12) = on
    BY <1>1 DEF AddMonths, k
  <2>3. SetMonth(on, s.month) = on
    <3>1. s.month - GetMonth(on) = 0 /\ (k + 12) + 0 = k + 12
      BY <1>2, <1>4
    <3>2. AddMonths(on, 0) = on
      <4> HIDE DEF on
      <4>1. AddMonths(on, 0) = StartOf(k + 12) + s.date - 1
        BY <1>4, <3>1 DEF AddMonths
      <4> QED
        BY <4>1 DEF on
    <3> QED
      BY <3>1, <3>2 DEF SetMonth
  <2>4. SetDate(on, s.date) = on
    BY <1>4 DEF SetDate
  <2>5. BackToDate(on, s.date) = on
    BY <1>4, BackIsHere
  <2> QED
    BY <2>1, <2>2, <2>3, <2>4, <2>5
<1>6. d < on /\ on <= d + 366
  <2>1. StartOf(k) \in Int /\ StartOf(k + 12) \in Int
    BY <1>1, <1>2, StartTyped, NextStart
  <2>2. StartOf(k + 12) - StartOf(k) \in 365..366
    BY <1>1, YearLater
  <2> QED
    BY <1>1, <1>3, <2>1, <2>2
<1>7. ASSUME NEW x \in Int, d < x, x < on PROVE ~Matches(s, x)
  <2> SUFFICES ASSUME GetDate(x) = s.date, GetMonth(x) = s.month
               PROVE  FALSE
    BY DEF Matches
  <2> DEFINE q == MonthOf(x)
  <2>1. q \in Int /\ q % 12 = s.month
    BY DateOfDay DEF GetMonth
  <2>2. k < q
    BY <1>1, <1>7, SameDateLater DEF k
  <2>3. q < k + 12
    <3> HIDE DEF on
    <3> QED
      BY <1>4, <1>7, SameDateLater
  <2> HIDE DEF q
  <2> QED
    BY <1>1, <2>1, <2>2, <2>3
<1>8. Matches(s, on)
  BY <1>4 DEF Matches
<1> HIDE DEF on
<1>9. QED
  BY <1>4, <1>5, <1>6, <1>7, <1>8 DEF FirstAfter

(* s with another date and another value.                                  *)
Put(s, on, v) == [s EXCEPT !.nextDate = on, !.value = v]

(* A schedule that names days: every type but "periodic".                  *)
NamesDays(s) == s \in Regular /\ s.type # "periodic"

(* What the fields of a regular schedule are.                              *)
LEMMA RegularFields ==
  ASSUME NEW s \in Regular
  PROVE  /\ s.nextDate \in Nat /\ s.value \in Nat /\ s.until \in UntilKinds
         /\ s.type \in {"daily", "periodic", "weekly", "monthlyDate", "annually"}
         /\ s # None
         /\ s.type = "periodic" => s.period \in Nat \ {0}
         /\ s.type = "weekly" => s.weekDays \in (SUBSET (0..6)) \ {{}}
         /\ s.type = "monthlyDate" => s.date \in 1..31 /\ Matches(s, s.nextDate)
         /\ s.type = "annually" => /\ s.month \in 0..11 /\ s.date \in Always(s.month)
                                   /\ Matches(s, s.nextDate)
<1>1. CASE s \in [type : {"daily"}, nextDate : Nat, until : UntilKinds, value : Nat]
  BY <1>1 DEF None
<1>2. CASE s \in [type : {"periodic"}, period : Nat \ {0}, nextDate : Nat, until : UntilKinds, value : Nat]
  BY <1>2 DEF None
<1>3. CASE s \in [type : {"weekly"}, weekDays : (SUBSET (0..6)) \ {{}},
                  nextDate : Nat, until : UntilKinds, value : Nat]
  BY <1>3 DEF None
<1>4. CASE s \in {r \in [type : {"monthlyDate"}, date : 1..31, month : 0..11,
                         nextDate : Nat, until : UntilKinds, value : Nat] : Matches(r, r.nextDate)}
  BY <1>4 DEF None
<1>5. CASE s \in {r \in [type : {"annually"}, date : 1..31, month : 0..11,
                         nextDate : Nat, until : UntilKinds, value : Nat] :
                    Matches(r, r.nextDate) /\ r.date \in Always(r.month)}
  BY <1>5 DEF None
<1>6. QED
  BY <1>1, <1>2, <1>3, <1>4, <1>5 DEF Regular

(* A regular schedule that moved to a day it matches is regular.           *)
LEMMA RegularMoves ==
  ASSUME NEW s \in Regular, NEW on \in Nat, NEW v \in Nat,
         s.type # "periodic" => Matches(s, on)
  PROVE  /\ Put(s, on, v) \in Regular
         /\ Put(s, on, v).nextDate = on /\ Put(s, on, v).value = v
<1> DEFINE r == [s EXCEPT !.nextDate = on, !.value = v]
<1> SUFFICES r \in Regular /\ r.nextDate = on /\ r.value = v
  BY DEF Put
<1>1. CASE s \in [type : {"daily"}, nextDate : Nat, until : UntilKinds, value : Nat]
  <2>1. r \in [type : {"daily"}, nextDate : Nat, until : UntilKinds, value : Nat]
    BY <1>1
  <2> QED
    BY <1>1, <2>1 DEF Regular
<1>2. CASE s \in [type : {"periodic"}, period : Nat \ {0}, nextDate : Nat, until : UntilKinds, value : Nat]
  <2>1. r \in [type : {"periodic"}, period : Nat \ {0}, nextDate : Nat, until : UntilKinds, value : Nat]
    BY <1>2
  <2> QED
    BY <1>2, <2>1 DEF Regular
<1>3. CASE s \in [type : {"weekly"}, weekDays : (SUBSET (0..6)) \ {{}},
                  nextDate : Nat, until : UntilKinds, value : Nat]
  <2>1. r \in [type : {"weekly"}, weekDays : (SUBSET (0..6)) \ {{}},
               nextDate : Nat, until : UntilKinds, value : Nat]
    BY <1>3
  <2> QED
    BY <1>3, <2>1 DEF Regular
<1>4. CASE s \in {q \in [type : {"monthlyDate"}, date : 1..31, month : 0..11,
                         nextDate : Nat, until : UntilKinds, value : Nat] : Matches(q, q.nextDate)}
  <2>1. r \in [type : {"monthlyDate"}, date : 1..31, month : 0..11,
               nextDate : Nat, until : UntilKinds, value : Nat]
    BY <1>4
  <2>2. r.date = s.date /\ r.type = "monthlyDate" /\ s.type = "monthlyDate" /\ r.nextDate = on
    BY <1>4
  <2>3. \A d : Matches(r, d) <=> Matches(s, d)
    BY <2>2 DEF Matches
  <2> QED
    BY <1>4, <2>1, <2>2, <2>3 DEF Regular
<1>5. CASE s \in {q \in [type : {"annually"}, date : 1..31, month : 0..11,
                         nextDate : Nat, until : UntilKinds, value : Nat] :
                    Matches(q, q.nextDate) /\ q.date \in Always(q.month)}
  <2>1. r \in [type : {"annually"}, date : 1..31, month : 0..11,
               nextDate : Nat, until : UntilKinds, value : Nat]
    BY <1>5
  <2>2. /\ r.date = s.date /\ r.month = s.month /\ r.type = "annually" /\ s.type = "annually"
        /\ r.nextDate = on
    BY <1>5
  <2>3. \A d : Matches(r, d) <=> Matches(s, d)
    BY <2>2 DEF Matches
  <2> QED
    BY <1>5, <2>1, <2>2, <2>3 DEF Regular
<1>6. QED
  BY <1>1, <1>2, <1>3, <1>4, <1>5 DEF Regular

(* One step of the loop goes to the first day after nextDate that the      *)
(* schedule names.                                                         *)
THEOREM RepeatOnIsFirst ==
  ASSUME NEW s, NamesDays(s), NEW n
  PROVE  FirstAfter(s, s.nextDate, RepeatOn(s, n))
<1>1. s \in Regular /\ s.type \in {"daily", "weekly", "monthlyDate", "annually"} /\ s.nextDate \in Nat
  BY RegularFields DEF NamesDays
<1>2. CASE s.type = "daily"
  BY <1>1, <1>2, DailyIsFirst
<1>3. CASE s.type = "weekly"
  BY <1>1, <1>3, RegularFields, WeeklyIsFirst
<1>4. CASE s.type = "monthlyDate"
  BY <1>1, <1>4, RegularFields, MonthlyIsFirst
<1>5. CASE s.type = "annually"
  BY <1>1, <1>5, RegularFields, AnnualIsFirst
<1>6. QED
  BY <1>1, <1>2, <1>3, <1>4, <1>5

(* After any day there is one the schedule names, at most a year later.    *)
LEMMA DayAhead ==
  ASSUME NEW s, NamesDays(s), NEW n \in Nat
  PROVE  \E d \in n + 1 .. n + 366 : Matches(s, d)
<1>1. s \in Regular /\ s.type \in {"daily", "weekly", "monthlyDate", "annually"} /\ s.nextDate \in Nat
  BY RegularFields DEF NamesDays
<1> DEFINE k == MonthOf(n)
<1>2. k \in Int /\ n = StartOf(k) + GetDate(n) - 1 /\ GetDate(n) \in 1..LengthOf(k)
  BY DateOfDay
<1> HIDE DEF k
<1>3. CASE s.type = "daily"
  BY <1>3 DEF Matches
<1>4. CASE s.type = "weekly"
  <2>1. PICK w \in 0..6 : w \in s.weekDays
    BY <1>1, <1>4, RegularFields
  <2> DEFINE x == n + 1 + ((w - (n + 7)) % 7)
  <2>2. x \in n + 1 .. n + 7
    OBVIOUS
  <2>3. (x + 6) % 7 = w
    OBVIOUS
  <2> HIDE DEF x
  <2> QED
    BY <1>4, <2>1, <2>2, <2>3 DEF GetDay, Matches
<1>5. CASE s.type = "monthlyDate"
  <2>1. s.date \in 1..31
    BY <1>1, <1>5, RegularFields
  <2>2. k + 1 \in Int /\ k + 2 \in Int /\ (k + 1) + 1 = k + 2
    BY <1>2
  <2>3. /\ LengthOf(k) \in 28..31 /\ LengthOf(k + 1) \in 28..31 /\ LengthOf(k + 2) \in 28..31
        /\ StartOf(k) \in Int /\ StartOf(k + 1) \in Int /\ StartOf(k + 2) \in Int
        /\ StartOf(k + 1) = StartOf(k) + LengthOf(k)
        /\ StartOf(k + 2) = StartOf(k + 1) + LengthOf(k + 1)
    BY <1>2, <2>2, StartTyped, NextStart
  <2>4. CASE s.date <= LengthOf(k + 1)
    <3> DEFINE x == StartOf(k + 1) + s.date - 1
    <3>1. x \in n + 1 .. n + 366
      BY <1>2, <2>1, <2>3
    <3>2. GetDate(x) = s.date
      BY <2>1, <2>2, <2>3, <2>4, DayOfDate
    <3> QED
      BY <1>5, <3>1, <3>2 DEF Matches
  <2>5. CASE s.date > LengthOf(k + 1)
    <3> DEFINE x == StartOf(k + 2) + s.date - 1
    <3>1. x \in n + 1 .. n + 366
      BY <1>2, <2>1, <2>3
    <3>2. LengthOf(k + 2) = 31
      BY <2>1, <2>2, <2>3, <2>5, LongMonthFollows
    <3>3. GetDate(x) = s.date
      BY <2>1, <2>2, <3>2, DayOfDate
    <3> QED
      BY <1>5, <3>1, <3>3 DEF Matches
  <2> QED
    BY <2>1, <2>3, <2>4, <2>5
<1>6. CASE s.type = "annually"
  <2>1. s.month \in 0..11 /\ s.date \in Always(s.month)
    BY <1>1, <1>6, RegularFields
  <2> DEFINE q == k + ((s.month - k) % 12)
  <2>2. q \in k .. k + 11 /\ q % 12 = s.month
    BY <1>2, <2>1
  <2> HIDE DEF q
  <2>3. q \in Int /\ q + 12 \in Int /\ k + 12 \in Int /\ q + 1 \in Int
    BY <1>2, <2>2
  <2>4. (q + 12) % 12 = s.month /\ StartOf(q + 12) - StartOf(q) \in 365..366
        /\ StartOf(k + 12) - StartOf(k) \in 365..366
    BY <1>2, <2>2, <2>3, YearLater
  <2>5. s.date \in 1..LengthOf(q) /\ s.date \in 1..LengthOf(q + 12)
    BY <2>1, <2>2, <2>3, <2>4, AlwaysHas
  <2>6. /\ StartOf(q) \in Int /\ StartOf(q + 1) \in Int /\ StartOf(k) \in Int
        /\ StartOf(k + 12) \in Int /\ StartOf(q + 12) \in Int /\ StartOf(k + 1) \in Int
        /\ StartOf(q + 1) = StartOf(q) + LengthOf(q)
        /\ StartOf(k + 1) = StartOf(k) + LengthOf(k)
        /\ LengthOf(q) \in 28..31 /\ LengthOf(k) \in 28..31
    BY <1>2, <2>3, StartTyped, NextStart
  <2>7. StartOf(q + 1) <= StartOf(k + 12) /\ StartOf(k + 1) <= StartOf(q + 12)
    BY <1>2, <2>2, <2>3, StartsGrow
  <2> DEFINE x == StartOf(q) + s.date - 1
             z == StartOf(q + 12) + s.date - 1
  <2>8. CASE x > n
    <3>1. x \in n + 1 .. n + 366
      BY <1>2, <2>5, <2>6, <2>7, <2>4, <2>8
    <3>2. GetDate(x) = s.date /\ GetMonth(x) = s.month
      BY <2>2, <2>3, <2>5, DayOfDate
    <3> QED
      BY <1>6, <3>1, <3>2 DEF Matches
  <2>9. CASE x <= n
    <3>1. z \in n + 1 .. n + 366
      BY <1>2, <2>5, <2>6, <2>7, <2>4, <2>9
    <3>2. GetDate(z) = s.date /\ GetMonth(z) = s.month
      BY <2>3, <2>4, <2>5, DayOfDate
    <3> QED
      BY <1>6, <3>1, <3>2 DEF Matches
  <2> QED
    BY <2>5, <2>6, <2>8, <2>9
<1>7. QED
  BY <1>1, <1>3, <1>4, <1>5, <1>6

(* The first day after n that s names.                                     *)
FirstDay(s, n) == Min({d \in n + 1 .. n + 366 : Matches(s, d)})

LEMMA FirstDayIs ==
  ASSUME NEW s, NamesDays(s), NEW n \in Nat
  PROVE  /\ FirstAfter(s, n, FirstDay(s, n))
         /\ \A on : FirstAfter(s, n, on) => on = FirstDay(s, n)
<1> DEFINE S == {d \in n + 1 .. n + 366 : Matches(s, d)}
<1>1. S \subseteq Nat /\ S # {}
  BY DayAhead
<1>2. FirstDay(s, n) = CHOOSE x \in S : \A y \in S : x <= y
  BY DEF FirstDay, Min
<1> HIDE DEF S
<1>3. FirstDay(s, n) \in S /\ \A y \in S : FirstDay(s, n) <= y
  <2>1. \E x \in S : \A y \in S : x <= y
    BY <1>1, Least
  <2> QED
    BY <1>2, <2>1
<1>4. FirstAfter(s, n, FirstDay(s, n))
  <2>1. /\ FirstDay(s, n) \in n + 1 .. n + 366 /\ Matches(s, FirstDay(s, n))
        /\ \A y \in n + 1 .. n + 366 : Matches(s, y) => FirstDay(s, n) <= y
    BY <1>3 DEF S
  <2> QED
    BY <2>1 DEF FirstAfter
<1>5. ASSUME NEW on, FirstAfter(s, n, on) PROVE on = FirstDay(s, n)
  BY <1>4, <1>5 DEF FirstAfter
<1>6. QED
  BY <1>4, <1>5

(***************************************************************************)
(* The inductive invariant                                                 *)
(***************************************************************************)

(* r is a schedule of Schedules that moved on.                             *)
Moved(r, s) == r = Put(s, r.nextDate, r.value)

(* The days after its date that f names, up to d.                          *)
Passed(f, d) == {x \in f.nextDate + 1 .. d : Matches(f, x)}

(* The loop counts the days it passed, in counter and in the schedule's    *)
(* value, and it is never in the future while it runs.                     *)
LoopInv ==
  LET steps == MaxSteps - counter IN
  /\ schedule # None
  /\ Moved(schedule, from)
  /\ schedule.nextDate <= now
  /\ schedule.value = IF from.until = "count" THEN from.value - steps ELSE from.value
  /\ from.type = "periodic" => steps = 0
  /\ from.type # "periodic" =>
       /\ from.nextDate <= schedule.nextDate
       /\ Cardinality(Passed(from, schedule.nextDate)) = steps

ScheduleInv ==
  /\ now \in Nat
  /\ counter \in -1..MaxSteps
  /\ looping \in BOOLEAN
  /\ from \in Regular
  /\ \E s \in Schedules : Moved(from, s)
  /\ schedule # None => schedule \in Regular /\ \E s \in Schedules : Moved(schedule, s)
  /\ looping => LoopInv

(* The days passed are counted one by one.                                 *)
LEMMA PassedGrows ==
  ASSUME NEW f, f.nextDate \in Nat, NEW a \in Nat, NEW b \in Nat,
         f.nextDate <= a, a < b, Matches(f, b)
  PROVE  /\ IsFiniteSet(Passed(f, b))
         /\ Cardinality(Passed(f, a)) \in Nat
         /\ Cardinality(Passed(f, b)) \in Nat
         /\ Cardinality(Passed(f, b)) >= Cardinality(Passed(f, a)) + 1
         /\ (\A x \in Int : a < x /\ x < b => ~Matches(f, x))
              => Cardinality(Passed(f, b)) = Cardinality(Passed(f, a)) + 1
<1> DEFINE A == Passed(f, a)
           B == Passed(f, b)
           C == A \cup {b}
<1>1. /\ A \subseteq f.nextDate + 1 .. b /\ B \subseteq f.nextDate + 1 .. b
      /\ C \subseteq B /\ b \notin A
      /\ (\A x \in Int : a < x /\ x < b => ~Matches(f, x)) => B \subseteq C
  BY DEF Passed
<1>2. IsFiniteSet(f.nextDate + 1 .. b)
  BY FS_Interval
<1> HIDE DEF A, B
<1>3. IsFiniteSet(A) /\ IsFiniteSet(B)
  BY <1>1, <1>2, FS_Subset
<1>4. Cardinality(A) \in Nat /\ Cardinality(B) \in Nat
  BY <1>3, FS_CardinalityType
<1>5. IsFiniteSet(C) /\ Cardinality(C) = Cardinality(A) + 1
  BY <1>1, <1>3, FS_AddElement
<1>6. Cardinality(C) <= Cardinality(B)
  BY <1>1, <1>3, FS_Subset
<1>7. (\A x \in Int : a < x /\ x < b => ~Matches(f, x)) => B = C
  BY <1>1
<1> HIDE DEF C
<1>8. QED
  BY <1>3, <1>4, <1>5, <1>6, <1>7 DEF A, B

(* One iteration of a regular schedule.                                    *)
LEMMA StepIs ==
  ASSUME NEW s \in Regular, NEW n \in Nat
  PROVE  LET on == RepeatOn(s, n)
             v == IF s.until = "count" THEN s.value - 1 ELSE s.value
             ends == \/ s.until = "count" /\ s.value = 0
                     \/ s.until = "date" /\ on > s.value
         IN  /\ on \in Nat
             /\ s.type = "periodic" => on = n + s.period
             /\ s.type # "periodic" => FirstAfter(s, s.nextDate, on)
             /\ Step(s, n) = IF ends THEN None ELSE Put(s, on, v)
             /\ ~ends => v \in Nat
<1> DEFINE on == RepeatOn(s, n)
           v == IF s.until = "count" THEN s.value - 1 ELSE s.value
           ends == \/ s.until = "count" /\ s.value = 0
                   \/ s.until = "date" /\ on > s.value
<1>1. s.nextDate \in Nat /\ s.value \in Nat /\ s.until \in UntilKinds
  BY RegularFields
<1>2. s.type = "periodic" => on = n + s.period
  BY DEF RepeatOn
<1>3. s.type # "periodic" => FirstAfter(s, s.nextDate, on)
  BY RepeatOnIsFirst DEF NamesDays
<1>4. on \in Nat
  BY <1>1, <1>2, <1>3, RegularFields DEF FirstAfter
<1> HIDE DEF on
<1>5. Within(s, on) <=> ~ends
  <2>1. CASE s.until = "count"
    BY <1>1, <2>1 DEF Within
  <2>2. CASE s.until = "date"
    BY <1>1, <1>4, <2>2 DEF Within
  <2>3. CASE s.until = "forever"
    BY <2>3 DEF Within
  <2> QED
    BY <1>1, <2>1, <2>2, <2>3 DEF UntilKinds
<1>6. [s EXCEPT !.nextDate = on, !.value = IF s.until = "count" THEN @ - 1 ELSE @]
        = Put(s, on, v)
  BY DEF Put
<1>7. Step(s, n) = IF on = -1 \/ ~Within(s, on) THEN None
                   ELSE [s EXCEPT !.nextDate = on, !.value = IF s.until = "count" THEN @ - 1 ELSE @]
  BY DEF Step, on
<1>8. Step(s, n) = IF ends THEN None ELSE Put(s, on, v)
  BY <1>4, <1>5, <1>6, <1>7
<1>9. ~ends => v \in Nat
  BY <1>1
<1>10. QED
  BY <1>2, <1>3, <1>4, <1>8, <1>9 DEF on

(* What the loop should return for a schedule that names days.             *)
LEMMA ExpectedOfDays ==
  ASSUME NEW f, NamesDays(f), NEW n
  PROVE  LET on == FirstDay(f, n)
             used == Cardinality(Passed(f, on))
         IN  Expected(f, n) = IF \/ f.until = "count" /\ f.value < used
                                 \/ f.until = "date" /\ f.value < on
                                 \/ used > MaxSteps + 1
                              THEN None
                              ELSE Put(f, on, IF f.until = "count" THEN f.value - used ELSE f.value)
<1>1. f.type # "periodic"
  BY DEF NamesDays
<1>2. QED
  BY <1>1 DEF Expected, FirstDay, Passed, Put

LEMMA ExpectedOfPeriod ==
  ASSUME NEW f \in Regular, f.type = "periodic", NEW n \in Nat
  PROVE  LET on == n + f.period
         IN  Expected(f, n) = IF \/ f.until = "count" /\ f.value = 0
                                 \/ f.until = "date" /\ f.value < on
                              THEN None
                              ELSE Put(f, on, IF f.until = "count" THEN f.value - 1 ELSE f.value)
<1>1. f.value \in Nat
  BY RegularFields
<1>2. ~(1 > MaxSteps + 1) /\ (f.value < 1 <=> f.value = 0)
  BY <1>1, ScheduleAssumption
<1>3. QED
  BY <1>2 DEF Expected, Put

(* Every initial state satisfies the invariant.                            *)
LEMMA ScheduleInit ==
  ASSUME Schedules \subseteq Regular, Init
  PROVE  ScheduleInv
<1>1. /\ schedule \in Regular /\ from = schedule /\ looping = FALSE
      /\ now = schedule.nextDate /\ counter = MaxSteps /\ schedule \in Schedules
  BY DEF Init
<1>2. schedule.nextDate \in Nat
  BY <1>1, RegularFields
<1>3. \A s \in Regular : Moved(s, s)
  BY DEF Moved, Put, Regular
<1>4. counter \in -1..MaxSteps
  BY <1>1, ScheduleAssumption
<1>5. QED
  BY <1>1, <1>2, <1>3, <1>4 DEF ScheduleInv

LEMMA ScheduleBegins ==
  ASSUME ScheduleInv, Begin
  PROVE  ScheduleInv'
<1>1. /\ schedule # None /\ schedule' = schedule /\ from' = schedule
      /\ counter' = MaxSteps /\ looping' = TRUE
  BY DEF Begin
<1>2. schedule \in Regular /\ \E s \in Schedules : Moved(schedule, s)
  BY <1>1 DEF ScheduleInv
<1>3. schedule.nextDate \in Nat /\ schedule.value \in Nat
  BY <1>2, RegularFields
<1>4. now' \in Nat /\ schedule.nextDate <= now'
  <2>1. PICK delay \in Delays : now' = schedule.nextDate + delay
    BY DEF Begin
  <2>2. delay \in Nat
    BY ScheduleAssumption
  <2> QED
    BY <1>3, <2>1, <2>2
<1>5. Moved(schedule, schedule)
  BY <1>2 DEF Moved, Put, Regular
<1>6. Cardinality(Passed(schedule, schedule.nextDate)) = 0
  <2>1. Passed(schedule, schedule.nextDate) = {}
    BY <1>3 DEF Passed
  <2> QED
    BY <2>1, FS_EmptySet
<1>7. MaxSteps - MaxSteps = 0 /\ MaxSteps \in -1..MaxSteps /\ schedule.value - 0 = schedule.value
  BY <1>3, ScheduleAssumption
<1>8. LoopInv'
  BY <1>1, <1>3, <1>4, <1>5, <1>6, <1>7 DEF LoopInv, Moved
<1>9. QED
  BY <1>1, <1>2, <1>4, <1>7, <1>8 DEF ScheduleInv, Moved

(* A schedule that moved on names the same days, and moves on alike.       *)
LEMMA MovedIs ==
  ASSUME NEW s \in Regular, NEW r, Moved(r, s)
  PROVE  /\ r.type = s.type /\ r.until = s.until
         /\ s.type = "periodic" => r.period = s.period
         /\ s.type # "periodic" => \A d : Matches(r, d) <=> Matches(s, d)
         /\ \A on, v : Put(r, on, v) = Put(s, on, v)
<1>1. r = [s EXCEPT !.nextDate = r.nextDate, !.value = r.value]
  BY DEF Moved, Put
<1>2. CASE s \in [type : {"daily"}, nextDate : Nat, until : UntilKinds, value : Nat]
  BY <1>1, <1>2 DEF Matches, Put
<1>3. CASE s \in [type : {"periodic"}, period : Nat \ {0}, nextDate : Nat, until : UntilKinds, value : Nat]
  BY <1>1, <1>3 DEF Put
<1>4. CASE s \in [type : {"weekly"}, weekDays : (SUBSET (0..6)) \ {{}},
                  nextDate : Nat, until : UntilKinds, value : Nat]
  BY <1>1, <1>4 DEF Matches, Put
<1>5. CASE s \in [type : {"monthlyDate"}, date : 1..31, month : 0..11,
                  nextDate : Nat, until : UntilKinds, value : Nat]
  BY <1>1, <1>5 DEF Matches, Put
<1>6. CASE s \in [type : {"annually"}, date : 1..31, month : 0..11,
                  nextDate : Nat, until : UntilKinds, value : Nat]
  BY <1>1, <1>6 DEF Matches, Put
<1>7. QED
  BY <1>2, <1>3, <1>4, <1>5, <1>6 DEF Regular

(* A step of the loop of a schedule that moved on from s.                  *)
LEMMA MovesOn ==
  ASSUME NEW s \in Regular, NEW r \in Regular, Moved(r, s),
         NEW on \in Nat, NEW v \in Nat, r.type # "periodic" => Matches(r, on)
  PROVE  /\ Put(r, on, v) \in Regular /\ Put(r, on, v) # None
         /\ Put(r, on, v).nextDate = on /\ Put(r, on, v).value = v
         /\ Moved(Put(r, on, v), s)
         /\ Put(r, on, v) = Put(s, on, v)
<1>1. Put(r, on, v) = Put(s, on, v)
  BY MovedIs
<1>2. Put(r, on, v) \in Regular /\ Put(r, on, v).nextDate = on /\ Put(r, on, v).value = v
  BY RegularMoves
<1>3. Moved(Put(r, on, v), s)
  BY <1>1, <1>2 DEF Moved
<1>4. Put(r, on, v) # None
  BY <1>2, RegularFields
<1>5. QED
  BY <1>1, <1>2, <1>3, <1>4

(* What is known when an iteration begins.                                 *)
LEMMA InTheLoop ==
  ASSUME ScheduleInv, looping
  PROVE  /\ from \in Regular /\ schedule \in Regular /\ Moved(schedule, from)
         /\ schedule.type = from.type /\ schedule.until = from.until
         /\ from.until \in UntilKinds
         /\ from.nextDate \in Nat /\ from.value \in Nat
         /\ schedule.nextDate \in Nat /\ schedule.value \in Nat /\ now \in Nat
         /\ schedule.nextDate <= now
         /\ from.type = "periodic" => schedule.period = from.period /\ from.period \in Nat \ {0}
         /\ from.type # "periodic" =>
              /\ NamesDays(from) /\ NamesDays(schedule)
              /\ \A d : Matches(schedule, d) <=> Matches(from, d)
         /\ counter \in -1..MaxSteps
<1>1. /\ from \in Regular /\ schedule \in Regular /\ Moved(schedule, from)
      /\ schedule.nextDate <= now /\ now \in Nat /\ counter \in -1..MaxSteps
  BY DEF ScheduleInv, LoopInv
<1>2. /\ schedule.type = from.type /\ schedule.until = from.until
      /\ from.type = "periodic" => schedule.period = from.period
      /\ from.type # "periodic" => \A d : Matches(schedule, d) <=> Matches(from, d)
  BY <1>1, MovedIs
<1>3. /\ from.nextDate \in Nat /\ from.value \in Nat /\ from.until \in UntilKinds
      /\ from.type = "periodic" => from.period \in Nat \ {0}
  BY <1>1, RegularFields
<1>4. schedule.nextDate \in Nat /\ schedule.value \in Nat
  BY <1>1, RegularFields
<1>5. QED
  BY <1>1, <1>2, <1>3, <1>4 DEF NamesDays

(* A schedule that names days: the step before last and the first day in   *)
(* the future.                                                             *)
LEMMA DaysIterate ==
  ASSUME Schedules \subseteq Regular, ScheduleInv, Iterate, from.type # "periodic"
  PROVE  ScheduleInv' /\ (~looping' => schedule' = Expected(from, now))
<1> DEFINE on == RepeatOn(schedule, now)
           v == IF schedule.until = "count" THEN schedule.value - 1 ELSE schedule.value
           ends == \/ schedule.until = "count" /\ schedule.value = 0
                   \/ schedule.until = "date" /\ on > schedule.value
           q == Put(schedule, on, v)
           steps == MaxSteps - counter
           first == FirstDay(from, now)
           used == Cardinality(Passed(from, first))
<1>1. /\ looping /\ counter >= 0 /\ counter' = counter - 1 /\ now' = now /\ from' = from
      /\ schedule' = Step(schedule, now)
      /\ looping' = (schedule' # None /\ schedule'.nextDate <= now)
  BY DEF Iterate
<1>2. /\ from \in Regular /\ schedule \in Regular /\ Moved(schedule, from)
      /\ schedule.type = from.type /\ schedule.until = from.until
      /\ from.until \in UntilKinds
      /\ from.nextDate \in Nat /\ from.value \in Nat
      /\ schedule.nextDate \in Nat /\ schedule.value \in Nat /\ now \in Nat
      /\ schedule.nextDate <= now
      /\ NamesDays(from) /\ NamesDays(schedule)
      /\ \A d : Matches(schedule, d) <=> Matches(from, d)
      /\ counter \in -1..MaxSteps
  BY <1>1, InTheLoop
<1>3. /\ schedule.value = IF from.until = "count" THEN from.value - steps ELSE from.value
      /\ from.nextDate <= schedule.nextDate
      /\ Cardinality(Passed(from, schedule.nextDate)) = steps
  BY <1>1 DEF ScheduleInv, LoopInv
<1>4. /\ on \in Nat /\ FirstAfter(schedule, schedule.nextDate, on)
      /\ schedule' = IF ends THEN None ELSE q
      /\ ~ends => v \in Nat
  BY <1>1, <1>2, StepIs
<1> HIDE DEF on
<1>5. /\ schedule.nextDate < on /\ on <= schedule.nextDate + 366 /\ Matches(from, on)
      /\ \A x \in Int : schedule.nextDate < x /\ x < on => ~Matches(from, x)
  BY <1>2, <1>4 DEF FirstAfter
<1>6. Cardinality(Passed(from, on)) = steps + 1
  BY <1>2, <1>3, <1>4, <1>5, PassedGrows
<1>7. FirstAfter(from, now, first) /\ \A x : FirstAfter(from, now, x) => x = first
  BY <1>2, FirstDayIs
<1> HIDE DEF first
<1>8. /\ first \in Nat /\ now < first /\ Matches(from, first)
      /\ on <= first /\ (on > now => on = first)
  <2>1. /\ first \in Int /\ now < first /\ Matches(from, first)
    BY <1>7 DEF FirstAfter
  <2>2. first >= on
    BY <1>2, <1>4, <1>5, <2>1
  <2>3. on > now => FirstAfter(from, now, on)
    BY <1>2, <1>4, <1>5 DEF FirstAfter
  <2> QED
    BY <1>2, <1>7, <2>1, <2>2, <2>3
<1>9. used \in Nat /\ used >= steps + 1 /\ (on = first => used = steps + 1)
  <2>1. used \in Nat /\ used >= Cardinality(Passed(from, schedule.nextDate)) + 1
    BY <1>2, <1>3, <1>4, <1>5, <1>8, PassedGrows
  <2> QED
    BY <1>3, <1>6, <2>1
<1>10. Expected(from, now) =
         IF \/ from.until = "count" /\ from.value < used
            \/ from.until = "date" /\ from.value < first
            \/ used > MaxSteps + 1
         THEN None
         ELSE Put(from, first, IF from.until = "count" THEN from.value - used ELSE from.value)
  BY <1>2, ExpectedOfDays DEF first
<1>11. steps \in Nat /\ steps <= MaxSteps /\ MaxSteps \in Nat
  BY <1>1, <1>2, ScheduleAssumption
<1> HIDE DEF used
<1>12. CASE ends
  <2>1. schedule' = None /\ looping' = FALSE
    BY <1>1, <1>4, <1>12
  <2>2. Expected(from, now) = None
    BY <1>2, <1>3, <1>4, <1>8, <1>9, <1>10, <1>11, <1>12
  <2>3. ScheduleInv'
    BY <1>1, <1>2, <1>11, <2>1 DEF ScheduleInv
  <2> QED
    BY <2>1, <2>2, <2>3
<1>13. CASE ~ends
  <2>1. schedule' = q /\ v \in Nat
    BY <1>4, <1>13
  <2> HIDE DEF v
  <2>2. /\ q \in Regular /\ q # None /\ q.nextDate = on /\ q.value = v /\ Moved(q, from)
        /\ q = Put(from, on, v)
    BY <1>2, <1>4, <1>5, <2>1, MovesOn
  <2>3. \E s \in Schedules : Moved(q, s)
    <3>1. PICK s \in Schedules : Moved(schedule, s)
      BY <1>1 DEF ScheduleInv, LoopInv
    <3>2. s \in Regular
      OBVIOUS
    <3>3. Moved(q, s)
      BY <1>2, <1>4, <1>5, <2>1, <3>1, <3>2, MovesOn
    <3> QED
      BY <3>3
  <2>4. v = IF from.until = "count" THEN from.value - (steps + 1) ELSE from.value
    BY <1>2, <1>3, <1>11 DEF v
  <2> HIDE DEF q
  <2>5. CASE on <= now
    <3>1. looping' = TRUE
      BY <1>1, <2>1, <2>2, <2>5
    <3>2. MaxSteps - counter' = steps + 1 /\ counter' \in -1..MaxSteps
      BY <1>1, <1>2, <1>11
    <3>3. /\ schedule' # None /\ Moved(schedule', from') /\ schedule'.nextDate <= now'
          /\ schedule'.value = IF from'.until = "count" THEN from'.value - (MaxSteps - counter')
                                                       ELSE from'.value
          /\ from'.nextDate <= schedule'.nextDate
          /\ Cardinality(Passed(from', schedule'.nextDate)) = MaxSteps - counter'
      <4>1. from.nextDate <= on
        BY <1>2, <1>3, <1>4, <1>5
      <4> QED
        BY <1>1, <1>6, <2>1, <2>2, <2>4, <2>5, <3>2, <4>1
    <3>4. LoopInv'
      BY <1>1, <3>3 DEF LoopInv, Moved, Passed
    <3>5. ScheduleInv'
      BY <1>1, <1>2, <2>1, <2>2, <2>3, <3>1, <3>2, <3>4 DEF ScheduleInv, Moved
    <3> QED
      BY <3>1, <3>5
  <2>6. CASE on > now
    <3>1. looping' = FALSE
      <4>1. ~(schedule'.nextDate <= now)
        BY <1>2, <1>4, <2>1, <2>2, <2>6
      <4> QED
        BY <1>1, <4>1
    <3>2. counter' \in -1..MaxSteps
      BY <1>1, <1>2, <1>11
    <3>3. ScheduleInv'
      BY <1>1, <1>2, <2>1, <2>2, <2>3, <3>1, <3>2 DEF ScheduleInv, Moved
    <3>4. q = Put(from, first, v)
      BY <1>8, <2>2, <2>6
    <3>5. Expected(from, now) = q
      <4>1. used = steps + 1 /\ on = first
        BY <1>8, <1>9, <2>6
      <4>2. ~(from.until = "count" /\ from.value < used)
        BY <1>2, <1>3, <1>11, <1>13, <4>1
      <4>3. ~(from.until = "date" /\ from.value < first)
        BY <1>2, <1>3, <1>4, <1>13, <4>1
      <4>4. ~(used > MaxSteps + 1)
        BY <1>11, <4>1
      <4> QED
        BY <1>10, <2>4, <3>4, <4>1, <4>2, <4>3, <4>4
    <3> QED
      BY <2>1, <3>3, <3>5
  <2> QED
    BY <1>2, <1>4, <2>5, <2>6
<1>14. QED
  BY <1>12, <1>13

(* A periodic schedule leaves the loop after one step.                     *)
LEMMA PeriodIterate ==
  ASSUME Schedules \subseteq Regular, ScheduleInv, Iterate, from.type = "periodic"
  PROVE  ScheduleInv' /\ (~looping' => schedule' = Expected(from, now))
<1> DEFINE on == RepeatOn(schedule, now)
           v == IF schedule.until = "count" THEN schedule.value - 1 ELSE schedule.value
           ends == \/ schedule.until = "count" /\ schedule.value = 0
                   \/ schedule.until = "date" /\ on > schedule.value
           q == Put(schedule, on, v)
<1>1. /\ looping /\ counter >= 0 /\ counter' = counter - 1 /\ now' = now /\ from' = from
      /\ schedule' = Step(schedule, now)
      /\ looping' = (schedule' # None /\ schedule'.nextDate <= now)
  BY DEF Iterate
<1>2. /\ from \in Regular /\ schedule \in Regular /\ Moved(schedule, from)
      /\ schedule.type = from.type /\ schedule.until = from.until
      /\ from.until \in UntilKinds
      /\ from.nextDate \in Nat /\ from.value \in Nat
      /\ schedule.nextDate \in Nat /\ schedule.value \in Nat /\ now \in Nat
      /\ schedule.period = from.period /\ from.period \in Nat \ {0}
      /\ counter \in -1..MaxSteps
  BY <1>1, InTheLoop
<1>3. schedule.value = from.value
  BY <1>1, <1>2 DEF ScheduleInv, LoopInv
<1>4. /\ on \in Nat /\ on = now + from.period
      /\ schedule' = IF ends THEN None ELSE q
      /\ ~ends => v \in Nat
  BY <1>1, <1>2, StepIs
<1> HIDE DEF on
<1>5. Expected(from, now) =
         IF \/ from.until = "count" /\ from.value = 0
            \/ from.until = "date" /\ from.value < on
         THEN None
         ELSE Put(from, on, IF from.until = "count" THEN from.value - 1 ELSE from.value)
  BY <1>2, <1>4, ExpectedOfPeriod
<1>6. counter' \in -1..MaxSteps
  BY <1>1, <1>2, ScheduleAssumption
<1>7. CASE ends
  <2>1. schedule' = None /\ looping' = FALSE
    BY <1>1, <1>4, <1>7
  <2>2. Expected(from, now) = None
    BY <1>2, <1>3, <1>4, <1>5, <1>7
  <2>3. ScheduleInv'
    BY <1>1, <1>2, <1>6, <2>1 DEF ScheduleInv
  <2> QED
    BY <2>1, <2>2, <2>3
<1>8. CASE ~ends
  <2>1. schedule' = q /\ v \in Nat
    BY <1>4, <1>8
  <2>2. v = IF from.until = "count" THEN from.value - 1 ELSE from.value
    BY <1>2, <1>3
  <2> HIDE DEF v
  <2>3. /\ q \in Regular /\ q # None /\ q.nextDate = on /\ Moved(q, from)
        /\ q = Put(from, on, v)
    BY <1>2, <1>4, <2>1, MovesOn
  <2>4. \E s \in Schedules : Moved(q, s)
    <3>1. PICK s \in Schedules : Moved(schedule, s)
      BY <1>1 DEF ScheduleInv, LoopInv
    <3>2. s \in Regular
      OBVIOUS
    <3>3. Moved(q, s)
      BY <1>2, <1>4, <2>1, <3>1, <3>2, MovesOn
    <3> QED
      BY <3>3
  <2> HIDE DEF q
  <2>5. looping' = FALSE
    <3>1. ~(schedule'.nextDate <= now)
      BY <1>2, <1>4, <2>1, <2>3
    <3> QED
      BY <1>1, <3>1
  <2>6. ScheduleInv'
    BY <1>1, <1>2, <1>6, <2>1, <2>3, <2>4, <2>5 DEF ScheduleInv, Moved
  <2>7. Expected(from, now) = q
    <3>1. ~(from.until = "count" /\ from.value = 0) /\ ~(from.until = "date" /\ from.value < on)
      BY <1>2, <1>3, <1>4, <1>8
    <3> QED
      BY <1>5, <2>2, <2>3, <3>1
  <2> QED
    BY <2>1, <2>6, <2>7
<1>9. QED
  BY <1>7, <1>8

(* The loop gives up when it passed more than MaxSteps days.               *)
LEMMA GivesUp ==
  ASSUME ScheduleInv, BombOut
  PROVE  ScheduleInv' /\ schedule' = Expected(from, now)
<1>1. /\ looping /\ counter < 0 /\ schedule' = None /\ looping' = FALSE
      /\ now' = now /\ counter' = counter /\ from' = from
  BY DEF BombOut
<1>2. /\ from \in Regular /\ from.nextDate \in Nat /\ schedule.nextDate \in Nat /\ now \in Nat
      /\ schedule.nextDate <= now
      /\ from.type # "periodic" => NamesDays(from)
      /\ counter \in -1..MaxSteps
  BY <1>1, InTheLoop
<1>3. MaxSteps - counter = MaxSteps + 1
  BY <1>1, <1>2, ScheduleAssumption
<1>4. /\ from.type # "periodic" /\ from.nextDate <= schedule.nextDate
      /\ Cardinality(Passed(from, schedule.nextDate)) = MaxSteps + 1
  BY <1>1, <1>3, ScheduleAssumption DEF ScheduleInv, LoopInv
<1> DEFINE first == FirstDay(from, now)
           used == Cardinality(Passed(from, first))
<1>5. FirstAfter(from, now, first)
  BY <1>2, <1>4, FirstDayIs
<1>6. first \in Nat /\ now < first /\ Matches(from, first)
  BY <1>2, <1>5 DEF FirstAfter
<1> HIDE DEF first
<1>7. used \in Nat /\ used >= (MaxSteps + 1) + 1
  BY <1>2, <1>4, <1>6, PassedGrows
<1>8. used > MaxSteps + 1
  BY <1>7, ScheduleAssumption
<1>9. Expected(from, now) = None
  BY <1>2, <1>4, <1>8, ExpectedOfDays DEF first
<1>10. ScheduleInv'
  BY <1>1 DEF ScheduleInv
<1>11. QED
  BY <1>1, <1>9, <1>10

LEMMA ScheduleNext ==
  ASSUME Schedules \subseteq Regular, ScheduleInv, [Next]_vars
  PROVE  /\ ScheduleInv'
         /\ looping /\ ~looping' => schedule' = Expected(from, now)
<1>1. CASE Begin
  BY <1>1, ScheduleBegins DEF Begin
<1>2. CASE Iterate
  BY <1>2, DaysIterate, PeriodIterate
<1>3. CASE BombOut
  BY <1>3, GivesUp
<1>4. CASE UNCHANGED vars
  BY <1>4 DEF vars, ScheduleInv, LoopInv, Moved, Passed
<1>5. QED
  BY <1>1, <1>2, <1>3, <1>4 DEF Next

(***************************************************************************)
(* The theorems                                                            *)
(***************************************************************************)

(* For every set of regular schedules, every delay and every MaxSteps, the *)
(* loop has counted the days it passed.                                    *)
THEOREM ScheduleInvariant ==
  ASSUME Schedules \subseteq Regular
  PROVE  Spec => []ScheduleInv
<1>1. Init => ScheduleInv
  BY ScheduleInit
<1>2. ScheduleInv /\ [Next]_vars => ScheduleInv'
  BY ScheduleNext
<1>3. QED
  BY <1>1, <1>2, PTL DEF Spec

(* The occurrences left are never negative, and an iteration never starts  *)
(* with its counter below -1.                                              *)
THEOREM ScheduleTypes ==
  ASSUME Schedules \subseteq Regular
  PROVE  Spec => []TypeOK
<1>1. ScheduleInv => TypeOK
  <2> SUFFICES ASSUME ScheduleInv PROVE TypeOK
    OBVIOUS
  <2>1. \E s \in Schedules : from = [s EXCEPT !.nextDate = from.nextDate, !.value = from.value]
    BY DEF ScheduleInv, Moved, Put
  <2>2. schedule # None => schedule.nextDate \in Nat /\ schedule.value \in Nat
    BY RegularFields DEF ScheduleInv
  <2> QED
    BY <2>1, <2>2 DEF TypeOK, ScheduleInv
<1>2. QED
  BY <1>1, ScheduleInvariant, PTL

(* computeNextSchedule returns the first day in the future that the        *)
(* schedule names, charges every day it passed to the count, and ends the  *)
(* schedule when `until` or MaxSteps is used up, and never otherwise.      *)
THEOREM FirstInTheFuture ==
  ASSUME Schedules \subseteq Regular
  PROVE  Spec => NextIsFirst
<1>1. ScheduleInv /\ [Next]_vars => [looping /\ ~looping' => schedule' = Expected(from, now)]_vars
  BY ScheduleNext
<1>2. QED
  BY <1>1, ScheduleInvariant, PTL DEF Spec, NextIsFirst

==============================================================================
