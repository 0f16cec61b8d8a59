---------------------------- MODULE Counter_proofs ----------------------------
(***************************************************************************)
(* Proofs about Counter: for any number and length of divisions, and       *)
(* however pegs and quiet times alternate, the window loses nothing that   *)
(* it should hold at a reset and counts nothing twice.                     *)
(***************************************************************************)
EXTENDS Counter, FiniteSetTheorems, FunctionTheorems, SequenceTheorems, TLAPS

(***************************************************************************)
(* Induction over an interval, for a set: what is not in S could otherwise *)
(* be mapped, one down, into itself but not onto itself.                   *)
(***************************************************************************)
LEMMA IntervalInduction ==
  ASSUME NEW N \in Nat, NEW S, 0 \in S,
         \A n \in 1..N : n - 1 \in S => n \in S
  PROVE  \A n \in 0..N : n \in S
<1> SUFFICES ASSUME NEW x \in 0..N, x \notin S
             PROVE  FALSE
  OBVIOUS
<1> DEFINE T == (0..x) \ S
           f == [n \in T |-> n - 1]
<1>1. IsFiniteSet(T)
  <2>1. IsFiniteSet(0..x) /\ T \in SUBSET (0..x)
    BY FS_Interval
  <2>2. QED
    BY <2>1, FS_Subset
<1>2. \A n \in T : n \in 1..x /\ n - 1 \in T
  OBVIOUS
<1>3. f \in Injection(T, T)
  <2>1. f \in [T -> T] /\ \A a, b \in T : f[a] = f[b] => a = b
    BY <1>2
  <2>2. QED
    BY <2>1, Fun_IsInj
<1>4. f \in Surjection(T, T)
  BY <1>1, <1>3, FS_Injection
<1>5. PICK k \in T : f[k] = x
  <2>1. x \in T
    OBVIOUS
  <2> HIDE DEF T, f
  <2>2. QED
    BY <1>4, <2>1 DEF Surjection
<1>6. QED
  BY <1>5

(***************************************************************************)
(* Sums of divisions                                                       *)
(***************************************************************************)

(* f adds up the first divisions of d.                                     *)
Sums(d, f) ==
  /\ f \in [0..Len(d) -> Value]
  /\ f[0] = Zero
  /\ \A n \in 1..Len(d) : f[n] = Merge(d[n], f[n - 1])

LEMMA Values ==
  /\ Zero \in Value
  /\ \A t \in Times : Zero[t] = 0
  /\ \A v, w \in Value : /\ Merge(v, w) \in Value
                         /\ \A t \in Times : Merge(v, w)[t] = v[t] + w[t]
<1>1. Zero \in Value /\ \A t \in Times : Zero[t] = 0
  BY DEF Zero, Value
<1>2. ASSUME NEW v \in Value, NEW w \in Value
      PROVE  Merge(v, w) \in Value /\ \A t \in Times : Merge(v, w)[t] = v[t] + w[t]
  BY DEF Value, Merge
<1>3. QED
  BY <1>1, <1>2

(* The recursive function of Total exists.                                 *)
LEMMA TotalSums ==
  ASSUME NEW d \in Seq(Value)
  PROVE  \E f : Sums(d, f) /\ Aggregate(d) = f[Len(d)]
<1> DEFINE R(f, n) == f = [k \in 0..n |-> IF k = 0 THEN Zero ELSE Merge(d[k], f[k - 1])]
           S == {n \in Nat : \E f : R(f, n)}
<1>1. 0 \in S
  <2>1. R([k \in 0..0 |-> Zero], 0)
    OBVIOUS
  <2>2. QED
    BY <2>1
<1>2. ASSUME NEW n \in 1..Len(d), n - 1 \in S
      PROVE  n \in S
  <2>1. PICK f : R(f, n - 1)
    BY <1>2
  <2> DEFINE g == [k \in 0..n |-> IF k = n THEN Merge(d[n], f[n - 1]) ELSE f[k]]
  <2>2. \A k \in 0..n : g[k] = IF k = 0 THEN Zero ELSE Merge(d[k], g[k - 1])
    <3>1. \A k \in 0..(n - 1) : f[k] = IF k = 0 THEN Zero ELSE Merge(d[k], f[k - 1])
      BY <2>1
    <3>2. QED
      BY <3>1
  <2>3. R(g, n)
    BY <2>2
  <2>4. n \in Nat /\ \E e : R(e, n)
    <3> HIDE DEF R, g
    <3>1. QED
      BY <2>3
  <2>5. QED
    BY <2>4
<1>3. Len(d) \in S
  <2>1. Len(d) \in Nat
    OBVIOUS
  <2> HIDE DEF S
  <2>2. \A n \in 1..Len(d) : n - 1 \in S => n \in S
    BY <1>2
  <2>3. \A n \in 0..Len(d) : n \in S
    BY <1>1, <2>1, <2>2, IntervalInduction
  <2>4. QED
    BY <2>1, <2>3
<1> DEFINE h == CHOOSE f : R(f, Len(d))
<1>4. R(h, Len(d))
  BY <1>3
<1>5. Aggregate(d) = h[Len(d)]
  BY DEF Aggregate, Total
<1> HIDE DEF h
<1>6. \A n \in 1..Len(d) : h[n] = Merge(d[n], h[n - 1])
  BY <1>4
<1>7. h[0] = Zero
  BY <1>4
<1>8. \A n \in 0..Len(d) : h[n] \in Value
  <2> DEFINE V == {n \in Nat : h[n] \in Value}
  <2>1. 0 \in V
    BY <1>7, Values
  <2>2. \A n \in 1..Len(d) : n - 1 \in V => n \in V
    BY <1>6, Values
  <2>3. Len(d) \in Nat
    OBVIOUS
  <2> HIDE DEF V
  <2>4. \A n \in 0..Len(d) : n \in V
    BY <2>1, <2>2, <2>3, IntervalInduction
  <2>5. QED
    BY <2>4 DEF V
<1>9. Sums(d, h)
  BY <1>4, <1>6, <1>7, <1>8 DEF Sums
<1>10. QED
  BY <1>5, <1>9

(***************************************************************************)
(* The inductive invariant                                                 *)
(***************************************************************************)

(* How the divisions lie in time: the present one begins at the last reset *)
(* and pegs go into it for one division only, unless it is the first; each *)
(* division further back ends a division earlier.                          *)
Present ==
  \A t \in Times : current[t] > 0 =>
    t < LastReset + Division /\ (aggregate # <<>> => t >= LastReset)

Past ==
  \A k \in 1..Len(history), t \in Times : history[k][t] > 0 =>
    t < LastReset - (Len(history) - k) * Division

(* What the window holds is what was pegged, unless it is older than the   *)
(* window is long.                                                         *)
Held ==
  \A t \in Times : /\ Aggregate(history)[t] + current[t] <= pegged[t]
                   /\ t >= start => Aggregate(history)[t] + current[t] = pegged[t]

Window ==
  /\ start <= now
  /\ start >= 0
  /\ aggregate = <<>> => history = <<>> /\ start = 0
  /\ aggregate # <<>> => aggregate = Aggregate(history) /\ LastReset <= now
  /\ Present
  /\ Past
  /\ Held

CounterInv == TypeOK /\ Window

(***************************************************************************)
(* What a reset does to the divisions                                      *)
(***************************************************************************)

(* The divisions before the oldest ones go, and how many go.               *)
Closed(missed) == history \o <<current>> \o [n \in 1..(missed - 1) |-> Zero]

Gone(missed) ==
  IF Len(history) + missed > Divisions THEN Len(history) + missed - Divisions ELSE 0

LEMMA ClosedShape ==
  ASSUME TypeOK, NEW missed \in Nat \ {0}
  PROVE  /\ Closed(missed) \in Seq(Value)
         /\ Len(Closed(missed)) = Len(history) + missed
         /\ \A k \in 1..Len(history) : Closed(missed)[k] = history[k]
         /\ Closed(missed)[Len(history) + 1] = current
         /\ \A k \in (Len(history) + 2)..(Len(history) + missed) : Closed(missed)[k] = Zero
<1> DEFINE zeros == [n \in 1..(missed - 1) |-> Zero]
           first == history \o <<current>>
<1>1. history \in Seq(Value) /\ current \in Value /\ Len(history) \in Nat
  BY DEF TypeOK
<1>2. zeros \in Seq(Value) /\ Len(zeros) = missed - 1 /\ \A k \in 1..(missed - 1) : zeros[k] = Zero
  <2>1. missed - 1 \in Nat /\ zeros \in [1..(missed - 1) -> Value]
    BY Values
  <2>2. QED
    BY <2>1
<1>3. /\ first \in Seq(Value) /\ Len(first) = Len(history) + 1
      /\ \A k \in 1..Len(history) : first[k] = history[k]
      /\ first[Len(history) + 1] = current
  <2>1. <<current>> \in Seq(Value) /\ Len(<<current>>) = 1 /\ <<current>>[1] = current
    BY <1>1
  <2>2. QED
    BY <1>1, <2>1, ConcatProperties
<1> HIDE DEF zeros, first
<1>4. /\ first \o zeros \in Seq(Value)
      /\ Len(first \o zeros) = Len(history) + missed
      /\ \A k \in 1..(Len(history) + missed) :
           (first \o zeros)[k] = IF k <= Len(history) + 1 THEN first[k]
                                 ELSE zeros[k - (Len(history) + 1)]
  BY <1>1, <1>2, <1>3, ConcatProperties
<1>5. Closed(missed) = first \o zeros
  BY DEF Closed, first, zeros
<1>6. QED
  BY <1>1, <1>2, <1>3, <1>4, <1>5

LEMMA ShiftedShape ==
  ASSUME TypeOK, NEW missed \in Nat \ {0}
  PROVE  /\ Gone(missed) \in 0..(Len(history) + missed)
         /\ Shifted(missed) \in Seq(Value)
         /\ Len(Shifted(missed)) = Len(history) + missed - Gone(missed)
         /\ Len(Shifted(missed)) <= Divisions
         /\ \A k \in 1..Len(Shifted(missed)) :
              Shifted(missed)[k] = Closed(missed)[k + Gone(missed)]
<1> DEFINE all == Closed(missed)
           i == Gone(missed)
<1>0. Len(history) \in Nat /\ Divisions \in Nat \ {0}
  BY CounterAssumption DEF TypeOK
<1>1. /\ all \in Seq(Value) /\ Len(all) = Len(history) + missed
      /\ Len(history) \in Nat /\ Divisions \in Nat \ {0}
  <2> HIDE DEF all
  <2>1. all \in Seq(Value) /\ Len(all) = Len(history) + missed
    BY ClosedShape DEF all
  <2>2. QED
    BY <1>0, <2>1
<1>2. i \in 0..Len(all) /\ Len(all) - i <= Divisions
  BY <1>1 DEF Gone
<1>3. Shifted(missed) = SubSeq(all, i + 1, Len(all))
  <2>1. Shifted(missed) = Kept(all)
    BY DEF Shifted, Closed
  <2>2. i + 1 = IF Len(all) > Divisions THEN Len(all) - Divisions + 1 ELSE 1
    <3> HIDE DEF all
    <3>1. QED
      BY <1>1 DEF Gone
  <2> HIDE DEF all, i
  <2>3. QED
    BY <2>1, <2>2 DEF Kept
<1> HIDE DEF all, i
<1>4. \A k \in (i + 1)..Len(all) : all[k] \in Value
  BY <1>1, <1>2
<1>5. /\ SubSeq(all, i + 1, Len(all)) \in Seq(Value)
      /\ Len(SubSeq(all, i + 1, Len(all))) = Len(all) - i
      /\ \A k \in 1..(Len(all) - i) : SubSeq(all, i + 1, Len(all))[k] = all[k + i]
  BY <1>1, <1>2, <1>4, SubSeqProperties
<1>6. QED
  BY <1>1, <1>2, <1>3, <1>5 DEF all, i

(* A sum of zeros.                                                         *)
LEMMA ZeroSums ==
  ASSUME NEW d \in Seq(Value), NEW f, Sums(d, f),
         NEW t \in Times, NEW i \in 0..Len(d),
         \A k \in 1..i : d[k][t] = 0
  PROVE  f[i][t] = 0
<1> DEFINE S == {n \in Nat : f[n][t] = 0}
<1>1. 0 \in S
  BY Values DEF Sums
<1>2. ASSUME NEW n \in 1..i, n - 1 \in S
      PROVE  n \in S
  <2>1. n \in 1..Len(d) /\ n - 1 \in 0..Len(d)
    OBVIOUS
  <2>2. d[n] \in Value /\ f[n - 1] \in Value /\ f[n] = Merge(d[n], f[n - 1])
    BY <2>1 DEF Sums
  <2>3. f[n][t] = d[n][t] + f[n - 1][t]
    BY <2>2, Values
  <2>4. QED
    BY <1>2, <2>3
<1>3. i \in Nat
  OBVIOUS
<1>4. \A n \in 0..i : n \in S
  <2> HIDE DEF S
  <2>1. \A n \in 1..i : n - 1 \in S => n \in S
    BY <1>2
  <2>2. QED
    BY <1>1, <1>3, <2>1, IntervalInduction
<1>5. QED
  BY <1>3, <1>4

LEMMA AggregateTyped ==
  ASSUME NEW d \in Seq(Value)
  PROVE  /\ Aggregate(d) \in Value
         /\ d = <<>> => Aggregate(d) = Zero
         /\ \A t \in Times : (\A k \in 1..Len(d) : d[k][t] = 0) => Aggregate(d)[t] = 0
<1>1. PICK f : Sums(d, f) /\ Aggregate(d) = f[Len(d)]
  BY TotalSums
<1>2. Len(d) \in 0..Len(d)
  OBVIOUS
<1>3. ASSUME NEW t \in Times, \A k \in 1..Len(d) : d[k][t] = 0
      PROVE  Aggregate(d)[t] = 0
  BY <1>1, <1>2, <1>3, ZeroSums
<1>4. Aggregate(d) \in Value
  BY <1>1, <1>2 DEF Sums
<1>5. d = <<>> => Aggregate(d) = Zero
  BY <1>1 DEF Sums
<1>6. QED
  BY <1>3, <1>4, <1>5

(* A reset keeps the sum, less what goes.                                  *)
LEMMA ResetTotal ==
  ASSUME TypeOK, NEW missed \in Nat \ {0}, NEW t \in Times
  PROVE  \E lost \in Nat :
           /\ Aggregate(Shifted(missed))[t] + lost = Aggregate(history)[t] + current[t]
           /\ (\A k \in 1..Gone(missed) : Closed(missed)[k][t] = 0) => lost = 0
<1> DEFINE all == Closed(missed)
           kept == Shifted(missed)
           i == Gone(missed)
           L == Len(history)
<1>1. /\ history \in Seq(Value) /\ current \in Value /\ L \in Nat
      /\ history \in [1..L -> Value]
  BY DEF TypeOK
<1>2. /\ all \in Seq(Value) /\ Len(all) = L + missed
      /\ \A k \in 1..L : all[k] = history[k]
      /\ all[L + 1] = current
      /\ \A k \in (L + 2)..(L + missed) : all[k] = Zero
  BY ClosedShape
<1>3. /\ i \in 0..(L + missed) /\ kept \in Seq(Value) /\ Len(kept) = L + missed - i
      /\ \A k \in 1..Len(kept) : kept[k] = all[k + i]
  BY ShiftedShape
<1> HIDE DEF all, kept, i
<1>4. PICK f : Sums(all, f) /\ Aggregate(all) = f[Len(all)]
  BY <1>2, TotalSums
<1>5. PICK g : Sums(kept, g) /\ Aggregate(kept) = g[Len(kept)]
  BY <1>3, TotalSums
<1>6. PICK h : Sums(history, h) /\ Aggregate(history) = h[L]
  BY <1>1, TotalSums
<1>7. /\ \A n \in 1..(L + missed) : f[n][t] = all[n][t] + f[n - 1][t] /\ all[n][t] \in Nat
      /\ \A n \in 1..Len(kept) : g[n][t] = kept[n][t] + g[n - 1][t] /\ kept[n][t] \in Nat
      /\ \A n \in 1..L : h[n][t] = history[n][t] + h[n - 1][t] /\ history[n][t] \in Nat
  <2>1. ASSUME NEW d \in Seq(Value), NEW e, Sums(d, e), NEW n \in 1..Len(d)
        PROVE  e[n][t] = d[n][t] + e[n - 1][t] /\ d[n][t] \in Nat
    <3>1. d[n] \in Value /\ e[n - 1] \in Value /\ e[n] = Merge(d[n], e[n - 1])
      BY <2>1 DEF Sums
    <3>2. Merge(d[n], e[n - 1])[t] = d[n][t] + e[n - 1][t]
      BY <3>1, Values
    <3>3. d[n][t] \in Nat
      BY <3>1 DEF Value
    <3>4. QED
      BY <3>1, <3>2, <3>3
  <2>2. QED
    BY <1>1, <1>2, <1>3, <1>4, <1>5, <1>6, <2>1
<1>8. /\ \A n \in 0..(L + missed) : f[n][t] \in Nat
      /\ \A n \in 0..Len(kept) : g[n][t] \in Nat
      /\ \A n \in 0..L : h[n][t] \in Nat
      /\ f[0][t] = 0 /\ g[0][t] = 0 /\ h[0][t] = 0
  <2>1. ASSUME NEW d \in Seq(Value), NEW e, Sums(d, e)
        PROVE  (\A n \in 0..Len(d) : e[n][t] \in Nat) /\ e[0][t] = 0
    BY <2>1, Values DEF Sums, Value
  <2>2. QED
    BY <1>1, <1>2, <1>3, <1>4, <1>5, <1>6, <2>1
<1>9. \A n \in 0..L : f[n][t] = h[n][t]
  <2> DEFINE S == {n \in Nat : f[n][t] = h[n][t]}
  <2>1. 0 \in S
    BY <1>8
  <2>2. \A n \in 1..L : n - 1 \in S => n \in S
    BY <1>1, <1>2, <1>7
  <2> HIDE DEF S
  <2>3. \A n \in 0..L : n \in S
    BY <1>1, <2>1, <2>2, IntervalInduction
  <2>4. QED
    BY <2>3 DEF S
<1>10. \A n \in 0..(missed - 1) : f[L + 1 + n][t] = h[L][t] + current[t]
  <2> DEFINE S == {n \in Nat : f[L + 1 + n][t] = h[L][t] + current[t]}
  <2>1. 0 \in S
    <3>1. f[L + 1][t] = all[L + 1][t] + f[L][t]
      BY <1>1, <1>7
    <3>2. f[L][t] = h[L][t] /\ f[L][t] \in Nat /\ current[t] \in Nat
      BY <1>1, <1>8, <1>9 DEF Value
    <3>3. QED
      BY <1>1, <1>2, <3>1, <3>2
  <2>2. ASSUME NEW n \in 1..(missed - 1), n - 1 \in S
        PROVE  n \in S
    <3>1. L + 1 + n \in 1..(L + missed) /\ L + 1 + n \in (L + 2)..(L + missed)
      BY <1>1
    <3>2. f[L + 1 + n][t] = all[L + 1 + n][t] + f[L + 1 + n - 1][t]
      BY <1>7, <3>1
    <3>3. all[L + 1 + n][t] = 0 /\ L + 1 + n - 1 = L + 1 + (n - 1)
      BY <1>1, <1>2, <3>1, Values
    <3>4. f[L + 1 + (n - 1)][t] = h[L][t] + current[t] /\ h[L][t] \in Nat /\ current[t] \in Nat
      BY <1>1, <1>8, <2>2 DEF Value
    <3>5. QED
      BY <3>2, <3>3, <3>4
  <2>3. missed - 1 \in Nat /\ \A n \in 1..(missed - 1) : n - 1 \in S => n \in S
    BY <2>2
  <2> HIDE DEF S
  <2>4. \A n \in 0..(missed - 1) : n \in S
    BY <2>1, <2>3, IntervalInduction
  <2>5. QED
    BY <2>4 DEF S
<1>11. \A n \in 0..Len(kept) : g[n][t] + f[i][t] = f[n + i][t]
  <2> DEFINE S == {n \in Nat : g[n][t] + f[i][t] = f[n + i][t]}
  <2>1. 0 \in S
    BY <1>1, <1>3, <1>8
  <2>2. ASSUME NEW n \in 1..Len(kept), n - 1 \in S
        PROVE  n \in S
    <3>1. n + i \in 1..(L + missed) /\ n - 1 \in 0..Len(kept) /\ i \in 0..(L + missed)
          /\ n - 1 + i = n + i - 1
      BY <1>1, <1>3
    <3>2. f[n + i][t] = all[n + i][t] + f[n + i - 1][t] /\ g[n][t] = kept[n][t] + g[n - 1][t]
      BY <1>7, <3>1
    <3>3. kept[n][t] = all[n + i][t] /\ kept[n][t] \in Nat /\ g[n - 1][t] \in Nat /\ f[i][t] \in Nat
      BY <1>3, <1>7, <1>8, <3>1
    <3>4. g[n - 1][t] + f[i][t] = f[n + i - 1][t]
      BY <2>2, <3>1
    <3>5. QED
      BY <3>2, <3>3, <3>4
  <2>3. Len(kept) \in Nat /\ \A n \in 1..Len(kept) : n - 1 \in S => n \in S
    BY <1>1, <1>3, <2>2
  <2> HIDE DEF S
  <2>4. \A n \in 0..Len(kept) : n \in S
    BY <2>1, <2>3, IntervalInduction
  <2>5. QED
    BY <2>4 DEF S
<1>12. Aggregate(kept)[t] + f[i][t] = Aggregate(history)[t] + current[t]
  <2>1. /\ Len(kept) \in 0..Len(kept) /\ Len(kept) + i = L + 1 + (missed - 1)
        /\ missed - 1 \in 0..(missed - 1)
    BY <1>1, <1>3
  <2>2. g[Len(kept)][t] + f[i][t] = f[L + 1 + (missed - 1)][t]
    BY <1>11, <2>1
  <2>3. QED
    BY <1>5, <1>6, <1>10, <2>1, <2>2
<1>13. (\A k \in 1..i : all[k][t] = 0) => f[i][t] = 0
  <2>1. i \in 0..Len(all)
    BY <1>2, <1>3
  <2>2. QED
    BY <1>2, <1>4, <2>1, ZeroSums
<1>14. f[i][t] \in Nat
  BY <1>3, <1>8
<1>15. QED
  BY <1>12, <1>13, <1>14 DEF all, kept, i

(* A reset is as many divisions late as MissedBeats says, or more of them  *)
(* than matter.                                                            *)
LEMMA Lateness ==
  ASSUME TypeOK
  PROVE  LET missed == MissedBeats(now) IN
         /\ missed \in Int /\ missed <= Divisions + 1
         /\ missed <= 0 => now < LastReset + Division
         /\ missed > 0 => now >= LastReset + missed * Division
         /\ missed > 0 /\ missed <= Divisions => now < LastReset + (missed + 1) * Division
<1> DEFINE x == now - Duration - start
           q == x \div Division
           missed == MissedBeats(now)
<1>1. Divisions \in Nat \ {0} /\ Division \in Nat \ {0} /\ now \in Int /\ start \in Int
  BY CounterAssumption DEF TypeOK, Times
<1>2. Duration \in Int
  BY <1>1 DEF Duration
<1>3. x \in Int /\ now = LastReset + x
  BY <1>1, <1>2 DEF LastReset
<1>4. q \in Int /\ q * Division <= x /\ x < (q + 1) * Division
  <2>1. \A m \in Int, n \in Nat \ {0} :
          m \div n \in Int /\ m = n * (m \div n) + (m % n) /\ m % n \in 0..(n - 1)
    OBVIOUS
  <2>2. q \in Int /\ x = Division * q + (x % Division) /\ x % Division \in 0..(Division - 1)
    BY <1>1, <1>3, <2>1
  <2> HIDE DEF q, x
  <2>3. (q + 1) * Division = Division * q + Division /\ q * Division = Division * q
    BY <1>1, <2>2
  <2>4. QED
    BY <1>1, <2>2, <2>3
<1>5. missed = IF q > Divisions + 1 THEN Divisions + 1 ELSE q
  BY DEF MissedBeats
<1>6. LastReset \in Int
  BY <1>1, <1>2 DEF LastReset
<1> HIDE DEF q, x, missed
<1>7. missed \in Int /\ missed <= Divisions + 1 /\ missed <= q
      /\ (missed <= Divisions => missed = q)
  BY <1>1, <1>4, <1>5
<1>8. ASSUME missed <= 0
      PROVE  now < LastReset + Division
  <2>1. q + 1 <= 1
    BY <1>1, <1>4, <1>7, <1>8
  <2>2. (q + 1) * Division <= Division
    BY <1>1, <1>4, <2>1
  <2>3. QED
    BY <1>1, <1>3, <1>4, <1>6, <2>2
<1>9. missed * Division <= q * Division
  BY <1>1, <1>4, <1>7
<1>10. now >= LastReset + missed * Division
  BY <1>1, <1>3, <1>4, <1>6, <1>7, <1>9
<1>11. missed <= Divisions => now < LastReset + (missed + 1) * Division
  BY <1>1, <1>3, <1>4, <1>6, <1>7
<1>12. QED
  BY <1>7, <1>8, <1>10, <1>11 DEF missed

LEMMA Monotone ==
  ASSUME NEW a \in Int, NEW b \in Int, NEW c \in Nat, a <= b
  PROVE  a * c \in Int /\ b * c \in Int /\ a * c <= b * c
<1>1. (b - a) * c >= 0 /\ (b - a) * c = b * c - a * c
  <2>1. b - a \in Nat
    OBVIOUS
  <2>2. \A x \in Nat : x * c >= 0
    OBVIOUS
  <2>3. QED
    BY <2>1, <2>2
<1>2. QED
  BY <1>1

(* What is pegged now.                                                     *)
LEMMA PeggedValue ==
  ASSUME TypeOK
  PROVE  LET value == [Zero EXCEPT ![now] = 1] IN
         value \in Value /\ \A t \in Times : value[t] = IF t = now THEN 1 ELSE 0
BY DEF TypeOK, Zero, Value

LEMMA ValueNotEmpty ==
  ASSUME NEW v \in Value
  PROVE  v # <<>>
<1>1. 0 \in Times
  BY CounterAssumption DEF Times
<1>2. DOMAIN v = Times
  BY DEF Value
<1>3. DOMAIN <<>> = {}
  OBVIOUS
<1>4. QED
  BY <1>1, <1>2, <1>3

LEMMA InitCounter == Init => CounterInv
<1> SUFFICES ASSUME Init PROVE CounterInv
  OBVIOUS
<1>1. 0 \in Times /\ Duration \in Nat /\ Divisions \in Nat \ {0} /\ Division \in Nat \ {0}
  BY CounterAssumption DEF Times, Duration
<1>2. TypeOK
  <2>1. <<>> \in Seq(Value) /\ Len(<<>>) = 0
    OBVIOUS
  <2>2. QED
    BY <1>1, <2>1, Values DEF Init, TypeOK
<1>3. Present
  BY Values DEF Init, Present
<1>4. Past
  BY DEF Init, Past
<1>5. Held
  <2>1. Aggregate(history) = Zero
    BY <1>2, AggregateTyped DEF Init, TypeOK
  <2>2. QED
    BY <2>1, Values DEF Init, Held
<1>6. Window
  BY <1>3, <1>4, <1>5 DEF Init, Window
<1>7. QED
  BY <1>2, <1>6 DEF CounterInv

LEMMA TickCounter == ASSUME CounterInv, Tick PROVE CounterInv'
<1>1. /\ now' \in Times /\ now' > now /\ now \in Int /\ MaxTime \in Nat
      /\ UNCHANGED <<start, history, aggregate, current, pegged>>
  BY CounterAssumption DEF CounterInv, TypeOK, Tick, Times
<1>2. TypeOK'
  BY <1>1 DEF CounterInv, TypeOK
<1>3. Present' /\ Past' /\ Held'
  BY <1>1 DEF CounterInv, Window, Present, Past, Held, LastReset
<1>4. start \in Int /\ LastReset \in Int
  BY CounterAssumption DEF CounterInv, TypeOK, LastReset, Duration
<1>5. Window'
  BY <1>1, <1>3, <1>4 DEF CounterInv, Window, LastReset, Times
<1>6. QED
  BY <1>2, <1>5 DEF CounterInv

(* A peg into the present division.                                        *)
LEMMA PresentPeg ==
  ASSUME CounterInv, PegValue, MissedBeats(now) <= 0
  PROVE  CounterInv'
<1> DEFINE value == [Zero EXCEPT ![now] = 1]
<1>0. TypeOK /\ Window
  BY DEF CounterInv
<1>1. value \in Value /\ \A t \in Times : value[t] = IF t = now THEN 1 ELSE 0
  BY <1>0, PeggedValue
<1>2. /\ current' = Merge(current, value) /\ pegged' = Merge(pegged, value)
      /\ UNCHANGED <<start, history, aggregate, now>>
  BY DEF PegValue
<1> HIDE DEF value
<1>3. TypeOK'
  BY <1>0, <1>1, <1>2, Values DEF TypeOK
<1>4. \A t \in Times : /\ current'[t] = current[t] + value[t] /\ current[t] \in Nat
                       /\ pegged'[t] = pegged[t] + value[t] /\ pegged[t] \in Nat
                       /\ value[t] \in Nat
  <2>1. current \in Value /\ pegged \in Value
    BY <1>0 DEF TypeOK
  <2>2. \A t \in Times : current[t] \in Nat /\ pegged[t] \in Nat /\ value[t] \in Nat
    BY <1>1, <2>1 DEF Value
  <2>3. \A t \in Times : /\ Merge(current, value)[t] = current[t] + value[t]
                         /\ Merge(pegged, value)[t] = pegged[t] + value[t]
    BY <1>1, <2>1, Values
  <2>4. QED
    BY <1>2, <2>2, <2>3
<1>5. now < LastReset + Division
  BY <1>0, Lateness
<1>6. Present'
  <2> SUFFICES ASSUME NEW t \in Times, current'[t] > 0
               PROVE  t < LastReset + Division /\ (aggregate # <<>> => t >= LastReset)
    BY <1>2 DEF Present, LastReset
  <2>1. CASE t = now
    BY <1>0, <1>5, <2>1 DEF Window, TypeOK, Times
  <2>2. CASE t # now
    BY <1>0, <1>1, <1>4, <2>2 DEF Window, Present
  <2>3. QED
    BY <2>1, <2>2
<1>7. Past'
  BY <1>0, <1>2 DEF Window, Past, LastReset
<1>8. Held'
  <2>1. Aggregate(history) \in Value
    BY <1>0, AggregateTyped DEF TypeOK
  <2>2. \A t \in Times : Aggregate(history)[t] \in Nat
    BY <2>1 DEF Value
  <2>3. QED
    BY <1>0, <1>2, <1>4, <2>2 DEF Window, Held
<1>9. Window'
  BY <1>0, <1>2, <1>6, <1>7, <1>8 DEF Window, LastReset
<1>10. QED
  BY <1>3, <1>9 DEF CounterInv

(* A peg after a reset.                                                    *)
LEMMA ResetPeg ==
  ASSUME CounterInv, PegValue, MissedBeats(now) > 0
  PROVE  CounterInv'
<1> DEFINE value == [Zero EXCEPT ![now] = 1]
           m == MissedBeats(now)
           L == Len(history)
           R == LastReset
           i == Gone(m)
           all == Closed(m)
<1>0. TypeOK /\ Window
  BY DEF CounterInv
<1>1. value \in Value /\ \A t \in Times : value[t] = IF t = now THEN 1 ELSE 0
  BY <1>0, PeggedValue
<1>2. /\ history' = Shifted(m) /\ aggregate' = Aggregate(history') /\ start' = now - Duration
      /\ current' = value /\ pegged' = Merge(pegged, value) /\ now' = now
  <2>1. ~(m <= 0)
    BY <1>0, Lateness
  <2>2. QED
    BY <2>1 DEF PegValue
<1>3. /\ m \in Nat \ {0} /\ m <= Divisions + 1
      /\ now >= R + m * Division
      /\ m <= Divisions => now < R + (m + 1) * Division
  BY <1>0, Lateness
<1>4. /\ Divisions \in Nat \ {0} /\ Division \in Nat \ {0} /\ Duration \in Nat
      /\ Duration = Divisions * Division
      /\ now \in Nat /\ start \in Int /\ L \in Nat /\ R \in Int /\ R = start + Duration
      /\ Times \subseteq Nat
  BY <1>0, CounterAssumption DEF TypeOK, LastReset, Duration, Times
<1>5. Duration > 0
  <2>1. 1 * Division <= Divisions * Division
    BY <1>4, Monotone
  <2>2. QED
    BY <1>4, <2>1
<1>6. LastReset' = now
  BY <1>2, <1>4 DEF LastReset
<1>7. /\ i \in 0..(L + m) /\ history' \in Seq(Value) /\ Len(history') = L + m - i
      /\ Len(history') <= Divisions
      /\ \A k \in 1..Len(history') : history'[k] = all[k + i]
  BY <1>0, <1>2, <1>3, ShiftedShape
<1>8. /\ all \in Seq(Value) /\ Len(all) = L + m
      /\ \A k \in 1..L : all[k] = history[k]
      /\ all[L + 1] = current
      /\ \A k \in (L + 2)..(L + m) : all[k] = Zero
  BY <1>0, <1>3, ClosedShape
<1>9. /\ L + m - i <= Divisions
      /\ i = 0 \/ L + m - i = Divisions
  BY <1>3, <1>4 DEF Gone
<1> HIDE DEF value, m, i, all, R
<1>10. TypeOK'
  <2>1. start' \in Int /\ now' \in Times
    BY <1>0, <1>2, <1>4 DEF TypeOK
  <2>2. aggregate' \in Value /\ current' \in Value /\ pegged' \in Value
    BY <1>0, <1>1, <1>2, <1>7, AggregateTyped, Values DEF TypeOK
  <2>3. QED
    BY <1>7, <2>1, <2>2 DEF TypeOK
<1>11. start' > start /\ start' >= 0 /\ start' <= now'
  <2>1. 1 * Division <= m * Division
    BY <1>3, <1>4, Monotone
  <2>2. start >= 0
    BY <1>0 DEF Window
  <2>3. QED
    BY <1>2, <1>3, <1>4, <2>1, <2>2
<1>12. Present'
  <2>1. \A t \in Times : current'[t] > 0 => t = now
    BY <1>1, <1>2
  <2>2. QED
    BY <1>4, <1>6, <2>1 DEF Present
(* What is in a division before the oldest ones go.                        *)
<1>13. ASSUME NEW j \in 1..(L + m), NEW t \in Times, all[j][t] > 0
       PROVE  t < now - (L + m - j) * Division
  <2>1. m * Division \in Int
    BY <1>3, <1>4
  <2>2. CASE j \in 1..L
    <3>1. t < R - (L - j) * Division
      BY <1>0, <1>8, <1>13, <2>2 DEF Window, Past, R
    <3>2. /\ (L + m - j) * Division = (L - j) * Division + m * Division
          /\ (L - j) * Division \in Int
      BY <1>3, <1>4
    <3>3. QED
      BY <1>3, <1>4, <2>1, <3>1, <3>2
  <2>3. CASE j = L + 1
    <3>1. t < R + Division
      BY <1>0, <1>8, <1>13, <2>3 DEF Window, Present, R
    <3>2. (L + m - j) * Division = m * Division - Division
      BY <1>3, <1>4, <2>3
    <3>3. QED
      BY <1>3, <1>4, <2>1, <3>1, <3>2
  <2>4. CASE j \in (L + 2)..(L + m)
    BY <1>8, <1>13, <2>4, Values
  <2>5. QED
    BY <1>4, <2>2, <2>3, <2>4
<1>14. Past'
  <2> SUFFICES ASSUME NEW k \in 1..Len(history'), NEW t \in Times, history'[k][t] > 0
               PROVE  t < now - (Len(history') - k) * Division
    BY <1>6 DEF Past
  <2> DEFINE j == k + i
  <2>1. j \in 1..(L + m) /\ Len(history') - k = L + m - j /\ k \in Int
    <3> DEFINE N == Len(history')
    <3>1. k \in 1..N /\ N = L + m - i /\ L \in Nat /\ m \in Nat /\ i \in Nat
      BY <1>3, <1>4, <1>7
    <3> HIDE DEF N, L
    <3>2. k + i \in 1..(L + m) /\ N - k = L + m - (k + i) /\ k \in Int
      BY <3>1
    <3>3. QED
      BY <3>2 DEF N
  <2>2. all[j][t] > 0
    BY <1>7
  <2> HIDE DEF j
  <2>3. QED
    BY <1>13, <2>1, <2>2
<1>15. Held'
  <2> SUFFICES ASSUME NEW t \in Times
               PROVE  /\ aggregate'[t] + current'[t] <= pegged'[t]
                      /\ t >= start' => aggregate'[t] + current'[t] = pegged'[t]
    BY <1>2 DEF Held
  <2>1. PICK lost \in Nat :
          /\ aggregate'[t] + lost = Aggregate(history)[t] + current[t]
          /\ (\A k \in 1..i : all[k][t] = 0) => lost = 0
    BY <1>0, <1>2, <1>3, ResetTotal DEF i, all
  <2>2. /\ aggregate'[t] \in Nat /\ Aggregate(history)[t] \in Nat /\ current[t] \in Nat
        /\ pegged[t] \in Nat /\ value[t] \in Nat
    <3>1. /\ aggregate' \in Value /\ Aggregate(history) \in Value /\ current \in Value
          /\ pegged \in Value
      BY <1>0, <1>2, <1>7, AggregateTyped DEF TypeOK
    <3>2. QED
      BY <1>1, <3>1 DEF Value
  <2>3. current'[t] = value[t] /\ pegged'[t] = pegged[t] + value[t]
    BY <1>0, <1>1, <1>2, Values DEF TypeOK
  <2>4. /\ Aggregate(history)[t] + current[t] <= pegged[t]
        /\ t >= start => Aggregate(history)[t] + current[t] = pegged[t]
    BY <1>0 DEF Window, Held
  <2>5. t >= start' => lost = 0
    <3> SUFFICES ASSUME t >= start', NEW k \in 1..i
                 PROVE  all[k][t] = 0
      BY <2>1
    <3>1. k \in 1..(L + m) /\ L + m - k \in Nat /\ Divisions <= L + m - k
      BY <1>3, <1>4, <1>7, <1>9
    <3>2. Duration <= (L + m - k) * Division /\ (L + m - k) * Division \in Int
      BY <1>4, <3>1, Monotone
    <3>3. all[k][t] > 0 => t < now - (L + m - k) * Division
      BY <1>13, <3>1
    <3>4. all[k][t] \in Nat
      <4>1. all[k] \in Value
        BY <1>8, <3>1
      <4>2. QED
        BY <4>1 DEF Value
    <3>5. t \in Nat
      BY <1>4
    <3>6. QED
      BY <1>2, <1>4, <3>2, <3>3, <3>4, <3>5
  <2>6. t \in Nat /\ start' \in Int
    BY <1>2, <1>4
  <2>7. QED
    BY <1>4, <1>11, <2>1, <2>2, <2>3, <2>4, <2>5, <2>6
<1>16. aggregate' # <<>>
  BY <1>2, <1>7, AggregateTyped, ValueNotEmpty
<1>17. Window'
  BY <1>2, <1>4, <1>6, <1>11, <1>12, <1>14, <1>15, <1>16 DEF Window
<1>18. QED
  BY <1>10, <1>17 DEF CounterInv

LEMMA PegCounter == ASSUME CounterInv, Peg PROVE CounterInv'
<1>1. PegValue
  BY DEF Peg
<1>2. MissedBeats(now) \in Int
  BY Lateness DEF CounterInv
<1>3. CASE MissedBeats(now) <= 0
  BY <1>1, <1>3, PresentPeg
<1>4. CASE MissedBeats(now) > 0
  BY <1>1, <1>4, ResetPeg
<1>5. QED
  BY <1>2, <1>3, <1>4

(* In every reachable state no division holds a peg from after it was      *)
(* closed, and all divisions together hold what was pegged, less what is   *)
(* older than the window is long.                                          *)
THEOREM CounterInvariant == Spec => []CounterInv
<1>1. Init => CounterInv
  BY InitCounter
<1>2. CounterInv /\ [Next]_vars => CounterInv'
  <2>1. CounterInv /\ UNCHANGED vars => CounterInv'
    BY DEF vars, CounterInv, TypeOK, Window, Present, Past, Held, LastReset, Times
  <2>2. QED
    BY <2>1, PegCounter, TickCounter DEF Next
<1>3. QED
  BY <1>1, <1>2, PTL DEF Spec

(***************************************************************************)
(* The properties                                                          *)
(***************************************************************************)

LEMMA HistoryTyped ==
  ASSUME CounterInv
  PROVE  /\ \A t \in Times : /\ Aggregate(history)[t] \in Nat /\ current[t] \in Nat
                             /\ pegged[t] \in Nat
         /\ aggregate = <<>> => \A t \in Times : Aggregate(history)[t] = 0
<1>1. /\ Aggregate(history) \in Value /\ current \in Value /\ pegged \in Value
      /\ history = <<>> => Aggregate(history) = Zero
  BY AggregateTyped DEF CounterInv, TypeOK
<1>2. aggregate = <<>> => history = <<>>
  BY DEF CounterInv, Window
<1>3. QED
  BY <1>1, <1>2, Values DEF Value

(* The variables keep their types, and there are never more divisions than *)
(* there should be.                                                        *)
THEOREM CounterTypes == Spec => []TypeOK
BY CounterInvariant, PTL DEF CounterInv

(* Nothing that was pegged is counted twice, neither in two divisions nor  *)
(* through an aggregate of an earlier reset.                               *)
THEOREM NothingTwice == Spec => []CountedOnce
<1>1. CounterInv => CountedOnce
  <2> SUFFICES ASSUME CounterInv, NEW t \in Times
               PROVE  CurrentValue[t] <= pegged[t]
    BY DEF CountedOnce
  <2>1. Aggregate(history)[t] + current[t] <= pegged[t]
    BY DEF CounterInv, Window, Held
  <2>2. /\ Aggregate(history)[t] \in Nat /\ current[t] \in Nat /\ pegged[t] \in Nat
    BY HistoryTyped
  <2>3. CurrentValue = current \/ CurrentValue = Aggregate(history)
    BY DEF CounterInv, Window, CurrentValue
  <2>4. QED
    BY <2>1, <2>2, <2>3
<1>2. QED
  BY <1>1, CounterInvariant, PTL

(* The value that is read has everything that was pegged in the duration   *)
(* before the last reset, although resets drift and quiet times push       *)
(* divisions out.  Of what was pegged since then it has nothing.           *)
THEOREM NothingLost == Spec => []WindowIsComplete
<1>1. CounterInv => WindowIsComplete
  <2> SUFFICES ASSUME CounterInv, aggregate # <<>>, NEW t \in Times,
                      t >= LastReset - Duration, t < LastReset
               PROVE  CurrentValue[t] = pegged[t]
    BY DEF WindowIsComplete
  <2>1. start \in Int /\ Duration \in Int /\ t \in Int
    BY CounterAssumption DEF CounterInv, TypeOK, Duration, Times
  <2>2. t >= start
    BY <2>1 DEF LastReset
  <2>3. Aggregate(history)[t] + current[t] = pegged[t]
    BY <2>2 DEF CounterInv, Window, Held
  <2>4. ~(current[t] > 0)
    BY <2>1 DEF CounterInv, Window, Present, LastReset
  <2>5. Aggregate(history)[t] \in Nat /\ current[t] \in Nat /\ pegged[t] \in Nat
    BY HistoryTyped
  <2>6. CurrentValue = Aggregate(history)
    BY DEF CounterInv, Window, CurrentValue
  <2>7. QED
    BY <2>3, <2>4, <2>5, <2>6
<1>2. QED
  BY <1>1, CounterInvariant, PTL

=============================================================================
