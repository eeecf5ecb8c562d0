-------------------------- MODULE Staffing_proofs --------------------------
(* For every set of categories, durations, grids, due dates, cancellations *)
(* and rates, in a calendar that holds them: each day of each phase is     *)
(* spread into one month and no day is lost, and an overridden rate        *)
(* reaches the later years alone (api/app/routers/staffing.py,             *)
(* api/app/staffing_escalation.py).                                        *)
EXTENDS Staffing, FiniteSetTheorems, WellFoundedInduction, TLAPS
-----------------------------------------------------------------------------
(* A set of numbers has a least one.                                       *)
LEMMA LeastNumber ==
    ASSUME NEW S \in SUBSET Nat, S # {}
    PROVE  \E x \in S : \A y \in S : x <= y
<1>1. PICK x \in S : \A y \in S : ~(<<y, x>> \in OpToRel(<, Nat))
  BY NatLessThanWellFounded, WFMin, Zenon
<1>2. \A y \in S : x <= y
  <2> SUFFICES ASSUME NEW y \in S, ~(x <= y) PROVE FALSE
    OBVIOUS
  <2>1. y \in Nat /\ x \in Nat /\ y < x
    OBVIOUS
  <2>2. <<y, x>> \in OpToRel(<, Nat)
    BY <2>1, Zenon DEF OpToRel
  <2> QED BY <1>1, <2>2
<1> QED BY <1>2

(* A sum is whatever adds up: g is right as the sum over every subset if   *)
(* it is right for the empty one and grows by each number that is added.   *)
LEMMA SumIs ==
    ASSUME NEW S, IsFiniteSet(S), NEW f \in [S -> Int], NEW g \in [SUBSET S -> Int],
           g[{}] = 0,
           \A T \in SUBSET S : \A x \in T : g[T] = f[x] + g[T \ {x}]
    PROVE  SumFunction(f) = g[S]
<1> DEFINE Step(h, T) == IF T = {} THEN 0
                         ELSE LET x == CHOOSE x \in T : TRUE IN f[x] + h[T \ {x}]
           iter == CHOOSE h : h = [T \in SUBSET S |-> Step(h, T)]
<1>1. SumFunction(f) = iter[S]
  BY DEF SumFunction, SumFunctionOnSet, FoldFunctionOnSet, MapThenFoldSet
<1>2. g = [T \in SUBSET S |-> Step(g, T)]
  <2>1. ASSUME NEW T \in SUBSET S PROVE g[T] = Step(g, T)
    <3>1. CASE T = {}
      BY <3>1
    <3>2. CASE T # {}
      <4>1. (CHOOSE x \in T : TRUE) \in T
        BY <3>2
      <4> QED BY <3>2, <4>1
    <3> QED BY <3>1, <3>2
  <2> QED BY <2>1
<1> HIDE DEF Step
<1>3. iter = [T \in SUBSET S |-> Step(iter, T)]
  BY <1>2
<1> USE DEF Step
<1> HIDE DEF iter
<1> DEFINE Wrong == {Cardinality(T) : T \in {U \in SUBSET S : iter[U] # g[U]}}
<1>4. Wrong = {}
  <2> SUFFICES ASSUME Wrong # {} PROVE FALSE
    OBVIOUS
  <2>1. Wrong \subseteq Nat
    BY FS_Subset, FS_CardinalityType
  <2>2. PICK n \in Wrong : \A m \in Wrong : n <= m
    BY <2>1, LeastNumber
  <2>3. PICK T \in SUBSET S : n = Cardinality(T) /\ iter[T] # g[T]
    OBVIOUS
  <2>4. T # {}
    BY <1>3, <2>3
  <2> DEFINE x == CHOOSE x \in T : TRUE
  <2>5. x \in T
    BY <2>4
  <2>6. iter[T] = f[x] + iter[T \ {x}] /\ g[T] = f[x] + g[T \ {x}]
    BY <1>3, <2>4, <2>5
  <2> HIDE DEF x
  <2>7. iter[T \ {x}] # g[T \ {x}] /\ T \ {x} \in SUBSET S
    BY <2>3, <2>6
  <2>8. Cardinality(T \ {x}) = n - 1 /\ n \in Nat
    BY <2>1, <2>3, <2>5, FS_Subset, FS_RemoveElement
  <2> QED
    BY <2>2, <2>7, <2>8
<1> QED
  BY <1>1, <1>4
-----------------------------------------------------------------------------
(* The first days of the months of a year.                                 *)
Leap(y) == IF y % 4 = 0 THEN 1 ELSE 0
NewYear(y) == 365 * (y - FirstYear) + ((y - 1) \div 4 - (FirstYear - 1) \div 4)
Year(y) ==
    /\ FirstDay(<<y, 1>>) = NewYear(y)
    /\ FirstDay(<<y, 2>>) = NewYear(y) + 31
    /\ FirstDay(<<y, 3>>) = NewYear(y) + 59 + Leap(y)
    /\ FirstDay(<<y, 4>>) = NewYear(y) + 90 + Leap(y)
    /\ FirstDay(<<y, 5>>) = NewYear(y) + 120 + Leap(y)
    /\ FirstDay(<<y, 6>>) = NewYear(y) + 151 + Leap(y)
    /\ FirstDay(<<y, 7>>) = NewYear(y) + 181 + Leap(y)
    /\ FirstDay(<<y, 8>>) = NewYear(y) + 212 + Leap(y)
    /\ FirstDay(<<y, 9>>) = NewYear(y) + 243 + Leap(y)
    /\ FirstDay(<<y, 10>>) = NewYear(y) + 273 + Leap(y)
    /\ FirstDay(<<y, 11>>) = NewYear(y) + 304 + Leap(y)
    /\ FirstDay(<<y, 12>>) = NewYear(y) + 334 + Leap(y)

(* The first days, year by year.                                           *)
LEMMA FirstDays == \A y \in Int : Year(y) /\ NewYear(y) \in Int /\ Leap(y) \in {0, 1}
<1> SUFFICES ASSUME NEW y \in Int PROVE Year(y) /\ NewYear(y) \in Int /\ Leap(y) \in {0, 1}
  OBVIOUS
<1>1. FirstYear \in Int /\ (y - 1) \div 4 \in Int /\ (FirstYear - 1) \div 4 \in Int /\ y % 4 \in 0..3
  BY CalendarAssumption
<1>2. NewYear(y) \in Int /\ Leap(y) \in {0, 1}
  BY <1>1 DEF NewYear, Leap
<1>3. ASSUME NEW m \in 1..12
      PROVE  FirstDay(<<y, m>>) = NewYear(y)
                + <<0, 31, 59, 90, 120, 151, 181, 212, 243, 273, 304, 334>>[m]
                + (IF m > 2 /\ y % 4 = 0 THEN 1 ELSE 0)
  BY DEF FirstDay, NewYear
<1>4. Year(y)
  <2> USE <1>1, <1>2, <1>3 DEF Leap
  <2>1. FirstDay(<<y, 1>>) = NewYear(y) /\ FirstDay(<<y, 2>>) = NewYear(y) + 31
    OBVIOUS
  <2> QED BY <2>1 DEF Year
<1> QED BY <1>2, <1>4

(* The twelve months of a year fill it, February by the leap day.          *)
LEMMA DaysOfMonths ==
    ASSUME NEW y \in Int
    PROVE  /\ NewYear(y + 1) = NewYear(y) + 365 + Leap(y)
           /\ \A m \in 1..11 : FirstDay(<<y, m + 1>>) = FirstDay(<<y, m>>) + DaysIn(<<y, m>>)
           /\ NewYear(y + 1) = FirstDay(<<y, 12>>) + DaysIn(<<y, 12>>)
<1>1. NewYear(y + 1) = NewYear(y) + 365 + Leap(y)
  BY CalendarAssumption DEF NewYear, Leap
<1>2. ASSUME NEW m \in 1..12
      PROVE  DaysIn(<<y, m>>) = IF m = 2 THEN 28 + Leap(y) ELSE IF m \in {4, 6, 9, 11} THEN 30 ELSE 31
  BY DEF DaysIn, Leap
<1>3. Year(y) /\ NewYear(y) \in Int /\ Leap(y) \in {0, 1}
  BY FirstDays
<1>4. NewYear(y + 1) = FirstDay(<<y, 12>>) + DaysIn(<<y, 12>>)
  BY <1>1, <1>2, <1>3 DEF Year
<1>5. ASSUME NEW m \in 1..11 PROVE FirstDay(<<y, m + 1>>) = FirstDay(<<y, m>>) + DaysIn(<<y, m>>)
  <2>1. m \in {1, 2, 3, 4, 5, 6, 7, 8, 9, 10, 11}
    OBVIOUS
  <2>2. CASE m \in {1, 2, 3, 4, 5, 6}
    BY <1>2, <1>3, <2>2 DEF Year
  <2>3. CASE m \in {7, 8, 9, 10, 11}
    BY <1>2, <1>3, <2>3 DEF Year
  <2> QED BY <2>1, <2>2, <2>3
<1> QED BY <1>1, <1>4, <1>5

(* The months of a year, in a row.                                         *)
LEMMA MonthsAscend ==
    ASSUME NEW y \in Int, NEW m \in 1..12
    PROVE  /\ FirstDay(<<y, m>>) \in Int
           /\ \A n \in m..12 : FirstDay(<<y, m>>) <= FirstDay(<<y, n>>)
           /\ NewYear(y) <= FirstDay(<<y, m>>)
           /\ FirstDay(<<y, m>>) <= NewYear(y) + 334 + Leap(y)
<1>1. Year(y) /\ NewYear(y) \in Int /\ Leap(y) \in {0, 1}
  BY FirstDays
<1> DEFINE F == [k \in 1..12 |-> FirstDay(<<y, k>>)]
<1>2. \A k \in 1..12 : F[k] = FirstDay(<<y, k>>)
  OBVIOUS
<1>3. /\ F[1] = NewYear(y) /\ F[2] = NewYear(y) + 31
      /\ F[3] = NewYear(y) + 59 + Leap(y) /\ F[4] = NewYear(y) + 90 + Leap(y)
      /\ F[5] = NewYear(y) + 120 + Leap(y) /\ F[6] = NewYear(y) + 151 + Leap(y)
      /\ F[7] = NewYear(y) + 181 + Leap(y) /\ F[8] = NewYear(y) + 212 + Leap(y)
      /\ F[9] = NewYear(y) + 243 + Leap(y) /\ F[10] = NewYear(y) + 273 + Leap(y)
      /\ F[11] = NewYear(y) + 304 + Leap(y) /\ F[12] = NewYear(y) + 334 + Leap(y)
  BY <1>1 DEF Year
<1> HIDE DEF F
<1>4. F[m] \in Int /\ NewYear(y) <= F[m] /\ F[m] <= NewYear(y) + 334 + Leap(y)
      /\ \A n \in m..12 : F[m] <= F[n]
  <2>1. m \in {1, 2, 3, 4, 5, 6} \/ m \in {7, 8, 9, 10, 11, 12}
    OBVIOUS
  <2>2. CASE m \in {1, 2, 3, 4, 5, 6}
    BY <1>1, <1>3, <2>2
  <2>3. CASE m \in {7, 8, 9, 10, 11, 12}
    BY <1>1, <1>3, <2>3
  <2> QED BY <2>1, <2>2, <2>3
<1>5. \A n \in m..12 : F[n] = FirstDay(<<y, n>>)
  BY <1>2
<1> QED BY <1>2, <1>4, <1>5

(* Each month begins where the one before it ends.                         *)
LEMMA MonthsFollow ==
    ASSUME NEW y \in Int, NEW m \in 1..12
    PROVE  /\ FirstDay(<<y, m>>) \in Int /\ DaysIn(<<y, m>>) \in 28..31
           /\ FirstDay(NextMonth(<<y, m>>)) = FirstDay(<<y, m>>) + DaysIn(<<y, m>>)
           /\ NewYear(y) <= FirstDay(<<y, m>>)
           /\ FirstDay(<<y, m>>) + DaysIn(<<y, m>>) <= NewYear(y + 1)
<1>1. NewYear(y) \in Int /\ Leap(y) \in {0, 1} /\ y % 4 \in 0..3
  BY FirstDays
<1>2. Year(y + 1) /\ NewYear(y + 1) \in Int
  BY FirstDays
<1>3. DaysIn(<<y, m>>) \in 28..31
  <2>1. m \in {1, 2, 3, 4, 5, 6} \/ m \in {7, 8, 9, 10, 11, 12}
    OBVIOUS
  <2> QED BY <1>1, <2>1 DEF DaysIn
<1>4. CASE m \in 1..11
  <2>1. NextMonth(<<y, m>>) = <<y, m + 1>> /\ m + 1 \in 1..12
    BY <1>4 DEF NextMonth
  <2>2. FirstDay(<<y, m + 1>>) = FirstDay(<<y, m>>) + DaysIn(<<y, m>>)
    BY <1>4, DaysOfMonths
  <2>3. FirstDay(<<y, m + 1>>) <= NewYear(y) + 334 + Leap(y)
    BY <2>1, MonthsAscend
  <2>4. NewYear(y + 1) = NewYear(y) + 365 + Leap(y)
    BY DaysOfMonths
  <2>5. FirstDay(<<y, m>>) \in Int /\ NewYear(y) <= FirstDay(<<y, m>>)
    BY MonthsAscend
  <2> QED BY <1>1, <1>3, <2>1, <2>2, <2>3, <2>4, <2>5
<1>5. CASE m = 12
  <2>1. NextMonth(<<y, m>>) = <<y + 1, 1>>
    BY <1>5 DEF NextMonth
  <2>2. FirstDay(<<y + 1, 1>>) = NewYear(y + 1)
    BY <1>2 DEF Year
  <2>3. FirstDay(<<y, m>>) \in Int /\ NewYear(y) <= FirstDay(<<y, m>>)
    BY MonthsAscend
  <2>4. NewYear(y + 1) = FirstDay(<<y, m>>) + DaysIn(<<y, m>>)
    BY <1>5, DaysOfMonths
  <2> QED BY <1>2, <1>3, <2>1, <2>2, <2>3, <2>4
<1> QED BY <1>4, <1>5

(* A year ends before a later one begins.                                  *)
LEMMA YearsAscend ==
    ASSUME NEW y \in Int, NEW z \in Int, y < z
    PROVE  NewYear(y + 1) <= NewYear(z)
<1>1. NewYear(y + 1) = NewYear(y) + 365 + Leap(y)
  BY DaysOfMonths
<1>2. /\ (y - 1) \div 4 + Leap(y) <= (z - 1) \div 4
      /\ (y - 1) \div 4 \in Int /\ (z - 1) \div 4 \in Int
  BY DEF Leap
<1>3. FirstYear \in Int /\ (FirstYear - 1) \div 4 \in Int
  BY CalendarAssumption
<1>4. Leap(y) \in {0, 1} /\ 365 * (y - FirstYear) + 365 <= 365 * (z - FirstYear)
  BY <1>3 DEF Leap
<1> QED BY <1>1, <1>2, <1>3, <1>4 DEF NewYear

(* No two months overlap.                                                  *)
LEMMA MonthsAreApart ==
    ASSUME NEW a \in Calendar, NEW b \in Calendar
    PROVE  \/ a = b
           \/ FirstDay(a) + DaysIn(a) <= FirstDay(b)
           \/ FirstDay(b) + DaysIn(b) <= FirstDay(a)
<1>0. FirstYear \in Int /\ LastYear \in Int
  BY CalendarAssumption
<1>1. ASSUME NEW y \in Int, NEW m \in 1..12, NEW z \in Int, NEW n \in 1..12, y < z
      PROVE  FirstDay(<<y, m>>) + DaysIn(<<y, m>>) <= FirstDay(<<z, n>>)
  <2>1. FirstDay(<<y, m>>) \in Int /\ DaysIn(<<y, m>>) \in Int
        /\ FirstDay(<<y, m>>) + DaysIn(<<y, m>>) <= NewYear(y + 1)
    <3>1. /\ FirstDay(<<y, m>>) \in Int /\ DaysIn(<<y, m>>) \in 28..31
          /\ FirstDay(<<y, m>>) + DaysIn(<<y, m>>) <= NewYear(y + 1)
      BY MonthsFollow, Zenon
    <3> QED BY <3>1
  <2>2. NewYear(y + 1) <= NewYear(z) /\ NewYear(y + 1) \in Int /\ NewYear(z) \in Int
    BY <1>1, YearsAscend, FirstDays
  <2>3. FirstDay(<<z, n>>) \in Int /\ NewYear(z) <= FirstDay(<<z, n>>)
    BY MonthsAscend
  <2> QED BY <2>1, <2>2, <2>3
<1>2. ASSUME NEW y \in Int, NEW m \in 1..12, NEW n \in 1..12, m < n
      PROVE  FirstDay(<<y, m>>) + DaysIn(<<y, m>>) <= FirstDay(<<y, n>>)
  <2>1. m \in 1..11 /\ m + 1 \in 1..12 /\ n \in (m + 1)..12
    BY <1>2
  <2>2. FirstDay(<<y, m + 1>>) = FirstDay(<<y, m>>) + DaysIn(<<y, m>>)
    BY <2>1, DaysOfMonths
  <2>3. FirstDay(<<y, m + 1>>) <= FirstDay(<<y, n>>)
    BY <2>1, MonthsAscend
  <2> QED BY <2>2, <2>3
<1>3. PICK y \in Int, m \in 1..12 : a = <<y, m>>
  BY <1>0 DEF Calendar
<1>4. PICK z \in Int, n \in 1..12 : b = <<z, n>>
  BY <1>0 DEF Calendar
<1>5. CASE y < z
  BY <1>1, <1>3, <1>4, <1>5
<1>6. CASE z < y
  BY <1>1, <1>3, <1>4, <1>6
<1>7. CASE y = z
  <2>1. CASE m < n
    BY <1>2, <1>3, <1>4, <1>7, <2>1
  <2>2. CASE n < m
    BY <1>2, <1>3, <1>4, <1>7, <2>2
  <2>3. CASE m = n
    BY <1>3, <1>4, <1>7, <2>3
  <2> QED BY <2>1, <2>2, <2>3
<1> QED BY <1>5, <1>6, <1>7

(* Every day of a year is in one of its months.                            *)
LEMMA MonthWithDay ==
    ASSUME NEW y \in Int, NEW d \in Int, NewYear(y) <= d, d < NewYear(y + 1)
    PROVE  \E m \in 1..12 : d - FirstDay(<<y, m>>) \in 0..DaysIn(<<y, m>>) - 1
<1> SUFFICES ASSUME \A m \in 1..12 : d - FirstDay(<<y, m>>) \notin 0..DaysIn(<<y, m>>) - 1
             PROVE  FALSE
  OBVIOUS
<1> DEFINE F == [m \in 1..12 |-> FirstDay(<<y, m>>)]
           G == [m \in 1..12 |-> DaysIn(<<y, m>>)]
<1>1. ASSUME NEW m \in 1..12 PROVE F[m] \in Int /\ G[m] \in 28..31
  BY MonthsFollow, Zenon
<1>2. ASSUME NEW m \in 1..11 PROVE F[m + 1] = F[m] + G[m]
  <2>1. m \in 1..12 /\ m + 1 \in 1..12
    OBVIOUS
  <2>2. FirstDay(<<y, m + 1>>) = FirstDay(<<y, m>>) + DaysIn(<<y, m>>)
    BY DaysOfMonths, Zenon
  <2> QED BY <2>1, <2>2, Zenon
<1>3. F[1] = NewYear(y) /\ NewYear(y + 1) = F[12] + G[12]
  <2>1. FirstDay(<<y, 1>>) = NewYear(y)
    <3>1. Year(y)
      BY FirstDays
    <3> QED BY <3>1 DEF Year
  <2>2. NewYear(y + 1) = FirstDay(<<y, 12>>) + DaysIn(<<y, 12>>)
    BY DaysOfMonths
  <2> QED BY <2>1, <2>2
<1>4. \A m \in 1..12 : d - F[m] \notin 0..G[m] - 1
  OBVIOUS
<1> HIDE DEF F, G
<1>5. \A m \in 1..12 : F[m] <= d => F[m] + G[m] <= d
  BY <1>1, <1>4
<1>6. \A m \in 1..11 : F[m] <= d => F[m + 1] <= d
  BY <1>1, <1>2, <1>5
<1>7. F[2] <= d /\ F[3] <= d /\ F[4] <= d /\ F[5] <= d
  BY <1>3, <1>6
<1>8. F[6] <= d /\ F[7] <= d /\ F[8] <= d /\ F[9] <= d
  BY <1>6, <1>7
<1>9. F[10] <= d /\ F[11] <= d /\ F[12] <= d
  BY <1>6, <1>8
<1>10. F[12] + G[12] <= d
  BY <1>5, <1>9
<1> QED BY <1>1, <1>3, <1>10

(* Every day of the calendar is in the month MonthOf chooses.              *)
LEMMA MonthOfDay ==
    ASSUME NEW d \in Nat, d <= FirstDay(<<LastYear, 12>>)
    PROVE  /\ MonthOf(d) \in Calendar
           /\ FirstDay(MonthOf(d)) <= d
           /\ d < FirstDay(MonthOf(d)) + DaysIn(MonthOf(d))
<1> DEFINE y == FirstYear + d \div 365
           z == IF NewYear(y) <= d THEN y ELSE y - 1
<1>1. FirstYear \in 1901..2099 /\ LastYear \in FirstYear..2099 /\ y \in Int /\ z \in Int
  BY CalendarAssumption
<1>2. /\ FirstDay(<<LastYear, 12>>) = NewYear(LastYear) + 334 + Leap(LastYear)
      /\ NewYear(LastYear) \in Int /\ Leap(LastYear) \in {0, 1}
  <2>1. LastYear \in Int
    BY <1>1
  <2> QED BY <2>1, FirstDays DEF Year
<1>3. NewYear(FirstYear) = 0 /\ NewYear(y) \in Int /\ NewYear(y + 1) \in Int
      /\ NewYear(z) \in Int /\ NewYear(z + 1) \in Int
  BY <1>1, FirstDays DEF NewYear
<1>4. d \div 365 \in Nat /\ 365 * (d \div 365) <= d /\ d < 365 * (d \div 365) + 365
  OBVIOUS
<1>5. ASSUME NEW k \in FirstYear..2200
      PROVE  /\ 365 * (k - FirstYear) <= NewYear(k)
             /\ NewYear(k) <= 365 * (k - FirstYear) + 100
  <2>1. /\ (FirstYear - 1) \div 4 <= (k - 1) \div 4
        /\ (k - 1) \div 4 <= (FirstYear - 1) \div 4 + 100
        /\ (FirstYear - 1) \div 4 \in Int /\ (k - 1) \div 4 \in Int
    BY <1>1
  <2> QED BY <1>1, <2>1 DEF NewYear
<1>6. y \in FirstYear..LastYear + 1 /\ y + 1 \in FirstYear..2200
  <2>1. LastYear \in FirstYear..2200
    BY <1>1
  <2>2. d <= 365 * (LastYear - FirstYear) + 100 + 335
    BY <1>1, <1>2, <1>5, <2>1
  <2> QED BY <1>1, <1>4, <2>2
<1>7. d < NewYear(y + 1)
  BY <1>1, <1>3, <1>4, <1>5, <1>6
<1>8. z \in FirstYear..LastYear /\ NewYear(z) <= d /\ d < NewYear(z + 1)
  <2>1. CASE NewYear(y) <= d
    <3>1. y # LastYear + 1
      <4>1. NewYear(LastYear + 1) = NewYear(LastYear) + 365 + Leap(LastYear)
        <5>1. LastYear \in Int
          BY <1>1
        <5> QED BY <5>1, DaysOfMonths
      <4> QED BY <1>1, <1>2, <2>1, <4>1
    <3> QED BY <1>1, <1>6, <1>7, <2>1, <3>1
  <2>2. CASE ~(NewYear(y) <= d)
    <3>1. z = y - 1 /\ z + 1 = y
      BY <1>1, <2>2
    <3>2. d < NewYear(z + 1)
      BY <1>3, <2>2, <3>1
    <3>3. y # FirstYear
      BY <1>3, <2>2
    <3>4. z \in FirstYear..LastYear /\ z \in FirstYear..2200
      BY <1>1, <1>6, <3>1, <3>3
    <3>5. NewYear(z) <= 365 * (z - FirstYear) + 100
      BY <1>5, <3>4
    <3> QED BY <1>1, <1>3, <1>4, <3>1, <3>2, <3>4, <3>5
  <2> QED BY <2>1, <2>2
<1> DEFINE In(mo) == d - FirstDay(mo) \in 0..DaysIn(mo) - 1
<1>9. \E m \in 1..12 : In(<<z, m>>)
  <2> HIDE DEF z
  <2>1. z \in Int /\ d \in Int
    BY <1>1
  <2> QED BY <1>8, <2>1, MonthWithDay, Zenon
<1>10. MonthOf(d) \in {y - 1, y} \X (1..12) /\ In(MonthOf(d))
  BY <1>8, <1>9 DEF MonthOf
<1> HIDE DEF z
<1>11. PICK k \in {y - 1, y}, m \in 1..12 : MonthOf(d) = <<k, m>>
  BY <1>10
<1>12. /\ k \in Int /\ FirstDay(<<k, m>>) \in Int /\ DaysIn(<<k, m>>) \in 28..31
       /\ NewYear(k) <= FirstDay(<<k, m>>)
       /\ FirstDay(<<k, m>>) + DaysIn(<<k, m>>) <= NewYear(k + 1)
       /\ NewYear(k) \in Int /\ NewYear(k + 1) \in Int
  <2>1. k \in Int
    BY <1>1
  <2>2. k + 1 \in Int
    BY <2>1
  <2>3. NewYear(k) \in Int /\ NewYear(k + 1) \in Int
    BY <2>1, <2>2, FirstDays, Zenon
  <2> QED BY <2>1, <2>3, MonthsFollow, Zenon
<1>13. FirstDay(<<k, m>>) <= d /\ d < FirstDay(<<k, m>>) + DaysIn(<<k, m>>)
  BY <1>10, <1>11, <1>12
<1>14. k = z
  <2>1. CASE k < z
    BY <1>1, <1>3, <1>8, <1>12, <1>13, <2>1, YearsAscend
  <2>2. CASE z < k
    BY <1>1, <1>3, <1>8, <1>12, <1>13, <2>2, YearsAscend
  <2> QED BY <1>1, <1>12, <2>1, <2>2
<1> QED BY <1>8, <1>11, <1>13, <1>14 DEF Calendar
-----------------------------------------------------------------------------
(* Where a month ends, and the next one begins.                            *)
MonthEnd(mo) == FirstDay(mo) + DaysIn(mo)

(* A month is followed by the one that begins where it ends, within the    *)
(* calendar.                                                               *)
LEMMA MonthsOfCalendar ==
    ASSUME NEW mo \in Calendar
    PROVE  /\ FirstDay(mo) \in Int /\ DaysIn(mo) \in 28..31 /\ MonthEnd(mo) \in Int
           /\ FirstDay(mo) < MonthEnd(mo)
           /\ FirstDay(NextMonth(mo)) = MonthEnd(mo)
           /\ mo # <<LastYear, 12>> => NextMonth(mo) \in Calendar
           /\ FirstDay(mo) <= FirstDay(<<LastYear, 12>>)
<1>1. PICK y \in FirstYear..LastYear, m \in 1..12 : mo = <<y, m>>
  BY DEF Calendar
<1>2. y \in Int /\ FirstYear \in Int /\ LastYear \in Int
  BY CalendarAssumption
<1>3. /\ FirstDay(mo) \in Int /\ DaysIn(mo) \in 28..31
      /\ FirstDay(NextMonth(mo)) = FirstDay(mo) + DaysIn(mo)
  BY <1>1, <1>2, MonthsFollow, Zenon
<1>4. mo # <<LastYear, 12>> => NextMonth(mo) \in Calendar
  BY <1>1, <1>2 DEF NextMonth, Calendar
<1>5. FirstDay(<<y, m>>) <= FirstDay(<<LastYear, 12>>)
  <2>1. CASE y = LastYear
    <3>1. 12 \in m..12
      OBVIOUS
    <3> QED BY <1>2, <2>1, <3>1, MonthsAscend, Zenon
  <2>2. CASE y # LastYear
    <3>1. y < LastYear
      BY <1>2, <2>2
    <3>2. NewYear(y + 1) <= NewYear(LastYear) /\ NewYear(y + 1) \in Int /\ NewYear(LastYear) \in Int
      BY <1>2, <3>1, YearsAscend, FirstDays
    <3>3. NewYear(LastYear) <= FirstDay(<<LastYear, 12>>) /\ FirstDay(<<LastYear, 12>>) \in Int
      <4>1. 12 \in 1..12
        OBVIOUS
      <4> QED BY <1>2, <4>1, MonthsAscend, Zenon
    <3>4. FirstDay(<<y, m>>) + DaysIn(<<y, m>>) <= NewYear(y + 1)
      BY <1>2, MonthsFollow, Zenon
    <3> QED BY <1>1, <1>3, <3>2, <3>3, <3>4
  <2> QED BY <2>1, <2>2
<1> QED BY <1>1, <1>3, <1>4, <1>5 DEF MonthEnd

(* The walk comes through every month from the first one on that begins    *)
(* before the phase ends.                                                  *)
LEMMA WalkedMonths ==
    ASSUME NEW a \in Nat, NEW b \in Int,
           a <= FirstDay(<<LastYear, 12>>), b <= FirstDay(<<LastYear, 12>>)
    PROVE  Walked(<<a, b>>) =
              {mo \in Calendar : FirstDay(MonthOf(a)) <= FirstDay(mo) /\ FirstDay(mo) < b}
<1> DEFINE Body(f, mo) == IF FirstDay(mo) < b THEN {mo} \cup f[NextMonth(mo)] ELSE {}
           From(mo) == {k \in Calendar : FirstDay(mo) <= FirstDay(k) /\ FirstDay(k) < b}
           Walk == [mo \in Calendar |-> From(mo)]
           from == CHOOSE f : f = [mo \in Calendar |-> Body(f, mo)]
<1>1. MonthOf(a) \in Calendar
  BY MonthOfDay
<1>2. Walked(<<a, b>>) = from[MonthOf(a)]
  BY DEF Walked
<1>3. ASSUME NEW mo \in Calendar, FirstDay(mo) < b
      PROVE  NextMonth(mo) \in Calendar /\ From(mo) = {mo} \cup From(NextMonth(mo))
  <2>1. NextMonth(mo) \in Calendar /\ FirstDay(NextMonth(mo)) = MonthEnd(mo)
    BY <1>3, MonthsOfCalendar
  <2>2. ASSUME NEW k \in Calendar
        PROVE  FirstDay(mo) <= FirstDay(k) <=> k = mo \/ MonthEnd(mo) <= FirstDay(k)
    <3>1. /\ FirstDay(mo) \in Int /\ MonthEnd(mo) \in Int /\ FirstDay(mo) < MonthEnd(mo)
          /\ FirstDay(k) \in Int /\ MonthEnd(k) \in Int /\ FirstDay(k) < MonthEnd(k)
      BY MonthsOfCalendar
    <3>2. mo = k \/ MonthEnd(mo) <= FirstDay(k) \/ MonthEnd(k) <= FirstDay(mo)
      BY MonthsAreApart DEF MonthEnd
    <3> QED BY <3>1, <3>2
  <2> QED BY <1>3, <2>1, <2>2
<1>4. ASSUME NEW mo \in Calendar, ~(FirstDay(mo) < b) PROVE From(mo) = {}
  <2> SUFFICES ASSUME NEW k \in Calendar, FirstDay(mo) <= FirstDay(k), FirstDay(k) < b PROVE FALSE
    OBVIOUS
  <2>1. FirstDay(mo) \in Int /\ FirstDay(k) \in Int
    BY MonthsOfCalendar
  <2> QED BY <1>4, <2>1
<1> HIDE DEF From
<1>5. Walk = [mo \in Calendar |-> Body(Walk, mo)]
  <2>1. ASSUME NEW mo \in Calendar PROVE Walk[mo] = Body(Walk, mo)
    BY <1>3, <1>4
  <2> QED BY <2>1
<1> HIDE DEF Walk, Body
<1>6. from = [mo \in Calendar |-> Body(from, mo)]
  BY <1>5
<1> HIDE DEF from
<1> USE DEF Body, Walk
<1> DEFINE last == FirstDay(<<LastYear, 12>>)
           Wrong == {last - FirstDay(mo) : mo \in {k \in Calendar : from[k] # From(k)}}
<1>7. \A mo \in Calendar : from[mo] = From(mo)
  <2> SUFFICES ASSUME NEW ko \in Calendar, from[ko] # From(ko) PROVE FALSE
    OBVIOUS
  <2>1. <<LastYear, 12>> \in Calendar
    BY CalendarAssumption DEF Calendar
  <2>2. \A mo \in Calendar : FirstDay(mo) \in Int /\ last - FirstDay(mo) \in Nat
    BY <2>1, MonthsOfCalendar
  <2>3. Wrong \subseteq Nat /\ Wrong # {}
    BY <2>2
  <2>4. PICK n \in Wrong : \A m \in Wrong : n <= m
    BY <2>3, LeastNumber
  <2>5. PICK mo \in Calendar : n = last - FirstDay(mo) /\ from[mo] # From(mo)
    BY <2>4
  <2>6. from[mo] = Body(from, mo)
    BY <1>6
  <2>7. FirstDay(mo) < b /\ NextMonth(mo) \in Calendar /\ from[NextMonth(mo)] # From(NextMonth(mo))
    BY <1>3, <1>4, <2>5, <2>6
  <2>8. last - FirstDay(NextMonth(mo)) \in Wrong
    BY <2>7
  <2>9. FirstDay(mo) < FirstDay(NextMonth(mo))
    BY MonthsOfCalendar
  <2>10. FirstDay(mo) \in Int /\ FirstDay(NextMonth(mo)) \in Int /\ last \in Int
    BY <2>1, <2>2, <2>7
  <2>11. n <= last - FirstDay(NextMonth(mo))
    BY <2>4, <2>8, Zenon
  <2> HIDE DEF last
  <2> QED BY <2>5, <2>9, <2>10, <2>11
<1> QED BY <1>1, <1>2, <1>7 DEF From

(* min(end) - max(start), as the code has it.                              *)
LEMMA OverlapIs ==
    ASSUME NEW a \in Int, NEW b \in Int, NEW mo \in Calendar
    PROVE  Overlap(<<a, b>>, mo) = (IF b <= MonthEnd(mo) THEN b ELSE MonthEnd(mo))
                                    - (IF a >= FirstDay(mo) THEN a ELSE FirstDay(mo))
<1>1. /\ FirstDay(mo) \in Int /\ MonthEnd(mo) \in Int
      /\ MonthWindow(mo) = <<FirstDay(mo), MonthEnd(mo)>>
  BY MonthsOfCalendar DEF MonthWindow
<1>2. Min({b, MonthEnd(mo)}) = IF b <= MonthEnd(mo) THEN b ELSE MonthEnd(mo)
  BY <1>1 DEF Min
<1>3. Max({a, FirstDay(mo)}) = IF a >= FirstDay(mo) THEN a ELSE FirstDay(mo)
  BY <1>1 DEF Max
<1> QED BY <1>1, <1>2, <1>3 DEF Overlap

(* The months that share a day with a phase, which the walk finds: it      *)
(* counts the days they share.                                             *)
Shares(a, b) == {mo \in Calendar : FirstDay(mo) < b /\ a < MonthEnd(mo)}
Shared(a, b, mo) == {d \in a..b - 1 : FirstDay(mo) <= d /\ d < MonthEnd(mo)}

LEMMA MonthsOfSpan ==
    ASSUME NEW a \in Nat, NEW b \in Int, a < b, b <= FirstDay(<<LastYear, 12>>)
    PROVE  {mo \in Walked(<<a, b>>) : Overlap(<<a, b>>, mo) > 0} = Shares(a, b)
<1>1. FirstDay(<<LastYear, 12>>) \in Int
  <2>1. <<LastYear, 12>> \in Calendar
    BY CalendarAssumption DEF Calendar
  <2> QED BY <2>1, MonthsOfCalendar, Zenon
<1>2. a <= FirstDay(<<LastYear, 12>>)
  BY <1>1
<1>3. /\ MonthOf(a) \in Calendar
      /\ FirstDay(MonthOf(a)) <= a /\ a < MonthEnd(MonthOf(a))
  BY <1>2, MonthOfDay DEF MonthEnd
<1>4. Walked(<<a, b>>) =
         {mo \in Calendar : FirstDay(MonthOf(a)) <= FirstDay(mo) /\ FirstDay(mo) < b}
  BY <1>2, WalkedMonths
<1>5. ASSUME NEW mo \in Calendar, FirstDay(mo) < b, a < MonthEnd(mo)
      PROVE  FirstDay(MonthOf(a)) <= FirstDay(mo)
  <2>1. /\ FirstDay(mo) \in Int /\ MonthEnd(mo) \in Int /\ FirstDay(mo) < MonthEnd(mo)
        /\ FirstDay(MonthOf(a)) \in Int /\ MonthEnd(MonthOf(a)) \in Int
    BY <1>3, MonthsOfCalendar
  <2>2. mo = MonthOf(a) \/ MonthEnd(mo) <= FirstDay(MonthOf(a)) \/ MonthEnd(MonthOf(a)) <= FirstDay(mo)
    BY <1>3, MonthsAreApart DEF MonthEnd
  <2> QED BY <1>3, <1>5, <2>1, <2>2
<1>6. ASSUME NEW mo \in Calendar
      PROVE  Overlap(<<a, b>>, mo) > 0 <=> FirstDay(mo) < b /\ a < MonthEnd(mo)
  <2>1. /\ FirstDay(mo) \in Int /\ MonthEnd(mo) \in Int /\ FirstDay(mo) < MonthEnd(mo)
    BY MonthsOfCalendar
  <2>2. Overlap(<<a, b>>, mo) = (IF b <= MonthEnd(mo) THEN b ELSE MonthEnd(mo))
                                 - (IF a >= FirstDay(mo) THEN a ELSE FirstDay(mo))
    BY <2>1, OverlapIs
  <2> QED BY <2>1, <2>2
<1> QED BY <1>4, <1>5, <1>6 DEF Shares

(* The overlap of a phase and a month is how many days they share.         *)
LEMMA SharedDays ==
    ASSUME NEW a \in Int, NEW b \in Int, a < b, NEW mo \in Shares(a, b)
    PROVE  /\ Overlap(<<a, b>>, mo) = Cardinality(Shared(a, b, mo))
           /\ IsFiniteSet(Shared(a, b, mo))
           /\ Overlap(<<a, b>>, mo) \in Nat
<1> DEFINE low  == IF a >= FirstDay(mo) THEN a ELSE FirstDay(mo)
           high == IF b <= MonthEnd(mo) THEN b ELSE MonthEnd(mo)
<1>1. /\ FirstDay(mo) \in Int /\ MonthEnd(mo) \in Int /\ FirstDay(mo) < MonthEnd(mo)
      /\ FirstDay(mo) < b /\ a < MonthEnd(mo) /\ mo \in Calendar
  BY MonthsOfCalendar DEF Shares
<1>2. Overlap(<<a, b>>, mo) = high - low
  BY <1>1, OverlapIs
<1>3. low \in Int /\ high \in Int /\ low < high
  BY <1>1
<1>4. Shared(a, b, mo) = low..high - 1
  BY <1>1 DEF Shared
<1> HIDE DEF low, high
<1>5. IsFiniteSet(low..high - 1) /\ Cardinality(low..high - 1) = high - low
  BY <1>3, FS_Interval
<1> QED BY <1>2, <1>3, <1>4, <1>5
-----------------------------------------------------------------------------
(* There are twelve months to each year of the calendar.                   *)
LEMMA CalendarIsFinite == IsFiniteSet(Calendar)
<1>1. FirstYear \in Int /\ LastYear \in Int
  BY CalendarAssumption
<1>2. IsFiniteSet(FirstYear..LastYear)
  BY <1>1, FS_Interval, Zenon
<1>3. IsFiniteSet(1..12)
  <2>1. 1 \in Int /\ 12 \in Int
    OBVIOUS
  <2> QED BY <2>1, FS_Interval, Zenon
<1> QED BY <1>2, <1>3, FS_Product, Zenon DEF Calendar

(* Summed over the months, the days shared are all the days of the phase.  *)
LEMMA DaysAddUp ==
    ASSUME NEW a \in Nat, NEW b \in Int, a < b, b <= FirstDay(<<LastYear, 12>>)
    PROVE  /\ SumFunction([mo \in Shares(a, b) |-> Overlap(<<a, b>>, mo)]) = Cardinality(a..b - 1)
           /\ Cardinality(a..b - 1) = b - a
<1> DEFINE In(T) == {d \in a..b - 1 : \E mo \in T : FirstDay(mo) <= d /\ d < MonthEnd(mo)}
           f == [mo \in Shares(a, b) |-> Overlap(<<a, b>>, mo)]
           g == [T \in SUBSET Shares(a, b) |-> Cardinality(In(T))]
<1>1. IsFiniteSet(a..b - 1) /\ Cardinality(a..b - 1) = b - a
  BY FS_Interval
<1>2. IsFiniteSet(Shares(a, b))
  BY CalendarIsFinite, FS_Subset DEF Shares
<1>3. \A T : IsFiniteSet(In(T)) /\ Cardinality(In(T)) \in Nat
  BY <1>1, FS_Subset, FS_CardinalityType
<1>4. f \in [Shares(a, b) -> Int]
  BY SharedDays
<1>5. g \in [SUBSET Shares(a, b) -> Int]
  BY <1>3
<1>6. g[{}] = 0
  BY FS_EmptySet
<1>7. ASSUME NEW T \in SUBSET Shares(a, b), NEW x \in T PROVE g[T] = f[x] + g[T \ {x}]
  <2>1. In(T) = Shared(a, b, x) \cup In(T \ {x})
    BY DEF Shared
  <2>2. Shared(a, b, x) \cap In(T \ {x}) = {}
    <3> SUFFICES ASSUME NEW d \in a..b - 1, NEW mo \in T, mo # x,
                        FirstDay(mo) <= d, d < MonthEnd(mo), FirstDay(x) <= d, d < MonthEnd(x)
                 PROVE  FALSE
      BY DEF Shared
    <3>1. mo \in Calendar /\ x \in Calendar
      BY DEF Shares
    <3>2. MonthEnd(mo) <= FirstDay(x) \/ MonthEnd(x) <= FirstDay(mo)
      BY <3>1, MonthsAreApart DEF MonthEnd
    <3>3. /\ FirstDay(mo) \in Int /\ MonthEnd(mo) \in Int
          /\ FirstDay(x) \in Int /\ MonthEnd(x) \in Int
      BY <3>1, MonthsOfCalendar
    <3> QED BY <3>2, <3>3
  <2>3. /\ Overlap(<<a, b>>, x) = Cardinality(Shared(a, b, x))
        /\ IsFiniteSet(Shared(a, b, x)) /\ Overlap(<<a, b>>, x) \in Nat
    BY SharedDays
  <2>4. Cardinality(In(T)) = Cardinality(Shared(a, b, x)) + Cardinality(In(T \ {x}))
    <3> HIDE DEF In
    <3>1. Cardinality(In(T)) = Cardinality(Shared(a, b, x)) + Cardinality(In(T \ {x})) - Cardinality({})
      BY <1>3, <2>1, <2>2, <2>3, FS_Union
    <3>2. Cardinality({}) = 0
      BY FS_EmptySet
    <3> QED BY <1>3, <2>3, <3>1, <3>2
  <2> QED BY <2>3, <2>4
<1>8. SumFunction(f) = g[Shares(a, b)]
  <2> HIDE DEF f, g
  <2> QED BY <1>2, <1>4, <1>5, <1>6, <1>7, SumIs
<1>9. In(Shares(a, b)) = a..b - 1
  <2>1. ASSUME NEW d \in a..b - 1
        PROVE  \E mo \in Shares(a, b) : FirstDay(mo) <= d /\ d < MonthEnd(mo)
    <3>1. FirstDay(<<LastYear, 12>>) \in Int
      <4>1. <<LastYear, 12>> \in Calendar
        BY CalendarAssumption DEF Calendar
      <4> QED BY <4>1, MonthsOfCalendar, Zenon
    <3>2. d \in Nat /\ d <= FirstDay(<<LastYear, 12>>)
      BY <3>1
    <3>3. MonthOf(d) \in Calendar /\ FirstDay(MonthOf(d)) <= d /\ d < MonthEnd(MonthOf(d))
      BY <3>2, MonthOfDay DEF MonthEnd
    <3>4. FirstDay(MonthOf(d)) \in Int /\ MonthEnd(MonthOf(d)) \in Int
      BY <3>3, MonthsOfCalendar
    <3>5. FirstDay(MonthOf(d)) < b /\ a < MonthEnd(MonthOf(d))
      BY <3>3, <3>4
    <3> QED BY <3>3, <3>5 DEF Shares
  <2> QED BY <2>1
<1> QED BY <1>1, <1>8, <1>9
-----------------------------------------------------------------------------
(* What was imported, and the due date of a pursuit that is phased.        *)
Phased ==
    /\ plan.weeks \in Durations /\ plan.cancel \in CancelDates
    /\ due \in DueDates

(* The days of a phase, and of the first i phases before the due date.     *)
Long(p) == Days(Weeks(p))
Back(i) ==
    (IF i >= 1 THEN Long("FINAL") ELSE 0) + (IF i >= 2 THEN Long("PREPROP") ELSE 0)
      + (IF i >= 3 THEN Long("SOL") ELSE 0) + (IF i >= 4 THEN Long("STRAT") ELSE 0)

(* The phases by name.                                                     *)
LEMMA BackwardPhases ==
    /\ Len(Backward) = 4 /\ DOMAIN Backward = 1..4
    /\ Backward[1] = "FINAL" /\ Backward[2] = "PREPROP"
    /\ Backward[3] = "SOL" /\ Backward[4] = "STRAT"
    /\ Phases = {"FINAL", "PREPROP", "SOL", "STRAT", "EN"}
<1>1. /\ Len(Backward) = 4 /\ DOMAIN Backward = 1..4
      /\ Backward[1] = "FINAL" /\ Backward[2] = "PREPROP"
      /\ Backward[3] = "SOL" /\ Backward[4] = "STRAT"
  BY DEF Backward
<1>2. DOMAIN Backward = {1, 2, 3, 4}
  BY <1>1
<1>3. {Backward[i] : i \in DOMAIN Backward} = {"FINAL", "PREPROP", "SOL", "STRAT"}
  <2> HIDE DEF Backward
  <2> QED BY <1>1, <1>2
<1> QED BY <1>1, <1>3 DEF Phases

(* The phases fit into the calendar: one that has no staffed cell is read  *)
(* as having no duration, which only makes it shorter.                     *)
LEMMA LongPhases ==
    ASSUME Phased
    PROVE  /\ \A p \in Phases : Long(p) \in Nat /\ Long(p) <= Days(plan.weeks[p])
           /\ \A p \in Phases : Days(plan.weeks[p]) \in Nat
           /\ due \in Int /\ Back(4) <= due /\ due + Long("EN") <= FirstDay(<<LastYear, 12>>)
           /\ \A i \in 0..4 : Back(i) \in Nat
<1>1. \A half \in Nat : Days(half) \in Nat
  BY DEF Days
<1>2. Days(0) = 0
  BY DEF Days
<1>3. \A p \in Phases : plan.weeks[p] \in Nat
  <2>1. \A p \in Phases : HalfWeeks[p] \subseteq Nat
    BY StaffingAssumption
  <2> QED BY <2>1 DEF Phased, Durations
<1>4. \A p \in Phases : Long(p) \in {0, Days(plan.weeks[p])}
  BY <1>2 DEF Long, Weeks
<1>5. \A p \in Phases : Days(plan.weeks[p]) \in Nat
  BY <1>1, <1>3
<1>6. \A p \in Phases : Long(p) \in Nat /\ Long(p) <= Days(plan.weeks[p])
  BY <1>4, <1>5
<1>7. due \in Int
  BY StaffingAssumption DEF Phased
<1>8. "FINAL" \in Phases /\ "PREPROP" \in Phases /\ "SOL" \in Phases /\ "STRAT" \in Phases /\ "EN" \in Phases
  BY BackwardPhases
<1>9. \A i \in 0..4 : Back(i) \in Nat
  BY <1>6, <1>8 DEF Back
<1>10. /\ Days(plan.weeks["FINAL"]) + Days(plan.weeks["PREPROP"])
             + Days(plan.weeks["SOL"]) + Days(plan.weeks["STRAT"]) <= due
       /\ due + Days(plan.weeks["EN"]) <= FirstDay(<<LastYear, 12>>)
  BY CalendarAssumption DEF Phased
<1>11. FirstDay(<<LastYear, 12>>) \in Int
  <2>1. <<LastYear, 12>> \in Calendar
    BY CalendarAssumption DEF Calendar
  <2> QED BY <2>1, MonthsOfCalendar, Zenon
<1>12. Back(4) = Long("FINAL") + Long("PREPROP") + Long("SOL") + Long("STRAT")
  BY DEF Back
<1>13. Back(4) <= due
  BY <1>5, <1>6, <1>7, <1>8, <1>10, <1>12
<1>14. due + Long("EN") <= FirstDay(<<LastYear, 12>>)
  BY <1>5, <1>6, <1>7, <1>8, <1>10, <1>11
<1> QED BY <1>5, <1>6, <1>7, <1>9, <1>13, <1>14

(* The sum of the property, added up.                                      *)
LEMMA ThroughIsBack ==
    ASSUME Phased, NEW i \in 0..4
    PROVE  Through(i) = Back(i)
<1> DEFINE f == [k \in 1..i |-> Long(Backward[k])]
           part(k, T) == IF k \in T THEN Long(Backward[k]) ELSE 0
           g == [T \in SUBSET (1..i) |-> part(1, T) + part(2, T) + part(3, T) + part(4, T)]
<1>1. \A k \in 1..4 : Long(Backward[k]) \in Nat
  <2>1. \A k \in 1..4 : Backward[k] \in Phases
    BY BackwardPhases
  <2> QED BY <2>1, LongPhases
<1>2. Through(i) = SumFunction(f)
  BY DEF Through, Long
<1>3. IsFiniteSet(1..i)
  BY FS_Interval
<1>4. f \in [1..i -> Int] /\ g \in [SUBSET (1..i) -> Int]
  BY <1>1
<1>5. g[{}] = 0
  OBVIOUS
<1>6. ASSUME NEW T \in SUBSET (1..i), NEW x \in T PROVE g[T] = f[x] + g[T \ {x}]
  <2>1. x \in {1, 2, 3, 4} /\ x \in 1..i
    OBVIOUS
  <2>2. ASSUME NEW k \in {1, 2, 3, 4}
        PROVE  /\ part(k, T) \in Nat
               /\ part(k, T) = part(k, T \ {x}) + (IF k = x THEN Long(Backward[x]) ELSE 0)
    BY <1>1
  <2>3. f[x] = Long(Backward[x]) /\ f[x] \in Nat
    BY <1>1, <2>1
  <2>4. part(1, T) + part(2, T) + part(3, T) + part(4, T)
          = f[x] + (part(1, T \ {x}) + part(2, T \ {x}) + part(3, T \ {x}) + part(4, T \ {x}))
    <3>1. \A k \in {1, 2, 3, 4} : part(k, T \ {x}) \in Nat
      BY <1>1
    <3> HIDE DEF part, f
    <3> QED BY <2>1, <2>2, <2>3, <3>1
  <2> QED BY <2>4
<1>7. SumFunction(f) = g[1..i]
  <2>1. \A T \in SUBSET (1..i) : \A x \in T : g[T] = f[x] + g[T \ {x}]
    BY <1>6, Zenon
  <2> HIDE DEF f, g
  <2> QED BY <1>3, <1>4, <1>5, <2>1, SumIs, Zenon
<1>8. g[1..i] = Back(i)
  BY BackwardPhases DEF Back
<1> QED BY <1>2, <1>7, <1>8

(* Each phase ends where the one after it begins.                          *)
LEMMA PhasesBackToBack ==
    ASSUME Phased
    PROVE  /\ \A i \in 1..4 : PhaseDates(due)[Backward[i]] = Cut(<<due - Back(i), due - Back(i - 1)>>)
           /\ PhaseDates(due)["EN"] = Cut(<<due, due + Long("EN")>>)
<1> DEFINE Body(f, i) == IF i = 0 THEN due ELSE f[i - 1] - Days(Weeks(Backward[i]))
           start == CHOOSE f : f = [i \in 0..Len(Backward) |-> Body(f, i)]
           place(p) == CHOOSE i \in DOMAIN Backward : Backward[i] = p
           told == [i \in 0..Len(Backward) |-> due - Back(i)]
<1>1. PhaseDates(due) = [p \in Phases |->
            Cut(IF p = "EN" THEN <<due, due + Days(Weeks("EN"))>>
                ELSE <<start[place(p)], start[place(p) - 1]>>)]
  BY DEF PhaseDates
<1>2. told = [i \in 0..Len(Backward) |-> Body(told, i)]
  <2>1. ASSUME NEW i \in 0..Len(Backward) PROVE told[i] = Body(told, i)
    <3>1. Long("FINAL") \in Nat /\ Long("PREPROP") \in Nat /\ Long("SOL") \in Nat /\ Long("STRAT") \in Nat
      BY BackwardPhases, LongPhases
    <3>2. i \in {0, 1, 2, 3, 4} /\ due \in Int
      BY BackwardPhases, LongPhases
    <3> QED BY <3>1, <3>2, BackwardPhases DEF Back, Long
  <2> QED BY <2>1
<1> HIDE DEF Body
<1>3. start = [i \in 0..Len(Backward) |-> Body(start, i)]
  BY <1>2
<1> HIDE DEF start
<1> USE DEF Body
<1>4. \A i \in 0..4 : start[i] = due - Back(i)
  <2>1. start[0] = due /\ \A i \in 1..4 : start[i] = start[i - 1] - Long(Backward[i])
    BY <1>3, BackwardPhases DEF Long
  <2>2. Long("FINAL") \in Nat /\ Long("PREPROP") \in Nat /\ Long("SOL") \in Nat /\ Long("STRAT") \in Nat
    BY BackwardPhases, LongPhases
  <2>3. due \in Int
    BY LongPhases
  <2>4. start[1] = due - Long("FINAL") /\ start[2] = start[1] - Long("PREPROP")
    BY <2>1, BackwardPhases
  <2>5. start[3] = start[2] - Long("SOL") /\ start[4] = start[3] - Long("STRAT")
    BY <2>1, BackwardPhases
  <2> QED BY <2>1, <2>2, <2>3, <2>4, <2>5 DEF Back
<1>5. ASSUME NEW i \in 1..4 PROVE place(Backward[i]) = i /\ Backward[i] # "EN" /\ Backward[i] \in Phases
  <2>1. \A k \in DOMAIN Backward : Backward[k] = Backward[i] => k = i
    BY BackwardPhases
  <2>2. i \in DOMAIN Backward
    BY BackwardPhases
  <2>3. Backward[i] # "EN" /\ Backward[i] \in Phases
    BY BackwardPhases
  <2> QED BY <2>1, <2>2, <2>3
<1> HIDE DEF place
<1>6. ASSUME NEW i \in 1..4
      PROVE  PhaseDates(due)[Backward[i]] = Cut(<<due - Back(i), due - Back(i - 1)>>)
  <2>1. start[i] = due - Back(i) /\ start[i - 1] = due - Back(i - 1)
    <3>1. i \in 0..4 /\ i - 1 \in 0..4
      OBVIOUS
    <3> QED BY <1>4, <3>1
  <2> QED BY <1>1, <1>5, <2>1
<1>7. PhaseDates(due)["EN"] = Cut(<<due, due + Long("EN")>>)
  BY <1>1, BackwardPhases DEF Long
<1> QED BY <1>6, <1>7
-----------------------------------------------------------------------------
(* A phase, cut, is its days, told by the first and the one after the      *)
(* last.                                                                   *)
LEMMA PhaseDays ==
    ASSUME Phased, NEW p \in Phases
    PROVE  \E a \in Nat, b \in Int :
              /\ PhaseDates(due)[p] = <<a, b>>
              /\ a <= b /\ b <= FirstDay(<<LastYear, 12>>)
              /\ DaysOf(p) = a..b - 1
<1> DEFINE Kept(a, b) == {d \in a..b - 1 : plan.cancel = NoDate \/ d < plan.cancel}
<1>0. FirstDay(<<LastYear, 12>>) \in Int
  <2>1. <<LastYear, 12>> \in Calendar
    BY CalendarAssumption DEF Calendar
  <2> QED BY <2>1, MonthsOfCalendar, Zenon
<1>1. ASSUME NEW a \in Nat, NEW b \in Int, a <= b, b <= FirstDay(<<LastYear, 12>>)
      PROVE  \E e \in Int : /\ Cut(<<a, b>>) = <<a, e>> /\ a <= e /\ e <= FirstDay(<<LastYear, 12>>)
                            /\ Kept(a, b) = a..e - 1
  <2>1. CASE plan.cancel = NoDate
    BY <1>1, <2>1 DEF Cut
  <2>2. CASE plan.cancel # NoDate
    <3>1. plan.cancel \in Int
      <4>1. CancelDates \subseteq Int \cup {NoDate} /\ plan.cancel \in CancelDates
        BY StaffingAssumption DEF Phased
      <4> QED BY <2>2, <4>1, Zenon
    <3> DEFINE end == IF b <= plan.cancel THEN b ELSE plan.cancel
    <3>2. Min({b, plan.cancel}) = end
      BY <3>1 DEF Min
    <3>3. Cut(<<a, b>>) = IF end <= a THEN <<a, a>> ELSE <<a, end>>
      BY <2>2, <3>2 DEF Cut
    <3>4. CASE end <= a
      <4>1. Kept(a, b) = a..a - 1
        BY <2>2, <3>1, <3>4
      <4> QED BY <1>0, <1>1, <3>3, <3>4, <4>1
    <3>5. CASE ~(end <= a)
      <4>1. Kept(a, b) = a..end - 1
        BY <2>2, <3>1, <3>5
      <4>2. end \in Int /\ a <= end /\ end <= FirstDay(<<LastYear, 12>>)
        BY <1>0, <1>1, <3>1, <3>5
      <4> QED BY <3>3, <3>5, <4>1, <4>2
    <3> QED BY <3>4, <3>5
  <2> QED BY <2>1, <2>2
<1>2. CASE p = "EN"
  <2>1. DaysOf(p) = Kept(due, due + Long("EN"))
    <3>1. {p} \cap {"EN"} = {"EN"} /\ {k \in DOMAIN Backward : Backward[k] = p} = {}
      BY <1>2, BackwardPhases
    <3> QED BY <3>1 DEF DaysOf, Long
  <2>2. /\ due \in Nat /\ due + Long("EN") \in Int /\ due <= due + Long("EN")
        /\ due + Long("EN") <= FirstDay(<<LastYear, 12>>)
    BY BackwardPhases, LongPhases
  <2>3. PhaseDates(due)[p] = Cut(<<due, due + Long("EN")>>)
    BY <1>2, PhasesBackToBack
  <2> HIDE DEF Kept
  <2> QED BY <1>1, <2>1, <2>2, <2>3
<1>3. CASE p # "EN"
  <2>1. PICK i \in 1..4 : p = Backward[i]
    BY <1>3, BackwardPhases
  <2> DEFINE a == due - Back(i)
             b == due - Back(i - 1)
  <2>2. DaysOf(p) = Kept(a, b)
    <3>1. {p} \cap {"EN"} = {} /\ {k \in DOMAIN Backward : Backward[k] = p} = {i}
      BY <1>3, <2>1, BackwardPhases
    <3>2. Through(i) = Back(i) /\ Through(i - 1) = Back(i - 1)
      <4>1. i \in 0..4 /\ i - 1 \in 0..4
        OBVIOUS
      <4> QED BY <4>1, ThroughIsBack
    <3> QED BY <3>1, <3>2 DEF DaysOf
  <2>3. a \in Nat /\ b \in Int /\ a <= b /\ b <= FirstDay(<<LastYear, 12>>)
    <3>1. Long("FINAL") \in Nat /\ Long("PREPROP") \in Nat /\ Long("SOL") \in Nat
          /\ Long("STRAT") \in Nat /\ Long("EN") \in Nat
      BY BackwardPhases, LongPhases
    <3>2. Back(i) <= Back(4) /\ Back(i - 1) <= Back(i) /\ Back(i) \in Nat /\ Back(i - 1) \in Nat
      BY <3>1 DEF Back
    <3>3. due \in Int /\ Back(4) <= due /\ due + Long("EN") <= FirstDay(<<LastYear, 12>>) /\ Back(4) \in Nat
      BY LongPhases
    <3> QED BY <1>0, <3>1, <3>2, <3>3
  <2>4. PhaseDates(due)[p] = Cut(<<a, b>>)
    BY <2>1, PhasesBackToBack
  <2> HIDE DEF Kept, a, b
  <2> QED BY <1>1, <2>2, <2>3, <2>4
<1> QED BY <1>2, <1>3

(* The months of a category that a phase falls in, and its part of each.   *)
Months(table, p) == {mo \in DOMAIN table : p \in DOMAIN table[mo].part}

LEMMA PartsOfPhase ==
    ASSUME NEW c, NEW spans, NEW overrides, NEW p \in Phases
    PROVE  LET table == Contributions(c, spans, overrides)
           IN  /\ Months(table, p) =
                     IF <<c, p>> \in plan.cells /\ spans[p][1] < spans[p][2]
                     THEN {mo \in Walked(spans[p]) : Overlap(spans[p], mo) > 0} ELSE {}
               /\ \A mo \in Months(table, p) :
                     table[mo].part[p] = <<Overlap(spans[p], mo), spans[p][2] - spans[p][1]>>
<1> DEFINE on    == {q \in Phases : <<c, q>> \in plan.cells /\ spans[q][1] < spans[q][2]}
           cells == {pm \in UNION {{q} \X Walked(spans[q]) : q \in on} :
                        Overlap(spans[pm[1]], pm[2]) > 0}
           part(mo) == [q \in {r \in Phases : <<r, mo>> \in cells} |->
                            <<Overlap(spans[q], mo), spans[q][2] - spans[q][1]>>]
           table == Contributions(c, spans, overrides)
<1>1. \A mo : <<p, mo>> \in cells <=> p \in on /\ mo \in Walked(spans[p]) /\ Overlap(spans[p], mo) > 0
  <2> HIDE DEF on
  <2> TAKE mo
  <2>1. <<p, mo>> \in UNION {{q} \X Walked(spans[q]) : q \in on} <=> p \in on /\ mo \in Walked(spans[p])
    OBVIOUS
  <2> QED BY <2>1
<1>2. /\ DOMAIN table = {pm[2] : pm \in cells}
      /\ \A mo \in DOMAIN table : table[mo].part = part(mo)
  BY DEF Contributions
<1> HIDE DEF cells, table
<1>3. \A mo : mo \in Months(table, p) <=> <<p, mo>> \in cells
  <2> TAKE mo
  <2>1. <<p, mo>> \in cells => mo \in DOMAIN table
    <3> SUFFICES ASSUME <<p, mo>> \in cells PROVE mo \in {pm[2] : pm \in cells}
      BY <1>2
    <3>1. <<p, mo>>[2] = mo
      OBVIOUS
    <3> QED BY <3>1, Zenon
  <2>2. mo \in DOMAIN table => DOMAIN table[mo].part = {r \in Phases : <<r, mo>> \in cells}
    BY <1>2
  <2> QED BY <2>1, <2>2 DEF Months
<1>4. \A mo \in Months(table, p) :
         table[mo].part[p] = <<Overlap(spans[p], mo), spans[p][2] - spans[p][1]>>
  BY <1>2, <1>3 DEF Months
<1>5. Months(table, p) =
         IF <<c, p>> \in plan.cells /\ spans[p][1] < spans[p][2]
         THEN {mo \in Walked(spans[p]) : Overlap(spans[p], mo) > 0} ELSE {}
  BY <1>1, <1>3
<1> QED BY <1>4, <1>5 DEF table
-----------------------------------------------------------------------------
(* What a request finds is always what the phaser makes of what is kept:   *)
(* nothing of it is kept.                                                  *)
StaffInv ==
    /\ plan.weeks \in Durations /\ plan.cells \in Grids
    /\ plan.start \in Starts /\ plan.cancel \in CancelDates
    /\ due \in DueDates \cup {NoDate}
    /\ DOMAIN rates \subseteq OverrideYears
    /\ \A y \in DOMAIN rates : rates[y] \in Rates
    /\ dates = Dates(due) /\ demand = Demand(dates, rates)

(* The invariant holds at the import.                                      *)
LEMMA StaffInit == Init => StaffInv
<1> SUFFICES ASSUME Init PROVE StaffInv
  OBVIOUS
<1>1. /\ plan.weeks \in Durations /\ plan.cells \in Grids
      /\ plan.start \in Starts /\ plan.cancel \in CancelDates
  BY DEF Init
<1>2. DOMAIN rates = {}
  BY DEF Init
<1>3. due \in DueDates /\ dates = Dates(due) /\ demand = Demand(dates, rates)
  BY DEF Init
<1> QED BY <1>1, <1>2, <1>3 DEF StaffInv

(* Both writes leave behind what the phaser makes of the new inputs.       *)
LEMMA StaffStep == StaffInv /\ [Next]_vars => StaffInv'
<1> SUFFICES ASSUME StaffInv, [Next]_vars PROVE StaffInv'
  OBVIOUS
<1>1. plan' = plan
  BY DEF Next, MoveDue, PutEscalationRate, vars
<1>4. ASSUME NEW d \in DueDates \cup {NoDate}, MoveDue(d) PROVE StaffInv'
  <2>1. dates' = Dates(due)'
    <3>1. due' = d /\ dates' = Dates(d)
      BY <1>4 DEF MoveDue
    <3> QED BY <1>1, <3>1 DEF Dates, PhaseDates, Cut, Weeks, Staffed
  <2>2. demand' = Demand(dates, rates)'
    <3>1. demand' = Demand(dates', rates) /\ rates' = rates
      BY <1>4 DEF MoveDue
    <3> QED BY <1>1, <3>1 DEF Demand, Contributions
  <2> QED BY <1>1, <1>4, <2>1, <2>2 DEF MoveDue, StaffInv
<1>5. ASSUME NEW y \in OverrideYears, NEW r \in Rates, PutEscalationRate(y, r) PROVE StaffInv'
  <2>1. dates' = Dates(due)'
    <3>1. due' = due /\ dates' = Dates(due)
      BY <1>5 DEF PutEscalationRate, StaffInv
    <3> QED BY <1>1, <3>1 DEF Dates, PhaseDates, Cut, Weeks, Staffed
  <2>2. demand' = Demand(dates, rates)'
    <3>1. demand' = Demand(dates, rates') /\ dates' = dates
      BY <1>5 DEF PutEscalationRate
    <3> QED BY <1>1, <3>1 DEF Demand, Contributions
  <2>3. DOMAIN rates' \subseteq OverrideYears /\ \A k \in DOMAIN rates' : rates'[k] \in Rates
    BY <1>5 DEF PutEscalationRate, StaffInv, Over
  <2>4. due' = due
    BY <1>5 DEF PutEscalationRate
  <2> QED BY <1>1, <2>1, <2>2, <2>3, <2>4 DEF StaffInv
<1>6. CASE UNCHANGED vars
  <2>1. due' = due /\ dates' = dates /\ rates' = rates /\ demand' = demand
    BY <1>6 DEF vars
  <2>2. dates' = Dates(due)'
    <3>1. dates' = Dates(due)
      BY <2>1 DEF StaffInv
    <3> QED BY <1>1, <2>1, <3>1 DEF Dates, PhaseDates, Cut, Weeks, Staffed
  <2>3. demand' = Demand(dates, rates)'
    <3>1. demand' = Demand(dates, rates)
      BY <2>1 DEF StaffInv
    <3> QED BY <1>1, <2>1, <3>1 DEF Demand, Contributions
  <2> QED BY <1>1, <2>1, <2>2, <2>3 DEF StaffInv
<1> QED BY <1>4, <1>5, <1>6 DEF Next
-----------------------------------------------------------------------------
(* A pursuit with a due date has all five phases.                          *)
LEMMA WhenPhased ==
    ASSUME StaffInv, due # NoDate
    PROVE  Phased /\ DOMAIN dates = Phases /\ dates = PhaseDates(due)
<1>1. Phased
  BY DEF StaffInv, Phased
<1>2. dates = PhaseDates(due)
  BY DEF StaffInv, Dates
<1>3. DOMAIN PhaseDates(due) = Phases
  BY DEF PhaseDates
<1> QED BY <1>1, <1>2, <1>3

(* Every phase has a first and a last day, in this order.                  *)
LEMMA Typed == StaffInv => TypeOK
<1> SUFFICES ASSUME StaffInv PROVE TypeOK
  OBVIOUS
<1>1. ASSUME NEW p \in DOMAIN dates
      PROVE  dates[p] \in Int \X Int /\ dates[p][1] <= dates[p][2]
  <2>1. due # NoDate
    <3> SUFFICES ASSUME due = NoDate PROVE FALSE
      OBVIOUS
    <3>1. dates = <<>>
      BY DEF StaffInv, Dates
    <3> QED BY <3>1
  <2>2. Phased /\ p \in Phases /\ dates = PhaseDates(due)
    BY <2>1, WhenPhased
  <2>3. PICK a \in Nat, b \in Int : dates[p] = <<a, b>> /\ a <= b
    BY <2>2, PhaseDays
  <2> QED BY <2>3
<1>2. DOMAIN demand = Categories
  BY DEF StaffInv, Demand
<1> QED BY <1>1, <1>2 DEF StaffInv, TypeOK

(* The invariant is one.                                                   *)
LEMMA Invariant == Spec => []StaffInv
<1>1. Init => StaffInv
  BY StaffInit
<1>2. StaffInv /\ [Next]_vars => StaffInv'
  BY StaffStep
<1> QED BY <1>1, <1>2, PTL DEF Spec

(* The variables keep their types, and no phase ends before it begins      *)
(* (staffing.py:52-95).                                                    *)
THEOREM TypeCorrect == Spec => []TypeOK
<1>1. StaffInv => TypeOK
  BY Typed
<1> QED BY <1>1, Invariant, PTL

(* The months of a phase are those it shares a day with, each with the     *)
(* days they share, and over them the days add up.                         *)
LEMMA EachDayOnce == StaffInv => EveryDayIsWorkedOnce
<1> SUFFICES ASSUME StaffInv, due # NoDate, NEW c \in Categories, NEW p \in Phases
             PROVE  LET days   == IF <<c, p>> \in plan.cells THEN DaysOf(p) ELSE {}
                        months == {mo \in DOMAIN demand[c] : p \in DOMAIN demand[c][mo].part}
                    IN  /\ SumFunction([mo \in months |-> demand[c][mo].part[p][1]]) = Cardinality(days)
                        /\ \A mo \in months :
                              LET inMonth == days \cap (FirstDay(mo)..FirstDay(mo) + DaysIn(mo) - 1)
                              IN  demand[c][mo].part[p] = <<Cardinality(inMonth), Cardinality(days)>>
  BY DEF EveryDayIsWorkedOnce
<1>1. Phased /\ DOMAIN dates = Phases /\ dates = PhaseDates(due)
  BY WhenPhased
<1>2. PICK a \in Nat, b \in Int :
         /\ dates[p] = <<a, b>> /\ a <= b /\ b <= FirstDay(<<LastYear, 12>>)
         /\ DaysOf(p) = a..b - 1
  BY <1>1, PhaseDays
<1>3. demand[c] = Contributions(c, dates, rates)
  <2>1. DOMAIN <<>> = {} /\ "EN" \in Phases
    BY BackwardPhases
  <2>2. dates # <<>>
    BY <1>1, <2>1
  <2> QED BY <2>2 DEF StaffInv, Demand
<1> DEFINE days == IF <<c, p>> \in plan.cells THEN DaysOf(p) ELSE {}
           months == Months(demand[c], p)
           sum == SumFunction([mo \in months |-> demand[c][mo].part[p][1]])
<1>4. /\ months = IF <<c, p>> \in plan.cells /\ a < b
                  THEN {mo \in Walked(<<a, b>>) : Overlap(<<a, b>>, mo) > 0} ELSE {}
      /\ \A mo \in months : demand[c][mo].part[p] = <<Overlap(<<a, b>>, mo), b - a>>
  BY <1>2, <1>3, PartsOfPhase
<1>5. CASE <<c, p>> \in plan.cells /\ a < b
  <2>1. months = Shares(a, b) /\ days = a..b - 1
    BY <1>2, <1>4, <1>5, MonthsOfSpan
  <2>2. Cardinality(days) = b - a
    BY <1>2, <1>5, <2>1, DaysAddUp
  <2>3. sum = Cardinality(days)
    <3>1. [mo \in months |-> demand[c][mo].part[p][1]] = [mo \in Shares(a, b) |-> Overlap(<<a, b>>, mo)]
      BY <1>4, <2>1
    <3> QED BY <1>2, <1>5, <2>1, <3>1, DaysAddUp
  <2>4. ASSUME NEW mo \in months
        PROVE  demand[c][mo].part[p] =
                  <<Cardinality(days \cap (FirstDay(mo)..FirstDay(mo) + DaysIn(mo) - 1)), Cardinality(days)>>
    <3>1. mo \in Shares(a, b) /\ mo \in Calendar
      BY <2>1 DEF Shares
    <3>2. FirstDay(mo) \in Int /\ DaysIn(mo) \in Int
      BY <3>1, MonthsOfCalendar
    <3>3. days \cap (FirstDay(mo)..FirstDay(mo) + DaysIn(mo) - 1) = Shared(a, b, mo)
      BY <2>1, <3>2 DEF Shared, MonthEnd
    <3>4. Overlap(<<a, b>>, mo) = Cardinality(Shared(a, b, mo))
      BY <1>2, <1>5, <3>1, SharedDays
    <3> QED BY <1>4, <2>2, <3>3, <3>4
  <2> QED BY <2>3, <2>4 DEF Months
<1>6. CASE ~(<<c, p>> \in plan.cells /\ a < b)
  <2>1. months = {}
    BY <1>4, <1>6
  <2>2. days = {}
    BY <1>2, <1>6
  <2>3. sum = 0
    <3> DEFINE f == [mo \in {} |-> demand[c][mo].part[p][1]]
               g == [T \in SUBSET {} |-> 0]
    <3>1. sum = SumFunction(f)
      BY <2>1
    <3>2. f \in [{} -> Int] /\ g \in [SUBSET {} -> Int] /\ g[{}] = 0
      OBVIOUS
    <3>3. \A T \in SUBSET {} : \A x \in T : g[T] = f[x] + g[T \ {x}]
      OBVIOUS
    <3>4. IsFiniteSet({})
      BY FS_EmptySet
    <3> HIDE DEF f, g
    <3>5. SumFunction(f) = g[{}]
      BY <3>2, <3>3, <3>4, SumIs, Zenon
    <3> QED BY <3>1, <3>2, <3>5
  <2>4. Cardinality(days) = 0
    BY <2>2, FS_EmptySet
  <2> QED BY <2>1, <2>3, <2>4 DEF Months
<1> QED BY <1>5, <1>6

(* Every day of every phase is worked in exactly one month, over a year's  *)
(* end, a leap day and a cancellation alike (staffing.py:52-125).          *)
THEOREM EveryDayOnce == Spec => []EveryDayIsWorkedOnce
<1>1. StaffInv => EveryDayIsWorkedOnce
  BY EachDayOnce
<1> QED BY <1>1, Invariant, PTL
-----------------------------------------------------------------------------
(* A bounded set of numbers has a greatest one.                            *)
LEMMA GreatestNumber ==
    ASSUME NEW n \in Int, NEW S \in SUBSET Int, S # {}, \A k \in S : k <= n
    PROVE  Max(S) \in S /\ \A k \in S : k <= Max(S)
<1> DEFINE under == {n - k : k \in S}
<1>0. \A k \in S : n - k \in Nat
  OBVIOUS
<1>1. under \subseteq Nat /\ under # {}
  <2>1. under # {}
    OBVIOUS
  <2> QED BY <1>0, <2>1, Zenon
<1>2. PICK m \in under : \A k \in under : m <= k
  BY <1>1, LeastNumber
<1>3. PICK x \in S : m = n - x
  OBVIOUS
<1>4. \A k \in S : x >= k
  <2> TAKE k \in S
  <2>1. n - k \in under
    OBVIOUS
  <2> QED BY <1>2, <1>3, <2>1
<1>5. Max(S) \in S /\ \A k \in S : Max(S) >= k
  BY <1>4 DEF Max
<1> QED BY <1>5

(* The rate of a year is read from an entry between the base year, which   *)
(* the generic table has, and that year.                                   *)
LEMMA RateReadsBack ==
    ASSUME NEW f, DOMAIN f \subseteq Int, NEW g, DOMAIN g \subseteq Int, NEW y \in Int, y >= BaseYear,
           \A k \in BaseYear..y : k \in DOMAIN f <=> k \in DOMAIN g,
           \A k \in BaseYear..y : k \in DOMAIN f => f[k] = g[k]
    PROVE  ResolveRate(y, f) = ResolveRate(y, g)
<1> DEFINE kf == KnownRates(f)
           kg == KnownRates(g)
           ef == {k \in DOMAIN kf : k <= y}
           eg == {k \in DOMAIN kg : k <= y}
<1>1. DOMAIN GenericRates = 2026..2031
  BY DEF GenericRates
<1>2. DOMAIN kf = DOMAIN f \cup 2026..2031 /\ DOMAIN kg = DOMAIN g \cup 2026..2031
  BY <1>1 DEF KnownRates, Over
<1>3. \A k \in BaseYear..y : (k \in DOMAIN kf <=> k \in DOMAIN kg) /\ (k \in DOMAIN kf => kf[k] = kg[k])
  BY <1>1, <1>2 DEF KnownRates, Over
<1>4. 2026 \in ef /\ ef \in SUBSET Int /\ 2026 \in eg /\ eg \in SUBSET Int
  BY <1>2 DEF BaseYear
<1>5. Max(ef) \in ef /\ \A k \in ef : k <= Max(ef)
  <2>1. ef \in SUBSET Int /\ ef # {} /\ \A k \in ef : k <= y
    BY <1>4
  <2> HIDE DEF ef
  <2> QED BY <2>1, GreatestNumber, Zenon
<1>6. Max(eg) \in eg /\ \A k \in eg : k <= Max(eg)
  <2>1. eg \in SUBSET Int /\ eg # {} /\ \A k \in eg : k <= y
    BY <1>4
  <2> HIDE DEF eg
  <2> QED BY <2>1, GreatestNumber, Zenon
<1>7. Max(ef) \in BaseYear..y /\ Max(eg) \in BaseYear..y
  BY <1>4, <1>5, <1>6 DEF BaseYear
<1>8. Max(ef) \in eg /\ Max(eg) \in ef
  BY <1>3, <1>5, <1>6, <1>7
<1>9. Max(ef) = Max(eg)
  BY <1>5, <1>6, <1>7, <1>8
<1>10. y \in BaseYear..y
  OBVIOUS
<1>11. /\ ResolveRate(y, f) = IF y \in DOMAIN kf THEN kf[y] ELSE kf[Max(ef)]
       /\ ResolveRate(y, g) = IF y \in DOMAIN kg THEN kg[y] ELSE kg[Max(eg)]
  BY <1>4 DEF ResolveRate
<1>12. Max(ef) \in DOMAIN kf
  BY <1>5
<1> HIDE DEF ef, eg, kf, kg
<1> QED BY <1>3, <1>7, <1>9, <1>10, <1>11, <1>12

(* So the compounded rates of a year change only with an entry of a year   *)
(* before it, from the base year on.                                       *)
LEMMA FactorReadsBack ==
    ASSUME NEW f, DOMAIN f \subseteq Int, NEW g, DOMAIN g \subseteq Int, NEW year \in Int,
           \A k \in BaseYear..year - 1 : k \in DOMAIN f <=> k \in DOMAIN g,
           \A k \in BaseYear..year - 1 : k \in DOMAIN f => f[k] = g[k]
    PROVE  Factor(year, f) = Factor(year, g)
<1>1. ASSUME NEW i \in 1..year - BaseYear
      PROVE  ResolveRate(BaseYear + i - 1, f) = ResolveRate(BaseYear + i - 1, g)
  <2>1. /\ BaseYear + i - 1 \in Int /\ BaseYear + i - 1 >= BaseYear
        /\ BaseYear..BaseYear + i - 1 \subseteq BaseYear..year - 1
    BY DEF BaseYear
  <2>2. \A k \in BaseYear..BaseYear + i - 1 : k \in DOMAIN f <=> k \in DOMAIN g
    BY <2>1
  <2>3. \A k \in BaseYear..BaseYear + i - 1 : k \in DOMAIN f => f[k] = g[k]
    BY <2>1
  <2> QED BY <2>1, <2>2, <2>3, RateReadsBack
<1> QED BY <1>1 DEF Factor

(* The months of a category, whatever the rates.                           *)
LEMMA MonthsOfCategory ==
    ASSUME NEW c, NEW spans, NEW f, NEW g,
           \A p \in Phases : \E a \in Nat, b \in Int :
              spans[p] = <<a, b>> /\ b <= FirstDay(<<LastYear, 12>>)
    PROVE  /\ DOMAIN Contributions(c, spans, f) = DOMAIN Contributions(c, spans, g)
           /\ \A mo \in DOMAIN Contributions(c, spans, f) :
                 /\ mo[1] \in Int
                 /\ Contributions(c, spans, f)[mo].part = Contributions(c, spans, g)[mo].part
                 /\ Contributions(c, spans, f)[mo].factor =
                       IF c \in Static THEN <<>> ELSE Factor(mo[1], f)
<1> DEFINE on    == {q \in Phases : <<c, q>> \in plan.cells /\ spans[q][1] < spans[q][2]}
           cells == {pm \in UNION {{q} \X Walked(spans[q]) : q \in on} :
                        Overlap(spans[pm[1]], pm[2]) > 0}
           part(mo) == [q \in {r \in Phases : <<r, mo>> \in cells} |->
                            <<Overlap(spans[q], mo), spans[q][2] - spans[q][1]>>]
<1>1. ASSUME NEW h
      PROVE  Contributions(c, spans, h) =
                [mo \in {pm[2] : pm \in cells} |->
                    [part |-> part(mo), factor |-> IF c \in Static THEN <<>> ELSE Factor(mo[1], h)]]
  BY DEF Contributions
<1>2. ASSUME NEW pm \in cells PROVE pm[2][1] \in Int
  <2>1. PICK q \in on : pm \in {q} \X Walked(spans[q]) /\ Overlap(spans[pm[1]], pm[2]) > 0
    OBVIOUS
  <2>2. PICK a \in Nat, b \in Int : spans[q] = <<a, b>> /\ b <= FirstDay(<<LastYear, 12>>)
    BY <2>1
  <2>3. a < b /\ pm[1] = q /\ pm[2] \in {mo \in Walked(<<a, b>>) : Overlap(<<a, b>>, mo) > 0}
    BY <2>1, <2>2
  <2>4. pm[2] \in Calendar
    BY <2>2, <2>3, MonthsOfSpan DEF Shares
  <2> QED BY <2>4, CalendarAssumption DEF Calendar
<1>3. /\ DOMAIN Contributions(c, spans, f) = {pm[2] : pm \in cells}
      /\ DOMAIN Contributions(c, spans, g) = {pm[2] : pm \in cells}
  BY <1>1, Zenon
<1> HIDE DEF cells, part
<1>4. ASSUME NEW mo \in {pm[2] : pm \in cells}
      PROVE  /\ mo[1] \in Int
             /\ Contributions(c, spans, f)[mo].part = part(mo)
             /\ Contributions(c, spans, g)[mo].part = part(mo)
             /\ Contributions(c, spans, f)[mo].factor =
                   IF c \in Static THEN <<>> ELSE Factor(mo[1], f)
  <2>1. /\ Contributions(c, spans, f)[mo] =
             [part |-> part(mo), factor |-> IF c \in Static THEN <<>> ELSE Factor(mo[1], f)]
        /\ Contributions(c, spans, g)[mo] =
             [part |-> part(mo), factor |-> IF c \in Static THEN <<>> ELSE Factor(mo[1], g)]
    BY <1>1
  <2> QED BY <1>2, <2>1
<1> QED BY <1>3, <1>4
-----------------------------------------------------------------------------
(* One override moves the rates of later years than its own, and a due     *)
(* date that stays where it is leaves the months alone.                    *)
LEMMA OverrideStep ==
    ASSUME StaffInv, [Next]_vars, NEW c \in Categories, due' = due
    PROVE  /\ DOMAIN demand[c]' = DOMAIN demand[c]
           /\ \A mo \in DOMAIN demand[c] :
                 /\ demand[c][mo].part' = demand[c][mo].part
                 /\ demand[c][mo].factor' # demand[c][mo].factor =>
                       /\ c \notin Static
                       /\ \E y \in DOMAIN rates' :
                             /\ BaseYear <= y /\ y < mo[1]
                             /\ y \in DOMAIN rates => rates'[y] # rates[y]
<1>1. CASE demand' = demand
  BY <1>1
<1>2. ASSUME NEW d \in DueDates \cup {NoDate}, MoveDue(d) PROVE FALSE
  BY <1>2 DEF MoveDue
<1>3. ASSUME NEW y \in OverrideYears, NEW r \in Rates, PutEscalationRate(y, r), dates # <<>>
      PROVE  /\ DOMAIN demand'[c] = DOMAIN demand[c]
             /\ \A mo \in DOMAIN demand[c] :
                   /\ demand'[c][mo].part = demand[c][mo].part
                   /\ demand'[c][mo].factor # demand[c][mo].factor =>
                         /\ c \notin Static
                         /\ y \in DOMAIN rates' /\ BaseYear <= y /\ y < mo[1]
                         /\ y \in DOMAIN rates => rates'[y] # rates[y]
  <2>1. due # NoDate
    BY <1>3 DEF StaffInv, Dates
  <2>2. Phased /\ dates = PhaseDates(due)
    BY <2>1, WhenPhased
  <2>3. \A p \in Phases : \E a \in Nat, b \in Int :
           dates[p] = <<a, b>> /\ b <= FirstDay(<<LastYear, 12>>)
    <3> SUFFICES ASSUME NEW p \in Phases
                 PROVE  \E a \in Nat, b \in Int : dates[p] = <<a, b>> /\ b <= FirstDay(<<LastYear, 12>>)
      OBVIOUS
    <3> QED BY <2>2, PhaseDays
  <2>4. /\ demand[c] = Contributions(c, dates, rates)
        /\ demand'[c] = Contributions(c, dates, rates')
    BY <1>3 DEF StaffInv, PutEscalationRate, Demand
  <2>5. /\ DOMAIN demand'[c] = DOMAIN demand[c]
        /\ \A mo \in DOMAIN demand[c] :
              /\ mo[1] \in Int /\ demand'[c][mo].part = demand[c][mo].part
              /\ demand[c][mo].factor = IF c \in Static THEN <<>> ELSE Factor(mo[1], rates)
    BY <2>3, <2>4, MonthsOfCategory
  <2>6. \A mo \in DOMAIN demand[c] :
           demand'[c][mo].factor = IF c \in Static THEN <<>> ELSE Factor(mo[1], rates')
    BY <2>3, <2>4, <2>5, MonthsOfCategory
  <2>7. /\ OverrideYears \subseteq Int /\ y \in Int
        /\ DOMAIN rates \subseteq Int /\ DOMAIN rates' = DOMAIN rates \cup {y}
        /\ DOMAIN rates' \subseteq Int
        /\ \A k \in DOMAIN rates : k # y => rates'[k] = rates[k]
    <3>1. OverrideYears \subseteq Int
      BY StaffingAssumption
    <3>2. DOMAIN rates \subseteq OverrideYears
      BY DEF StaffInv
    <3>3. rates' = Over([k \in {y} |-> r], rates)
      BY <1>3 DEF PutEscalationRate
    <3>4. DOMAIN rates' = DOMAIN rates \cup {y} /\ \A k \in DOMAIN rates : k # y => rates'[k] = rates[k]
      BY <3>3 DEF Over
    <3> QED BY <3>1, <3>2, <3>4
  <2>8. ASSUME NEW mo \in DOMAIN demand[c], demand'[c][mo].factor # demand[c][mo].factor
        PROVE  /\ c \notin Static
               /\ y \in DOMAIN rates' /\ BaseYear <= y /\ y < mo[1]
               /\ y \in DOMAIN rates => rates'[y] # rates[y]
    <3>1. c \notin Static /\ Factor(mo[1], rates') # Factor(mo[1], rates) /\ mo[1] \in Int
      BY <2>5, <2>6, <2>8
    <3>2. CASE y \notin BaseYear..mo[1] - 1
      <4>1. \A k \in BaseYear..mo[1] - 1 : k \in DOMAIN rates' <=> k \in DOMAIN rates
        BY <2>7, <3>2
      <4>2. \A k \in BaseYear..mo[1] - 1 : k \in DOMAIN rates' => rates'[k] = rates[k]
        BY <2>7, <3>2
      <4>3. Factor(mo[1], rates') = Factor(mo[1], rates)
        BY <2>7, <3>1, <4>1, <4>2, FactorReadsBack, Zenon
      <4> QED BY <3>1, <4>3
    <3>3. CASE y \in DOMAIN rates /\ rates'[y] = rates[y]
      <4>1. \A k \in BaseYear..mo[1] - 1 : k \in DOMAIN rates' <=> k \in DOMAIN rates
        BY <2>7, <3>3
      <4>2. \A k \in BaseYear..mo[1] - 1 : k \in DOMAIN rates' => rates'[k] = rates[k]
        BY <2>7, <3>3
      <4>3. Factor(mo[1], rates') = Factor(mo[1], rates)
        BY <2>7, <3>1, <4>1, <4>2, FactorReadsBack, Zenon
      <4> QED BY <3>1, <4>3
    <3>4. CASE y \in BaseYear..mo[1] - 1 /\ ~(y \in DOMAIN rates /\ rates'[y] = rates[y])
      <4>1. BaseYear <= y /\ y < mo[1]
        BY <3>1, <3>4 DEF BaseYear
      <4> QED BY <2>7, <3>1, <3>4, <4>1
    <3> QED BY <3>2, <3>3, <3>4
  <2> QED BY <2>5, <2>8
<1>4. ASSUME NEW y \in OverrideYears, NEW r \in Rates, PutEscalationRate(y, r), dates = <<>>
      PROVE  demand' = demand
  BY <1>4 DEF PutEscalationRate, StaffInv, Demand
<1>5. CASE UNCHANGED vars
  BY <1>1, <1>5 DEF vars
<1>6. CASE \E y \in OverrideYears, r \in Rates : PutEscalationRate(y, r)
  BY <1>1, <1>3, <1>4, <1>6
<1> QED BY <1>2, <1>5, <1>6 DEF Next

(* Overriding a year's rate changes the figures of later years alone, none *)
(* of a static category, and none if the year is before the base year      *)
(* (staffing_escalation.py:31-58).                                         *)
THEOREM OverridesReachForward == Spec => OverrideReachesOnlyLaterYears
<1> DEFINE Reaches ==
        \A c \in Categories : due' = due =>
          /\ DOMAIN demand[c]' = DOMAIN demand[c]
          /\ \A mo \in DOMAIN demand[c] :
                /\ demand[c][mo].part' = demand[c][mo].part
                /\ demand[c][mo].factor' # demand[c][mo].factor =>
                      /\ c \notin Static
                      /\ \E y \in DOMAIN rates' :
                            /\ BaseYear <= y /\ y < mo[1]
                            /\ y \in DOMAIN rates => rates'[y] # rates[y]
<1>1. StaffInv /\ [Next]_vars => Reaches
  BY OverrideStep
<1>2. Spec => [][Reaches]_vars
  <2> HIDE DEF Reaches
  <2> QED BY <1>1, Invariant, PTL DEF Spec
<1> QED BY <1>2 DEF OverrideReachesOnlyLaterYears
=============================================================================
