--------------------------- MODULE CalendarProofs ---------------------------
(***************************************************************************)
(* Theorems about the calendar: every day from day 1 on has exactly one    *)
(* year, month and day of the month, and Date finds the day from them.     *)
(***************************************************************************)
EXTENDS Calendar, WellFoundedInduction, TLAPS

Year == Nat \ {0}
Month == 1 .. 12
DayNumber == Nat \ {0}

-----------------------------------------------------------------------------
(* Years.                                                                   *)

LEMMA YearStart == \A y \in Year : BeforeYear(y) \in Nat
BY DEF BeforeYear, Year

LEMMA YearLength ==
    ASSUME NEW y \in Year
    PROVE  BeforeYear(y + 1) = BeforeYear(y) + IF Leap(y) THEN 366 ELSE 365
<1>1. y \div 4 = (y - 1) \div 4 + IF y % 4 = 0 THEN 1 ELSE 0
  BY DEF Year
<1>2. y \div 100 = (y - 1) \div 100 + IF y % 100 = 0 THEN 1 ELSE 0
  BY DEF Year
<1>3. y \div 400 = (y - 1) \div 400 + IF y % 400 = 0 THEN 1 ELSE 0
  BY DEF Year
<1>4. (y % 400 = 0 => y % 100 = 0) /\ (y % 100 = 0 => y % 4 = 0)
  BY DEF Year
<1>5. (y + 1) - 1 = y
  BY DEF Year
<1> QED
  BY <1>1, <1>2, <1>3, <1>4, <1>5 DEF BeforeYear, Leap, Year

LEMMA YearsInOrder ==
    ASSUME NEW y \in Year, NEW z \in Year, y < z
    PROVE  BeforeYear(y + 1) <= BeforeYear(z)
BY DEF BeforeYear, Year

\* A day lies in one year only.
LEMMA YearIs ==
    ASSUME NEW n \in Int, NEW y \in Year,
           BeforeYear(y) < n, n <= BeforeYear(y + 1)
    PROVE  YearOf(n) = y
<1>1. y \in n \div 366 .. n \div 365 + 1
  BY DEF BeforeYear, Year
<1>2. ASSUME NEW z \in n \div 366 .. n \div 365 + 1,
             BeforeYear(z) < n, n <= BeforeYear(z + 1)
      PROVE  z = y
  <2>1. n > 0
    BY YearStart
  <2>2. z \in Int /\ z >= 0
    BY <2>1
  <2>3. z # 0
    BY <1>2, <2>1 DEF BeforeYear
  <2>4. z \in Year
    BY <2>2, <2>3 DEF Year
  <2>5. CASE z < y
    BY <1>2, <2>4, <2>5, YearsInOrder, YearStart DEF Year
  <2>6. CASE y < z
    BY <1>2, <2>4, <2>6, YearsInOrder, YearStart DEF Year
  <2> QED
    BY <2>4, <2>5, <2>6 DEF Year
<1> QED
  BY <1>1, <1>2 DEF YearOf

\* The first year that does not end before day n is the one it lies in.
LEMMA YearOfDay ==
    ASSUME NEW n \in DayNumber
    PROVE  YearOf(n) \in Year /\ BeforeYear(YearOf(n)) < n /\ n <= BeforeYear(YearOf(n) + 1)
<1> DEFINE Late == {y \in Year : n <= BeforeYear(y + 1)}
<1>1. n \in Late
  BY DEF BeforeYear, Year, DayNumber
<1>2. PICK y \in Late : \A z \in Late : <<z, y>> \notin OpToRel(<, Nat)
  BY <1>1, WFMin, NatLessThanWellFounded DEF Year
<1>3. y \in Year /\ n <= BeforeYear(y + 1)
  OBVIOUS
<1>4. BeforeYear(y) < n
  <2>1. CASE y = 1
    BY <2>1 DEF BeforeYear, DayNumber
  <2>2. CASE y # 1
    <3>1. y - 1 \in Year /\ y - 1 < y /\ (y - 1) + 1 = y
      BY <1>3, <2>2 DEF Year
    <3>2. <<y - 1, y>> \in OpToRel(<, Nat)
      BY <1>3, <3>1 DEF OpToRel, Year
    <3>3. ~(n <= BeforeYear(y))
      BY <1>2, <3>1, <3>2
    <3> QED
      BY <1>3, <3>3, YearStart DEF DayNumber
  <2> QED
    BY <2>1, <2>2
<1>5. YearOf(n) = y
  BY <1>3, <1>4, YearIs DEF DayNumber
<1> QED
  BY <1>3, <1>4, <1>5

-----------------------------------------------------------------------------
(* Months.                                                                  *)

LEMMA MonthStart ==
    ASSUME NEW y \in Year
    PROVE  /\ BeforeMonth(y, 1) = 0
           /\ \A m \in 1 .. 11 : BeforeMonth(y, m + 1) = BeforeMonth(y, m) + MonthLength(y, m)
           /\ BeforeYear(y + 1) = BeforeYear(y) + BeforeMonth(y, 12) + MonthLength(y, 12)
<1>1. BeforeYear(y + 1) = BeforeYear(y) + BeforeMonth(y, 12) + MonthLength(y, 12)
  BY YearLength, YearStart DEF BeforeMonth, Cumulative, MonthLength
<1>2. ASSUME NEW m \in 1 .. 11
      PROVE  BeforeMonth(y, m + 1) = BeforeMonth(y, m) + MonthLength(y, m)
  BY DEF BeforeMonth, Cumulative, MonthLength
<1> QED
  BY <1>1, <1>2 DEF BeforeMonth, Cumulative

LEMMA MonthSizes ==
    ASSUME NEW y \in Year, NEW m \in Month
    PROVE  /\ BeforeMonth(y, m) \in Nat
           /\ MonthLength(y, m) \in 28 .. 31
           /\ m # 2 => MonthLength(y, m) >= 30
BY DEF BeforeMonth, Cumulative, MonthLength, Month

LEMMA MonthsInOrder ==
    ASSUME NEW y \in Year, NEW m \in Month, NEW k \in Month, m < k
    PROVE  BeforeMonth(y, m) + MonthLength(y, m) <= BeforeMonth(y, k)
BY DEF BeforeMonth, Cumulative, MonthLength, Month

LEMMA LastOfMonth ==
    ASSUME NEW y \in Year, NEW m \in Month
    PROVE  BeforeYear(y) + BeforeMonth(y, m) + MonthLength(y, m) <= BeforeYear(y + 1)
<1>1. CASE m = 12
  BY <1>1, MonthStart, MonthSizes, YearStart
<1>2. CASE m # 12
  <2>1. BeforeMonth(y, m) + MonthLength(y, m) <= BeforeMonth(y, 12)
    BY <1>2, MonthsInOrder DEF Month
  <2> QED
    BY <2>1, MonthStart, MonthSizes, YearStart DEF Month
<1> QED
  BY <1>1, <1>2

\* Day d of month m of year y, as the number of its day.
Day(y, m, d) == BeforeYear(y) + BeforeMonth(y, m) + d

LEMMA DateInYear ==
    ASSUME NEW y \in Year, NEW m \in Month, NEW d \in Int
    PROVE  Date(y, m, d) = Day(y, m, d)
<1>1. (m - 1) \div 12 = 0 /\ (m - 1) % 12 = m - 1
  BY DEF Month
<1>2. y + (m - 1) \div 12 = y /\ ((m - 1) % 12) + 1 = m
  BY <1>1 DEF Year, Month
<1> QED
  BY <1>2 DEF Date, Day

\* Date, YearOf, MonthOf and DayOf agree on the days there are.
THEOREM PartsOfDate ==
    ASSUME NEW y \in Year, NEW m \in Month, NEW d \in 1 .. MonthLength(y, m)
    PROVE  /\ Date(y, m, d) \in DayNumber
           /\ YearOf(Date(y, m, d)) = y
           /\ MonthOf(Date(y, m, d)) = m
           /\ DayOf(Date(y, m, d)) = d
<1> DEFINE n == Day(y, m, d)
<1>1. n = BeforeYear(y) + BeforeMonth(y, m) + d /\ d \in Int /\ 1 <= d /\ d <= MonthLength(y, m)
      /\ BeforeYear(y) \in Nat /\ BeforeMonth(y, m) \in Nat /\ MonthLength(y, m) \in Nat
  BY YearStart, MonthSizes DEF Day
<1>2. n \in DayNumber /\ BeforeYear(y) < n
  BY <1>1 DEF DayNumber
<1>3. y + 1 \in Year /\ BeforeYear(y + 1) \in Nat
  BY YearStart DEF Year
<1>4. n <= BeforeYear(y + 1)
  BY <1>1, <1>3, LastOfMonth
<1>5. YearOf(n) = y
  BY <1>2, <1>4, YearIs DEF DayNumber
<1> DEFINE k(x) == n - BeforeYear(y) - BeforeMonth(y, x)
<1>6. MonthOf(n) = CHOOSE x \in 1 .. 12 : 1 <= k(x) /\ k(x) <= MonthLength(y, x)
  BY <1>5 DEF MonthOf
<1>7. k(m) = d
  BY <1>1
<1>8. ASSUME NEW x \in 1 .. 12, 1 <= k(x), k(x) <= MonthLength(y, x)
      PROVE  x = m
  <2>1. BeforeMonth(y, x) \in Nat /\ MonthLength(y, x) \in Nat /\ x \in Month
    BY MonthSizes DEF Month
  <2>2. CASE x < m
    <3>1. BeforeMonth(y, x) + MonthLength(y, x) <= BeforeMonth(y, m)
      BY <2>1, <2>2, MonthsInOrder
    <3> QED
      BY <1>1, <1>8, <2>1, <3>1
  <2>3. CASE m < x
    <3>1. BeforeMonth(y, m) + MonthLength(y, m) <= BeforeMonth(y, x)
      BY <2>1, <2>3, MonthsInOrder
    <3> QED
      BY <1>1, <1>8, <2>1, <3>1
  <2> QED
    BY <2>1, <2>2, <2>3 DEF Month
<1>9. MonthOf(n) = m
  <2>1. m \in 1 .. 12 /\ 1 <= k(m) /\ k(m) <= MonthLength(y, m)
    BY <1>1, <1>7 DEF Month
  <2> HIDE DEF k
  <2> QED
    BY <1>6, <1>8, <2>1
<1>10. DayOf(n) = d
  BY <1>1, <1>5, <1>9 DEF DayOf
<1> QED
  BY <1>2, <1>5, <1>9, <1>10, DateInYear

\* Every day from day 1 on is the date of its year, month and day of the month.
THEOREM DateOfParts ==
    ASSUME NEW n \in DayNumber
    PROVE  /\ YearOf(n) \in Year
           /\ MonthOf(n) \in Month
           /\ DayOf(n) \in 1 .. MonthLength(YearOf(n), MonthOf(n))
           /\ Date(YearOf(n), MonthOf(n), DayOf(n)) = n
<1> DEFINE y == YearOf(n)
<1>1. y \in Year /\ BeforeYear(y) < n /\ n <= BeforeYear(y + 1)
  BY YearOfDay
<1> HIDE DEF y
<1>2. BeforeYear(y) \in Nat
  BY <1>1, YearStart
<1>3. PICK m \in Month, d \in Int : d \in 1 .. MonthLength(y, m) /\ n = Day(y, m, d)
  <2> DEFINE Ended(x) == BeforeYear(y) + BeforeMonth(y, x) + MonthLength(y, x) < n
  <2>1. ~Ended(12)
    <3>1. n <= BeforeYear(y) + BeforeMonth(y, 12) + MonthLength(y, 12)
      BY <1>1, MonthStart
    <3>2. BeforeMonth(y, 12) \in Nat /\ MonthLength(y, 12) \in Nat
      BY <1>1, MonthSizes DEF Month
    <3> QED
      BY <1>2, <3>1, <3>2 DEF DayNumber
  <2>2. \A x \in Month : BeforeMonth(y, x) \in Nat /\ MonthLength(y, x) \in Nat
    BY <1>1, MonthSizes
  <2>3. PICK x \in Month : ~Ended(x) /\ (x = 1 \/ Ended(x - 1))
    <3> HIDE DEF Ended
    <3>1. \/ ~Ended(1) \/ \E x \in 2 .. 12 : Ended(x - 1) /\ ~Ended(x)
      BY <2>1
    <3> QED
      BY <3>1 DEF Month
  <2>4. BeforeYear(y) + BeforeMonth(y, x) < n
    <3>1. CASE x = 1
      BY <1>1, <1>2, <3>1, MonthStart
    <3>2. CASE x # 1
      <4>1. x - 1 \in 1 .. 11 /\ x - 1 \in Month /\ (x - 1) + 1 = x
        BY <3>2 DEF Month
      <4>2. BeforeMonth(y, x) = BeforeMonth(y, x - 1) + MonthLength(y, x - 1)
        BY <1>1, <4>1, MonthStart
      <4> QED
        BY <1>2, <2>2, <2>3, <3>2, <4>1, <4>2
    <3> QED
      BY <3>1, <3>2
  <2> DEFINE d == n - BeforeYear(y) - BeforeMonth(y, x)
  <2>5. d \in 1 .. MonthLength(y, x) /\ n = BeforeYear(y) + BeforeMonth(y, x) + d
    BY <1>2, <2>2, <2>3, <2>4 DEF DayNumber
  <2> QED
    BY <2>5 DEF Day
<1>4. d \in Int
  OBVIOUS
<1>5. Date(y, m, d) = n
  BY <1>1, <1>3, <1>4, DateInYear
<1>6. MonthOf(n) = m /\ DayOf(n) = d
  BY <1>1, <1>3, <1>5, PartsOfDate
<1> QED
  BY <1>1, <1>3, <1>5, <1>6 DEF y

-----------------------------------------------------------------------------
(* Months from a day on.                                                    *)

\* A day of a later year is a later day.
LEMMA DatesInOrder ==
    ASSUME NEW y \in Year, NEW z \in Year, y < z,
           NEW m \in Month, NEW d \in 1 .. MonthLength(y, m),
           NEW k \in Month, NEW e \in Nat \ {0}
    PROVE  Date(y, m, d) < Date(z, k, e)
<1>1. Date(y, m, d) = BeforeYear(y) + BeforeMonth(y, m) + d
  BY DateInYear, MonthSizes DEF Day
<1>2. Date(z, k, e) = BeforeYear(z) + BeforeMonth(z, k) + e
  BY DateInYear DEF Day
<1>3. /\ BeforeYear(y) \in Nat /\ BeforeYear(z) \in Nat
      /\ BeforeMonth(y, m) \in Nat /\ BeforeMonth(z, k) \in Nat
      /\ MonthLength(y, m) \in Nat
  BY YearStart, MonthSizes
<1>4. y + 1 \in Year /\ BeforeYear(y + 1) \in Nat
  BY YearStart DEF Year
<1>5. BeforeYear(y) + BeforeMonth(y, m) + MonthLength(y, m) <= BeforeYear(y + 1)
  BY LastOfMonth
<1>6. BeforeYear(y + 1) <= BeforeYear(z)
  BY YearsInOrder
<1>7. d \in Int /\ d <= MonthLength(y, m)
  BY <1>3
<1> QED
  BY <1>1, <1>2, <1>3, <1>4, <1>5, <1>6, <1>7

\* The months counted through, from January of the year 0 as number 1.
NthMonth(y, m) == 12 * y + m
YearOfNth(k) == (k - 1) \div 12
MonthOfNth(k) == ((k - 1) % 12) + 1

LEMMA NthMonthParts ==
    ASSUME NEW k \in Nat, k > 12
    PROVE  /\ YearOfNth(k) \in Year /\ MonthOfNth(k) \in Month
           /\ NthMonth(YearOfNth(k), MonthOfNth(k)) = k
BY DEF YearOfNth, MonthOfNth, NthMonth, Year, Month

\* What AddDate makes of a number of months: the same day of the month so many
\* months on, whether that month has such a day or not.
LEMMA MonthsLater ==
    ASSUME NEW n \in DayNumber, NEW k \in Nat
    PROVE  LET x == NthMonth(YearOf(n), MonthOf(n)) + k
           IN  /\ x \in Nat /\ x > 12
               /\ AddMonths(n, k) = Day(YearOfNth(x), MonthOfNth(x), DayOf(n))
<1> DEFINE y == YearOf(n)
           m == MonthOf(n)
           x == NthMonth(y, m) + k
<1>1. y \in Year /\ m \in Month /\ DayOf(n) \in Int
  BY DateOfParts, MonthSizes
<1> HIDE DEF y, m
<1>2. x \in Nat /\ x > 12
  BY <1>1 DEF NthMonth, Year, Month
<1>3. y + ((m + k) - 1) \div 12 = YearOfNth(x) /\ (((m + k) - 1) % 12) + 1 = MonthOfNth(x)
  <2>1. x - 1 = 12 * y + ((m + k) - 1)
    BY <1>1 DEF NthMonth, Year, Month
  <2> QED
    BY <1>1, <2>1 DEF YearOfNth, MonthOfNth, Year, Month
<1>4. AddMonths(n, k) = Date(y, m + k, DayOf(n))
  BY DEF AddMonths, y, m
<1> HIDE DEF x
<1>5. Date(y, m + k, DayOf(n)) = Day(YearOfNth(x), MonthOfNth(x), DayOf(n))
  BY <1>3, Zenon DEF Date, Day
<1> QED
  BY <1>2, <1>4, <1>5 DEF x, y, m

\* One month follows the other, at the end of a year too.
LEMMA NextMonth ==
    ASSUME NEW k \in Nat, k > 12
    PROVE  /\ Day(YearOfNth(k), MonthOfNth(k), 0) \in Nat
           /\ Day(YearOfNth(k + 1), MonthOfNth(k + 1), 0) =
                 Day(YearOfNth(k), MonthOfNth(k), 0) + MonthLength(YearOfNth(k), MonthOfNth(k))
           /\ MonthLength(YearOfNth(k), MonthOfNth(k)) \in 28 .. 31
<1> DEFINE y == YearOfNth(k)
           m == MonthOfNth(k)
<1>1. y \in Year /\ m \in Month
  BY NthMonthParts
<1>2. /\ m = 12 => YearOfNth(k + 1) = y + 1 /\ MonthOfNth(k + 1) = 1
      /\ m # 12 => YearOfNth(k + 1) = y /\ MonthOfNth(k + 1) = m + 1
  BY DEF YearOfNth, MonthOfNth
<1>3. MonthLength(y, m) \in 28 .. 31 /\ BeforeMonth(y, m) \in Nat /\ BeforeYear(y) \in Nat
  BY <1>1, MonthSizes, YearStart
<1> HIDE DEF y, m
<1>4. CASE m = 12
  <2>1. BeforeYear(y + 1) = BeforeYear(y) + BeforeMonth(y, m) + MonthLength(y, m)
    BY <1>1, <1>4, MonthStart
  <2>2. BeforeMonth(y + 1, 1) = 0 /\ BeforeYear(y + 1) \in Nat
    BY <1>1, MonthStart, YearStart DEF Year
  <2>3. Day(y + 1, 1, 0) = Day(y, m, 0) + MonthLength(y, m)
    BY <1>3, <2>1, <2>2 DEF Day
  <2>4. Day(y, m, 0) \in Nat
    BY <1>3 DEF Day
  <2> QED
    BY <1>2, <1>3, <1>4, <2>3, <2>4 DEF y, m
<1>5. CASE m # 12
  <2>1. BeforeMonth(y, m + 1) = BeforeMonth(y, m) + MonthLength(y, m)
    BY <1>1, <1>5, MonthStart DEF Month
  <2>2. Day(y, m + 1, 0) = Day(y, m, 0) + MonthLength(y, m)
    BY <1>3, <2>1 DEF Day
  <2>3. Day(y, m, 0) \in Nat
    BY <1>3 DEF Day
  <2> QED
    BY <1>2, <1>3, <1>5, <2>2, <2>3 DEF y, m
<1> QED
  BY <1>4, <1>5

\* A later month begins after the last day of an earlier one.
LEMMA LaterMonth ==
    ASSUME NEW j \in Nat, NEW k \in Nat, j > 12, j < k
    PROVE  Day(YearOfNth(j), MonthOfNth(j), MonthLength(YearOfNth(j), MonthOfNth(j)))
              <= Day(YearOfNth(k), MonthOfNth(k), 0)
<1> DEFINE y == YearOfNth(j)
           z == YearOfNth(k)
           m == MonthOfNth(j)
           l == MonthOfNth(k)
<1>1. y \in Year /\ m \in Month /\ z \in Year /\ l \in Month
  BY NthMonthParts
<1>2. y < z \/ (y = z /\ m < l)
  BY DEF YearOfNth, MonthOfNth
<1>3. /\ BeforeYear(y) \in Nat /\ BeforeYear(z) \in Nat
      /\ BeforeMonth(y, m) \in Nat /\ BeforeMonth(z, l) \in Nat /\ MonthLength(y, m) \in Nat
  BY <1>1, YearStart, MonthSizes
<1> HIDE DEF y, z, m, l
<1>4. CASE y < z
  <2>1. y + 1 \in Year /\ BeforeYear(y + 1) \in Nat /\ BeforeYear(y + 1) <= BeforeYear(z)
    BY <1>1, <1>4, YearStart, YearsInOrder DEF Year
  <2>2. BeforeYear(y) + BeforeMonth(y, m) + MonthLength(y, m) <= BeforeYear(y + 1)
    BY <1>1, LastOfMonth
  <2>3. Day(y, m, MonthLength(y, m)) <= Day(z, l, 0)
    BY <1>3, <2>1, <2>2 DEF Day
  <2> QED
    BY <2>3 DEF y, z, m, l
<1>5. CASE y = z /\ m < l
  <2>1. BeforeMonth(y, m) + MonthLength(y, m) <= BeforeMonth(z, l)
    BY <1>1, <1>5, MonthsInOrder
  <2>2. Day(y, m, MonthLength(y, m)) <= Day(z, l, 0)
    BY <1>3, <1>5, <2>1 DEF Day
  <2> QED
    BY <2>2 DEF y, z, m, l
<1> QED
  BY <1>2, <1>4, <1>5
=============================================================================
