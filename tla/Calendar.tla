------------------------------- MODULE Calendar -------------------------------
(***************************************************************************)
(* Civil dates as Go's package time computes them (external): a date is    *)
(* the number of its day, day 1 being Monday, 1 January of the year 1.     *)
(***************************************************************************)
EXTENDS Integers

Leap(y) == y % 4 = 0 /\ (y % 100 # 0 \/ y % 400 = 0)

MonthLength(y, m) ==
    CASE m = 2 -> IF Leap(y) THEN 29 ELSE 28
      [] m \in {4, 6, 9, 11} -> 30
      [] OTHER -> 31

\* Days of the years before y.
BeforeYear(y) == 365 * (y - 1) + (y - 1) \div 4 - (y - 1) \div 100 + (y - 1) \div 400

\* Days of the months before m in a common year.
Cumulative == <<0, 31, 59, 90, 120, 151, 181, 212, 243, 273, 304, 334>>

BeforeMonth(y, m) == Cumulative[m] + IF m > 2 /\ Leap(y) THEN 1 ELSE 0

\* time.Date: months and days out of range are carried over.
Date(y, m, d) ==
    LET year  == y + (m - 1) \div 12
        month == ((m - 1) % 12) + 1
    IN  BeforeYear(year) + BeforeMonth(year, month) + d

YearOf(n) == CHOOSE y \in n \div 366 .. n \div 365 + 1 :
                 BeforeYear(y) < n /\ n <= BeforeYear(y + 1)
MonthOf(n) == LET y == YearOf(n) IN
              CHOOSE m \in 1 .. 12 :
                 LET k == n - BeforeYear(y) - BeforeMonth(y, m) IN 1 <= k /\ k <= MonthLength(y, m)
DayOf(n) == n - BeforeYear(YearOf(n)) - BeforeMonth(YearOf(n), MonthOf(n))

\* time.Time.AddDate, for days and for months.
AddDays(n, k) == n + k
AddMonths(n, k) == Date(YearOf(n), MonthOf(n) + k, DayOf(n))

\* time.Weekday: Sunday is 0.
Weekday(n) == n % 7
Weekend == {0, 6}
=============================================================================
