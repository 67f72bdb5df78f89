------------------------------- MODULE DateExpr -------------------------------
(***************************************************************************)
(* What `wilmabridge events --on` asks for (Range of internal/dateexpr).   *)
(***************************************************************************)
EXTENDS Calendar

Expression == {"today", "tomorrow", "this week", "next week"}

\* Bug: Go's week, which begins on Sunday.
RangeFromSunday(expr, today) ==
    LET sunday == AddDays(today, - Weekday(today))
        first  == CASE expr = "today"     -> today
                    [] expr = "tomorrow"  -> AddDays(today, 1)
                    [] expr = "this week" -> sunday
                    [] expr = "next week" -> AddDays(sunday, 7)
    IN  [from |-> first,
         to   |-> IF expr \in {"this week", "next week"} THEN AddDays(first, 6) ELSE first]

\* The first and the last day of an expression; weeks run from Monday on.
Range(expr, today) ==
    LET sinceMonday == (Weekday(today) + 6) % 7
        monday == AddDays(today, - sinceMonday)
        first  == CASE expr = "today"     -> today
                    [] expr = "tomorrow"  -> AddDays(today, 1)
                    [] expr = "this week" -> monday
                    [] expr = "next week" -> AddDays(monday, 7)
    IN  [from |-> first,
         to   |-> IF expr \in {"this week", "next week"} THEN AddDays(first, 6) ELSE first]

\* LatestEvents' filter on resolved_date: a row without a date is never shown.
Shown(date, expr, today) ==
    LET r == Range(expr, today) IN r.from <= date /\ date <= r.to
=============================================================================
