------------------------------- MODULE Validate -------------------------------
(***************************************************************************)
(* What Go makes of one candidate of the model (internal/extract/validate.go): *)
(* the date it means, the dates of a series, and the reasons to review it.  *)
(***************************************************************************)
EXTENDS Calendar

FarFuture == 270                \* farFutureThreshold, in days of 24 h: an hour off across a clock change
MaxRecurrence == 52             \* maxRecurrenceOccurrences
NoDate == 0                     \* resolved_date is NULL
NoClaim == -1                   \* no weekday_claim
BadClaim == 7                   \* a weekday_claim that is no weekday
Single == [freq |-> "none", count |-> 0]    \* no recurrence

\* What the field date can hold: "d.m." with or without a year (0: without), a
\* word for today or one of the two days after it, or anything else.
RawDate ==
    [kind : {"date"}, day : Nat, month : Nat, year : Nat]
        \cup [kind : {"word"}, offset : 0 .. 2]
        \cup [kind : {"other"}]

\* What the model may answer; the response schema is not relied on.
Candidate ==
    [date : RawDate, claim : NoClaim .. BadClaim, audience : STRING,
     rec : {Single} \cup [freq : STRING \ {"none"}, count : Int]]

-----------------------------------------------------------------------------
Exists(y, m, d) == d <= MonthLength(y, m)

\* parseDateRaw; a number out of range leaves the date unparsed.
ParseDateRaw(raw) ==
    /\ raw.kind = "date"
    /\ raw.month \in 1 .. 12 /\ raw.day \in 1 .. 31

\* Bug: the date in the sent year, past or not.
ResolveInSentYear(anchor, d, m, y) ==
    LET year == IF y # 0 THEN y ELSE YearOf(anchor)
    IN  IF Exists(year, m, d) THEN Date(year, m, d) ELSE NoDate

\* resolveDate: an explicit year counts; else the sent year, or the next one if
\* the date is past.  NoDate stands for valid = false: neither is looked beyond.
ResolveDate(anchor, d, m, y) ==
    LET sent == YearOf(anchor)
        year == CASE y # 0 -> y
                  [] y = 0 /\ Exists(sent, m, d) /\ Date(sent, m, d) < anchor -> sent + 1
                  [] OTHER -> sent
    IN  IF Exists(year, m, d) THEN Date(year, m, d) ELSE NoDate

\* Bug: each date of a monthly series is stepped from a month of 30 days.
StepByThirty(base, freq, n) ==
    CASE freq = "daily"    -> AddDays(base, n)
      [] freq = "biweekly" -> AddDays(base, 14 * n)
      [] freq = "monthly"  -> AddDays(base, 30 * n)
      [] OTHER             -> AddDays(base, 7 * n)

\* stepDate: the n-th date of a series.
StepDate(base, freq, n) ==
    CASE freq = "daily"    -> AddDays(base, n)
      [] freq = "biweekly" -> AddDays(base, 14 * n)
      [] freq = "monthly"  -> AddMonths(base, n)
      [] OTHER             -> AddDays(base, 7 * n)

Reason == {"audience", "unreal", "unparsed", "claim", "weekday", "weekend", "far",
           "incomplete", "capped"}

\* Bug: a claim that cannot be read is not compared, and so not flagged; nor is
\* a date too far away.
ChecksWeekdayOnly(dated, anchor, claim, date) ==
    {r \in Reason :
        \/ r = "weekday" /\ claim \in 0 .. 6 /\ claim # Weekday(date)
        \/ r = "weekend" /\ Weekday(date) \in Weekend}

\* applyDateChecks, per occurrence; without a sent time nothing is far.
DateChecks(dated, anchor, claim, date) ==
    {r \in Reason :
        \/ r = "claim" /\ claim = BadClaim
        \/ r = "weekday" /\ claim \in 0 .. 6 /\ claim # Weekday(date)
        \/ r = "weekend" /\ Weekday(date) \in Weekend
        \/ r = "far" /\ dated /\ date - anchor > FarFuture}

-----------------------------------------------------------------------------
(* BuildEvent.                                                              *)

Series(c) == c.rec # Single /\ c.rec.freq # "" /\ c.rec.count # 0

\* The date of the first occurrence, NoDate if there is none to be had.
FirstDate(anchor, raw) ==
    CASE ParseDateRaw(raw)  -> ResolveDate(anchor, raw.day, raw.month, raw.year)
      [] raw.kind = "word"  -> AddDays(anchor, raw.offset)
      [] OTHER              -> NoDate

\* make([]Event, 0, count): the count is bounded above only.
BuildPanics(anchor, c) ==
    FirstDate(anchor, c.date) # NoDate /\ Series(c) /\ c.rec.count < 0

\* What is wrong with a candidate as a whole.
GeneralReasons(first, c) ==
    {r \in Reason :
        \/ r = "audience" /\ c.audience \notin {"child", "guardians"}
        \/ r = "unreal" /\ first = NoDate /\ ParseDateRaw(c.date)
        \/ r = "unparsed" /\ first = NoDate /\ ~ParseDateRaw(c.date)
        \/ r = "incomplete" /\ first # NoDate /\ c.rec # Single /\ ~Series(c)
        \/ r = "capped" /\ first # NoDate /\ Series(c) /\ c.rec.count > MaxRecurrence}

\* One event per occurrence; a candidate is never dropped, only flagged.
BuildEvent(anchor, dated, c) ==
    LET first == FirstDate(anchor, c.date)
        series == first # NoDate /\ Series(c)
        number == CASE ~series                                  -> 1
                    [] series /\ c.rec.count > MaxRecurrence    -> MaxRecurrence
                    [] OTHER                                    -> c.rec.count
        date(i) == IF i = 1 THEN first ELSE StepDate(first, c.rec.freq, i - 1)
    IN  [i \in 1 .. number |->
            [date    |-> date(i),
             reasons |-> GeneralReasons(first, c) \cup
                         IF first = NoDate THEN {} ELSE DateChecks(dated, anchor, c.claim, date(i))]]
=============================================================================
