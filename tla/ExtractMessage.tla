--------------------------- MODULE ExtractMessage ---------------------------
(***************************************************************************)
(* One message on its way from Wilma to `events --on`: it is sent at some  *)
(* hour in Helsinki, kept in the database (or piped), given to the model    *)
(* (Gemini), and what the model answers is dated and checked (Validate).    *)
(***************************************************************************)
EXTENDS Gemini, Validate, DateExpr

CONSTANTS
    Messages,   \* [day, hour, offset, dated]: the day and hour in Helsinki,
                \* hours Helsinki is ahead of UTC, whether the timestamp parses;
                \* day 1 is the zero time of a timestamp that does not parse
    Candidates  \* what the model may answer

ASSUME ExtractAssumption ==
    /\ Messages \subseteq [day : Nat \ {0, 1}, hour : 0 .. 23, offset : {2, 3}, dated : BOOLEAN]
    /\ Candidates \subseteq Candidate

VARIABLES
    message,
    via,        \* "stdin" or "database"
    answer,     \* the candidate
    events,     \* the events built from it
    end         \* how the call ended for its caller

vars == <<geminiVars, message, via, answer, events, end>>

NoAnswer == [audience |-> "none"]

Init ==
    /\ GeminiInit
    /\ message \in Messages
    /\ via \in {"stdin", "database"}
    /\ answer = NoAnswer
    /\ events = <<>>
    /\ end = "none"

-----------------------------------------------------------------------------
(* Reading the message.                                                     *)

Night(msg) == msg.hour < msg.offset     \* in UTC it is still the day before

\* The day the dates are counted from.  The database holds UTC, and a time read
\* back stays in UTC; a time that did not parse is the zero time.
Anchor(msg, from) ==
    CASE ~msg.dated                                     -> Date(1, 1, 1)
      [] msg.dated /\ from = "database" /\ Night(msg)     -> AddDays(msg.day, -1)
      [] msg.dated /\ ~(from = "database" /\ Night(msg))  -> msg.day

-----------------------------------------------------------------------------
Under == end = "none"

GeminiStep ==
    /\ Under
    /\ GenerateAction
    /\ UNCHANGED <<message, via, answer, events, end>>

\* The loop over lines of stdin calls with a context that nothing cancels.
Tell ==
    /\ via = "database"
    /\ Signal
    /\ UNCHANGED <<message, via, answer, events, end>>

\* Generate has returned: its locals are gone.
Return(how) ==
    /\ end' = how
    /\ gpc' = "over"
    /\ attempt' = 0 /\ requests' = 0
    /\ UNCHANGED <<budget, stopping, message, via>>

\* ExtractMessage: the text is decoded and each candidate becomes events.
Decode ==
    /\ Under /\ gpc = "reply"
    /\ \/ /\ gpc' = "error"                 \* not JSON
          /\ UNCHANGED <<budget, attempt, requests, stopping, message, via, answer, events, end>>
       \/ \E c \in Candidates :
             /\ answer' = c
             /\ \/ /\ BuildPanics(Anchor(message, via), c)
                   /\ Return("panic")
                   /\ UNCHANGED events
                \/ /\ ~BuildPanics(Anchor(message, via), c)
                   /\ events' = BuildEvent(Anchor(message, via), message.dated, c)
                   /\ Return("answered")

\* Bug: a call that a shutdown has cut is charged like any other.
ChargeAnyway ==
    /\ Under /\ gpc = "error"
    /\ Return("failed")
    /\ UNCHANGED <<answer, events>>

\* extractPass after an error: ctx is asked only now.  The loop over stdin takes
\* the next line after a failure, and charges it to nothing.
Judge ==
    /\ Under /\ gpc = "error"
    /\ Return(IF stopping THEN "cut" ELSE "failed")
    /\ UNCHANGED <<answer, events>>

\* An unrecovered panic in backoff ends the process.
Die ==
    /\ Under /\ gpc = "panic"
    /\ Return("panic")
    /\ UNCHANGED <<answer, events>>

CallStep == GeminiStep \/ Decode \/ Judge \/ Die

Next == CallStep \/ Tell

\* Replies and waits come to an end: requests time out after 60 s.
Spec == Init /\ [][Next]_vars /\ WF_vars(CallStep)

-----------------------------------------------------------------------------
TypeOK ==
    /\ budget \in Budgets
    /\ attempt \in Nat /\ requests \in 0 .. attempt
    /\ gpc \in GenerateStep
    /\ stopping \in BOOLEAN
    /\ message \in Messages
    /\ via \in {"stdin", "database"}
    /\ answer \in Candidates \cup {NoAnswer}
    /\ \A i \in DOMAIN events : events[i].reasons \subseteq Reason
    /\ end \in {"none", "answered", "failed", "cut", "panic"}

\* A call keeps what the extraction passes take it for.
Call == INSTANCE ModelCall
ImplementsModelCall == Call!CallSpec

\* Every wait between two requests takes 0.5 s to 8 s, and half of that at most
\* on top; only --max-retries of 37 or more lets its doubling wrap around, which
\* panics instead of waiting.
WaitsBounded ==
    /\ gpc = "wait" => Backoff(attempt) \in 2 .. Cap
    /\ gpc = "panic" => budget >= 37

-----------------------------------------------------------------------------
(* What the dates of an answer mean to someone in Helsinki.                 *)

DayBefore == via = "database" /\ message.dated /\ Night(message)
Faithful  == message.dated /\ ~DayBefore
Answered  == end = "answered"

\* The days from `day` on that are written "d.m.".
Written(d, m, day) ==
    {n \in {Date(y, m, d) : y \in {z \in YearOf(day) .. YearOf(day) + 8 : Exists(z, m, d)}} : n >= day}

\* "Huomenna" is the day after the message was sent, and a date without a year
\* the next day so written -- where the sent time survives the database with
\* its Helsinki day: a message sent between midnight and 2 or 3 o'clock and
\* extracted from the database is dated from the day before.  Only 29.2. may be
\* given up although there is one to come.
RightDate ==
    Answered /\ message.dated =>
        LET raw == answer.date  date == events[1].date IN
        /\ raw.kind = "word" =>
              date = message.day + raw.offset - (IF DayBefore THEN 1 ELSE 0)
        /\ raw.kind = "date" /\ Faithful =>
              /\ raw.year = 0 /\ date # NoDate =>
                    LET next == Written(raw.day, raw.month, message.day)
                    IN  date \in next /\ \A n \in next : date <= n
              /\ raw.year = 0 /\ date = NoDate /\ ParseDateRaw(raw) =>
                    \/ Written(raw.day, raw.month, message.day) = {}
                    \/ raw.day = 29 /\ raw.month = 2

\* What needs no review is a day of the school week in the nine months after the
\* message was sent, and the weekday the message claims, unless the message
\* itself gave the year or its own time is not known.
UnflaggedIsPlausible ==
    \A i \in DOMAIN events : events[i].reasons = {} =>
        /\ events[i].date # NoDate
        /\ Weekday(events[i].date) \in 1 .. 5
        /\ answer.claim \in {NoClaim, Weekday(events[i].date)}
        /\ Faithful /\ (answer.date.kind = "date" => answer.date.year = 0) =>
              events[i].date \in message.day .. message.day + FarFuture

Months(n) == 12 * YearOf(n) + MonthOf(n)

\* The n-th date of a series lies n - 1 steps after the first, later than the
\* one before it; a monthly one in its month, or in the first days of the next
\* when the month is too short for it.
SeriesGoesOn ==
    \A i \in DOMAIN events : events[1].date # NoDate =>
        LET first == events[1].date  date == events[i].date IN
        /\ i > 1 => events[i - 1].date < date
        /\ answer.rec.freq \in {"daily", "weekly", "biweekly"} =>
              (date - first) % (CASE answer.rec.freq = "daily"  -> 1
                                  [] answer.rec.freq = "weekly" -> 7
                                  [] OTHER                      -> 14) = 0
        /\ answer.rec.freq = "monthly" =>
              \/ Months(date) = Months(first) + i - 1 /\ DayOf(date) = DayOf(first)
              \/ Months(date) = Months(first) + i /\ DayOf(date) <= 3 /\ DayOf(first) >= 29

Week(n) == (n - 1) \div 7      \* day 1 was a Monday

\* `events --on` shows an event on its day under "today", the day before under
\* "tomorrow", and in its week and the week before under "this" and "next
\* week", across the ends of months and years, and at no other time.
ShownWhenDue ==
    Answered =>
        \A i \in DOMAIN events : \A now \in message.day .. message.day + 8 :
            LET date == events[i].date IN
            /\ Shown(date, "today", now) <=> date = now
            /\ Shown(date, "tomorrow", now) <=> date = now + 1
            /\ Shown(date, "this week", now) <=> Week(date) = Week(now)
            /\ Shown(date, "next week", now) <=> Week(date) = Week(now) + 1
=============================================================================
