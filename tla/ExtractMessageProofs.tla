------------------------ MODULE ExtractMessageProofs ------------------------
(***************************************************************************)
(* Theorems about a call of the model, for every --max-retries, every set  *)
(* of status codes and every candidate, and about the days `events --on`   *)
(* shows.                                                                  *)
(***************************************************************************)
EXTENDS ExtractMessage, CalendarProofs

\* Where Generate stands between its requests.
CallInv ==
    /\ attempt \in Nat /\ requests \in Nat /\ requests <= attempt
    /\ budget \in Budgets /\ budget \in Int
    /\ gpc \in {"wait", "send"} => requests < attempt
    /\ gpc \in {"wait", "send", "flight", "reply", "panic"} => attempt <= budget
    /\ gpc = "wait" => attempt >= 2
    /\ gpc \in {"flight", "reply"} => requests > 0
    /\ gpc = "panic" => attempt >= 37 /\ requests > 0
    /\ end # "none" => gpc = "over" /\ requests = 0

\* A call that has sent nothing has been told to stop, or is at its beginning.
UnsentInv ==
    requests = 0 =>
        /\ gpc = "head" => attempt = 0 \/ (attempt = 1 /\ stopping)
        /\ gpc = "wait" => stopping
        /\ gpc = "send" => attempt = 1

LEMMA PanicsLate ==
    ASSUME NEW n \in Nat, BackoffPanics(n)
    PROVE  n >= 37
BY DEF BackoffPanics, Negative, Vanishes

LEMMA CallStepInv == CallInv /\ UnsentInv /\ [Next]_vars => CallInv' /\ UnsentInv'
<1> SUFFICES ASSUME CallInv, UnsentInv, [Next]_vars
             PROVE  CallInv' /\ UnsentInv'
  OBVIOUS
<1> USE DEF CallInv, UnsentInv, Under
<1>1. CASE Under /\ NextAttempt /\ UNCHANGED end
  <2>1. gpc' = "panic" => attempt' >= 37
    BY <1>1, PanicsLate DEF NextAttempt
  <2>2. /\ attempt' = attempt + 1 /\ gpc = "head" /\ end = "none"
        /\ gpc' \in {"error", "panic", "wait", "send"}
        /\ gpc' \in {"panic", "wait"} => attempt' > 1
        /\ gpc' \in {"panic", "wait", "send"} => attempt' <= budget
        /\ gpc' = "send" => attempt' = 1
        /\ UNCHANGED <<budget, requests, stopping, end>>
    BY <1>1 DEF NextAttempt
  <2> QED
    BY <2>1, <2>2
<1>2. CASE Under /\ Wait /\ UNCHANGED end
  BY <1>2 DEF Wait
<1>3. CASE Under /\ Request /\ UNCHANGED end
  <2>1. CASE stopping /\ gpc' = "head" /\ UNCHANGED requests
    BY <1>3, <2>1 DEF Request
  <2>2. CASE ~stopping /\ gpc' = "flight" /\ requests' = requests + 1
    BY <1>3, <2>2 DEF Request
  <2> QED
    BY <1>3, <2>1, <2>2 DEF Request
<1>4. CASE Under /\ Reply /\ UNCHANGED end
  <2>1. gpc' \in {"reply", "head", "error"} /\ gpc = "flight"
        /\ UNCHANGED <<budget, attempt, requests, stopping, end>>
    BY <1>4 DEF Reply
  <2> QED
    BY <2>1
<1>5. CASE Tell
  BY <1>5 DEF Tell, Signal, generate
<1>6. ASSUME NEW how, Return(how), how # "none"
      PROVE  CallInv' /\ UnsentInv'
  BY <1>6 DEF Return
<1>7. CASE Decode
  <2>1. CASE gpc' = "error" /\ UNCHANGED <<budget, attempt, requests, stopping, end>>
    BY <1>7, <2>1 DEF Decode
  <2>2. CASE Return("panic") \/ Return("answered")
    BY <1>6, <2>2
  <2> QED
    BY <1>7, <2>1, <2>2 DEF Decode
<1>8. CASE Judge \/ Die
  BY <1>6, <1>8 DEF Judge, Die
<1>9. CASE UNCHANGED vars
  BY <1>9 DEF vars, geminiVars, generate
<1> QED
  BY <1>1, <1>2, <1>3, <1>4, <1>5, <1>7, <1>8, <1>9
     DEF Next, CallStep, GeminiStep, GenerateAction

LEMMA CallInvHolds == Spec => [](CallInv /\ UnsentInv)
<1>1. Init => CallInv /\ UnsentInv
  BY GeminiAssumption DEF Init, GeminiInit, CallInv, UnsentInv
<1> QED
  BY <1>1, CallStepInv, PTL DEF Spec

-----------------------------------------------------------------------------
(* Types.                                                                   *)

\* A candidate becomes a function of its occurrences, each with reasons.
LEMMA BuildEventType ==
    ASSUME NEW anchor, NEW known, NEW c
    PROVE  \A i \in DOMAIN BuildEvent(anchor, known, c) :
              BuildEvent(anchor, known, c)[i].reasons \subseteq Reason
<1>1. \A first : GeneralReasons(first, c) \subseteq Reason
  BY DEF GeneralReasons
<1>2. \A claim, day : DateChecks(known, anchor, claim, day) \subseteq Reason
  BY DEF DateChecks
<1> HIDE DEF Reason
<1> QED
  BY <1>1, <1>2 DEF BuildEvent

\* Every reachable state of a message's way is type correct, for any messages
\* and any candidates.
THEOREM TypeCorrect == Spec => []TypeOK
<1>1. Init => TypeOK
  <2> SUFFICES ASSUME Init
               PROVE  TypeOK
    OBVIOUS
  <2>1. \A i \in DOMAIN events : events[i].reasons \subseteq Reason
    BY DEF Init
  <2>2. /\ budget \in Budgets /\ attempt = 0 /\ requests = 0 /\ gpc = "head" /\ stopping = FALSE
        /\ message \in Messages /\ via \in {"stdin", "database"} /\ answer = NoAnswer
        /\ end = "none"
    BY DEF Init, GeminiInit
  <2>3. attempt \in Nat /\ requests \in 0 .. attempt
    BY <2>2
  <2>4. stopping \in BOOLEAN /\ gpc \in GenerateStep
    BY <2>2 DEF GenerateStep
  <2> QED
    BY <2>1, <2>2, <2>3, <2>4, Zenon DEF TypeOK
<1>2. CallInv /\ TypeOK /\ CallInv' /\ [Next]_vars => TypeOK'
  <2> SUFFICES ASSUME CallInv, TypeOK, CallInv', [Next]_vars
               PROVE  TypeOK'
    OBVIOUS
  <2>c. budget' \in Budgets /\ attempt' \in Nat /\ requests' \in 0 .. attempt'
    BY DEF CallInv
  <2> HIDE DEF CallInv
  <2>1. CASE GeminiStep
    <3>1. gpc' \in GenerateStep /\ UNCHANGED <<stopping, message, via, answer, events, end>>
      BY <2>1 DEF GeminiStep, GenerateAction, NextAttempt, Wait, Request, Reply, GenerateStep
    <3> QED
      BY <2>c, <3>1 DEF TypeOK
  <2>2. CASE Tell
    BY <2>2, <2>c DEF Tell, Signal, generate, TypeOK
  <2>3. CASE Judge \/ Die
    BY <2>3, <2>c DEF Judge, Die, Return, TypeOK, GenerateStep
  <2>4. CASE Decode
    <3>1. CASE gpc' = "error" /\ UNCHANGED <<stopping, message, via, answer, events, end>>
      BY <2>c, <3>1 DEF TypeOK, GenerateStep
    <3>2. ASSUME NEW c \in Candidates, answer' = c, NEW how \in {"panic", "answered"}, Return(how),
                 \/ UNCHANGED events
                 \/ events' = BuildEvent(Anchor(message, via), message.dated, c)
          PROVE  TypeOK'
      <4>1. \A i \in DOMAIN events' : events'[i].reasons \subseteq Reason
        BY <3>2, BuildEventType DEF TypeOK
      <4> QED
        BY <2>c, <3>2, <4>1 DEF TypeOK, Return, GenerateStep
    <3> QED
      BY <2>4, <3>1, <3>2 DEF Decode
  <2>5. CASE UNCHANGED vars
    BY <2>5, <2>c DEF vars, geminiVars, generate, TypeOK
  <2> QED
    BY <2>1, <2>2, <2>3, <2>4, <2>5 DEF Next, CallStep
<1> QED
  BY <1>1, <1>2, CallInvHolds, PTL DEF Spec

-----------------------------------------------------------------------------
(* Waits.                                                                   *)

LEMMA BackoffBounded ==
    ASSUME NEW n \in Nat, n >= 2
    PROVE  Backoff(n) \in 2 .. Cap
<1>1. CASE n - 1 >= 5
  BY <1>1 DEF Backoff, Cap
<1>2. CASE ~(n - 1 >= 5)
  <2>1. n - 1 = 1 \/ n - 1 = 2 \/ n - 1 = 3 \/ n - 1 = 4
    BY <1>2
  <2>2. 2 ^ 1 = 2
    OBVIOUS
  <2>3. 2 ^ 2 = 4
    OBVIOUS
  <2>4. 2 ^ 3 = 8
    OBVIOUS
  <2>5. 2 ^ 4 = 16
    OBVIOUS
  <2>6. 2 ^ (n - 1) \in {2, 4, 8, 16}
    BY <2>1, <2>2, <2>3, <2>4, <2>5, Zenon
  <2>7. 2 ^ (n - 1) \in 2 .. 32
    BY <2>6
  <2> QED
    BY <1>2, <2>7 DEF Backoff, Cap
<1> QED
  BY <1>1, <1>2

\* For every --max-retries a wait takes 0.5 s to 8 s, and only 37 or more can
\* end in the panic of the doubling that wraps around.
THEOREM WaitsAreBounded == Spec => []WaitsBounded
<1>1. CallInv => WaitsBounded
  <2> SUFFICES ASSUME CallInv
               PROVE  WaitsBounded
    OBVIOUS
  <2>1. gpc = "wait" => Backoff(attempt) \in 2 .. Cap
    BY BackoffBounded DEF CallInv
  <2>2. gpc = "panic" => budget >= 37
    BY DEF CallInv
  <2> QED
    BY <2>1, <2>2 DEF WaitsBounded
<1> QED
  BY <1>1, CallInvHolds, PTL

-----------------------------------------------------------------------------
(* What the extraction passes take a call for.                              *)

\* Every step of the call, decoding and judging included, is a step of
\* ModelCall: at most --max-retries requests, none once told to stop, and no
\* answer or panic without one.  (That it ends is left to TLC.)
THEOREM CallKeepsPromise == Spec => Call!CallInit /\ [][Call!CallNext]_(Call!callVars)
<1>1. Init => Call!CallInit
  BY DEF Init, GeminiInit, Call!CallInit
<1>2. CallInv /\ UnsentInv /\ [Next]_vars => [Call!CallNext]_(Call!callVars)
  <2> SUFFICES ASSUME CallInv, UnsentInv, [Next]_vars
               PROVE  [Call!CallNext]_(Call!callVars)
    OBVIOUS
  <2> USE DEF Call!CallNext, Call!callVars
  <2>1. CASE UNCHANGED <<budget, requests, stopping, end>>
    BY <2>1
  <2>2. CASE Under /\ Request /\ UNCHANGED end
    <3>1. CASE stopping /\ UNCHANGED requests
      BY <2>1, <2>2, <3>1 DEF Request
    <3>2. CASE ~stopping /\ requests' = requests + 1
      <4>1. requests < budget /\ end = "none"
        BY <2>2 DEF Request, CallInv, Under
      <4> QED
        BY <2>2, <3>2, <4>1 DEF Request, Call!Send
    <3> QED
      BY <2>2, <3>1, <3>2 DEF Request
  <2>3. CASE Tell
    BY <2>3 DEF Tell, Signal, generate, Call!Tell
  <2>4. ASSUME NEW how, Return(how), end = "none",
               \/ how = "answered" /\ requests > 0
               \/ how = "panic" /\ requests > 0
               \/ how = IF stopping THEN "cut" ELSE "failed"
        PROVE  Call!CallNext
    BY <2>4 DEF Return, Call!End, Call!Answer, Call!Break, Call!Panic
  <2>5. CASE Decode
    <3>1. end = "none" /\ requests > 0
      BY <2>5 DEF Decode, Under, CallInv
    <3>2. CASE UNCHANGED <<budget, requests, stopping, end>>
      BY <2>1, <3>2
    <3>3. CASE Return("panic") \/ Return("answered")
      BY <2>4, <3>1, <3>3
    <3> QED
      BY <2>5, <3>2, <3>3 DEF Decode
  <2>6. CASE Judge
    BY <2>4, <2>6 DEF Judge, Under
  <2>7. CASE Die
    <3>1. end = "none" /\ requests > 0
      BY <2>7 DEF Die, Under, CallInv
    <3> QED
      BY <2>4, <2>7, <3>1 DEF Die
  <2>8. CASE Under /\ (NextAttempt \/ Wait \/ Reply) /\ UNCHANGED end
    BY <2>1, <2>8 DEF NextAttempt, Wait, Reply
  <2>9. CASE UNCHANGED vars
    BY <2>1, <2>9 DEF vars, geminiVars, generate
  <2> QED
    BY <2>2, <2>3, <2>5, <2>6, <2>7, <2>8, <2>9
       DEF Next, CallStep, GeminiStep, GenerateAction
<1> QED
  BY <1>1, <1>2, CallInvHolds, PTL DEF Spec

-----------------------------------------------------------------------------
(* That a call ends.                                                        *)

\* The attempts there can still be, and the steps left in this one.
AttemptsLeft == (IF budget > 0 THEN budget ELSE 0) + 1 - attempt

StepsOfAttempt ==
    CASE gpc = "wait"   -> 5
      [] gpc = "send"   -> 4
      [] gpc = "flight" -> 3
      [] gpc = "reply"  -> 2
      [] gpc = "head"   -> 1
      [] OTHER          -> 0

StepsLeft == IF end = "none" THEN 1 + 5 * AttemptsLeft + StepsOfAttempt ELSE 0

AttemptInv ==
    /\ AttemptsLeft \in Nat
    /\ gpc = "head" => AttemptsLeft > 0

LEMMA AttemptStep == CallInv /\ AttemptInv /\ [Next]_vars => AttemptInv'
<1> SUFFICES ASSUME CallInv, AttemptInv, [Next]_vars
             PROVE  AttemptInv'
  OBVIOUS
<1> USE DEF CallInv, AttemptInv, AttemptsLeft
<1>1. CASE GeminiStep
  <2>1. CASE NextAttempt
    BY <2>1 DEF NextAttempt
  <2>2. CASE Wait \/ Request \/ Reply
    BY <2>2 DEF Wait, Request, Reply
  <2> QED
    BY <1>1, <2>1, <2>2 DEF GeminiStep, GenerateAction
<1>2. CASE Tell
  BY <1>2 DEF Tell, Signal, generate
<1>3. ASSUME NEW how, Return(how)
      PROVE  AttemptInv'
  BY <1>3 DEF Return
<1>4. CASE Decode
  <2>1. CASE gpc' = "error" /\ UNCHANGED <<budget, attempt>>
    BY <2>1
  <2>2. CASE Return("panic") \/ Return("answered")
    BY <1>3, <2>2
  <2> QED
    BY <1>4, <2>1, <2>2 DEF Decode
<1>5. CASE Judge \/ Die
  BY <1>3, <1>5 DEF Judge, Die
<1>6. CASE UNCHANGED vars
  BY <1>6 DEF vars, geminiVars, generate
<1> QED
  BY <1>1, <1>2, <1>4, <1>5, <1>6 DEF Next, CallStep

\* A call runs down: whatever the replies are and whenever the signal comes, each
\* step leaves it fewer steps, of which there are at most five for each attempt
\* allowed and seven besides.
THEOREM CallRunsDown ==
    Spec => /\ [](StepsLeft \in Nat)
            /\ [][CallStep => StepsLeft' < StepsLeft]_vars
<1>1. Init => AttemptInv
  BY GeminiAssumption DEF Init, GeminiInit, AttemptInv, AttemptsLeft
<1>2. Spec => [](CallInv /\ AttemptInv)
  <2>1. CallInv /\ AttemptInv /\ [Next]_vars => AttemptInv'
    BY AttemptStep
  <2> QED
    BY <1>1, <2>1, CallInvHolds, PTL DEF Spec
<1>3. AttemptInv => StepsLeft \in Nat
  BY DEF AttemptInv, StepsLeft, StepsOfAttempt
<1>4. CallInv /\ AttemptInv /\ AttemptInv' => (CallStep => StepsLeft' < StepsLeft)
  <2> SUFFICES ASSUME CallInv, AttemptInv, AttemptInv', CallStep
               PROVE  StepsLeft' < StepsLeft
    OBVIOUS
  <2> USE DEF StepsLeft
  <2>1. StepsOfAttempt \in 0 .. 5 /\ StepsOfAttempt' \in 0 .. 5
    BY DEF StepsOfAttempt
  <2>2. AttemptsLeft \in Nat /\ AttemptsLeft' \in Nat
    BY DEF AttemptInv
  <2>3. ASSUME NEW how, Return(how), Under, how # "none"
        PROVE  StepsLeft' < StepsLeft
    BY <2>1, <2>2, <2>3 DEF Return, Under
  <2>4. ASSUME UNCHANGED <<budget, attempt, end>>, Under, StepsOfAttempt' < StepsOfAttempt
        PROVE  StepsLeft' < StepsLeft
    BY <2>1, <2>2, <2>4 DEF AttemptsLeft, Under
  <2>5. CASE GeminiStep
    <3>1. CASE NextAttempt
      <4>1. AttemptsLeft' = AttemptsLeft - 1 /\ end = "none" /\ end' = "none"
        BY <2>5, <3>1 DEF NextAttempt, GeminiStep, AttemptsLeft, CallInv, Under
      <4>2. StepsOfAttempt = 1
        BY <3>1 DEF NextAttempt, StepsOfAttempt
      <4>3. StepsLeft = 1 + 5 * AttemptsLeft + 1
        BY <4>1, <4>2
      <4>4. StepsLeft' = 1 + 5 * AttemptsLeft' + StepsOfAttempt'
        BY <4>1
      <4>5. \A a, b \in Nat, k \in 0 .. 5 : b = a - 1 => 1 + 5 * b + k < 1 + 5 * a + 1
        OBVIOUS
      <4> HIDE DEF StepsLeft
      <4> QED
        BY <2>1, <2>2, <4>1, <4>3, <4>4, <4>5
    <3>2. CASE Wait \/ Request \/ Reply
      <4>1. StepsOfAttempt' < StepsOfAttempt
        BY <3>2 DEF Wait, Request, Reply, StepsOfAttempt
      <4> QED
        BY <2>4, <2>5, <3>2, <4>1 DEF GeminiStep, Wait, Request, Reply
    <3> QED
      BY <2>5, <3>1, <3>2 DEF GeminiStep, GenerateAction
  <2>6. CASE Decode
    <3>1. CASE gpc' = "error" /\ UNCHANGED <<budget, attempt, end>>
      <4>1. StepsOfAttempt' < StepsOfAttempt
        BY <2>6, <3>1 DEF Decode, StepsOfAttempt
      <4> QED
        BY <2>4, <2>6, <3>1, <4>1 DEF Decode
    <3>2. CASE Return("panic") \/ Return("answered")
      BY <2>3, <2>6, <3>2 DEF Decode
    <3> QED
      BY <2>6, <3>1, <3>2 DEF Decode
  <2>7. CASE Judge \/ Die
    BY <2>3, <2>7 DEF Judge, Die
  <2> QED
    BY <2>5, <2>6, <2>7 DEF CallStep
<1> QED
  BY <1>2, <1>3, <1>4, PTL

-----------------------------------------------------------------------------
(* Days.                                                                    *)

\* `events --on` shows an event on its day under "today", the day before under
\* "tomorrow", and in its week and the week before under "this" and "next week",
\* and at no other time: on every day there is, whatever year or month ends.
THEOREM ShownOnItsDays ==
    ASSUME NEW date \in Int, NEW now \in Int
    PROVE  /\ Shown(date, "today", now) <=> date = now
           /\ Shown(date, "tomorrow", now) <=> date = now + 1
           /\ Shown(date, "this week", now) <=> Week(date) = Week(now)
           /\ Shown(date, "next week", now) <=> Week(date) = Week(now) + 1
<1> DEFINE back == (Weekday(now) + 6) % 7
           monday == now - back
<1>1. back \in 0 .. 6 /\ monday = 7 * Week(now) + 1
  <2>1. now % 7 \in 0 .. 6 /\ now = 7 * (now \div 7) + (now % 7)
    OBVIOUS
  <2>2. CASE now % 7 = 0
    BY <2>1, <2>2 DEF Weekday, Week
  <2>3. CASE now % 7 # 0
    BY <2>1, <2>3 DEF Weekday, Week
  <2> QED
    BY <2>2, <2>3
<1>2. Week(date) \in Int /\ Week(now) \in Int
      /\ 7 * Week(date) + 1 <= date /\ date <= 7 * Week(date) + 7
  BY DEF Week
<1>3. AddDays(now, - back) = monday
  BY <1>1 DEF AddDays
<1> HIDE DEF back, monday
<1>4. Range("today", now).from = now /\ Range("today", now).to = now
  BY DEF Range
<1>5. Range("tomorrow", now).from = now + 1 /\ Range("tomorrow", now).to = now + 1
  BY DEF Range, AddDays
<1>6. Range("this week", now).from = monday /\ Range("this week", now).to = monday + 6
  BY <1>3 DEF Range, AddDays, back
<1>7. Range("next week", now).from = monday + 7 /\ Range("next week", now).to = monday + 7 + 6
  BY <1>3 DEF Range, AddDays, back
<1>8. Shown(date, "today", now) <=> date = now
  BY <1>4 DEF Shown
<1>9. Shown(date, "tomorrow", now) <=> date = now + 1
  BY <1>5 DEF Shown
<1>10. Shown(date, "this week", now) <=> monday <= date /\ date <= monday + 6
  BY <1>6 DEF Shown
<1>11. Shown(date, "next week", now) <=> monday + 7 <= date /\ date <= monday + 7 + 6
  BY <1>7 DEF Shown
<1>12. monday <= date /\ date <= monday + 6 <=> Week(date) = Week(now)
  <2>1. CASE Week(date) = Week(now)
    BY <1>1, <1>2, <2>1
  <2>2. CASE Week(date) < Week(now)
    BY <1>1, <1>2, <2>2
  <2>3. CASE Week(date) > Week(now)
    BY <1>1, <1>2, <2>3
  <2> QED
    BY <1>2, <2>1, <2>2, <2>3
<1>13. monday + 7 <= date /\ date <= monday + 7 + 6 <=> Week(date) = Week(now) + 1
  BY <1>1, <1>2
<1> QED
  BY <1>8, <1>9, <1>10, <1>11, <1>12, <1>13

-----------------------------------------------------------------------------
(* What a candidate becomes.                                                *)

\* The day dates are counted from is a day of the calendar.
LEMMA AnchorIsDay ==
    ASSUME NEW msg \in Messages, NEW from
    PROVE  Anchor(msg, from) \in DayNumber
<1>1. msg.day \in Nat \ {0, 1} /\ msg.dated \in BOOLEAN
  BY ExtractAssumption
<1>2. Date(1, 1, 1) \in DayNumber
  <2>1. 1 \in Year /\ 1 \in Month
    BY DEF Year, Month
  <2>2. 1 \in 1 .. MonthLength(1, 1)
    BY <2>1, MonthSizes
  <2> QED
    BY <2>1, <2>2, PartsOfDate
<1>3. msg.day \in DayNumber /\ msg.day - 1 \in DayNumber
  BY <1>1 DEF DayNumber
<1> QED
  BY <1>1, <1>2, <1>3 DEF Anchor, AddDays

\* Resolved to a year in which it exists, a date is a day of the calendar.
LEMMA ResolvedIsDay ==
    ASSUME NEW a \in DayNumber, NEW d \in 1 .. 31, NEW m \in Month, NEW y \in Nat
    PROVE  ResolveDate(a, d, m, y) \in DayNumber \cup {NoDate}
<1>1. \A z \in Year : Exists(z, m, d) => Date(z, m, d) \in DayNumber
  <2> SUFFICES ASSUME NEW z \in Year, Exists(z, m, d)
               PROVE  Date(z, m, d) \in DayNumber
    OBVIOUS
  <2>1. d \in 1 .. MonthLength(z, m)
    BY MonthSizes DEF Exists
  <2> QED
    BY <2>1, PartsOfDate
<1>2. YearOf(a) \in Year /\ YearOf(a) + 1 \in Year
  BY DateOfParts DEF Year
<1>3. y # 0 => y \in Year
  BY DEF Year
<1> QED
  BY <1>1, <1>2, <1>3 DEF ResolveDate

\* The first date is a day of the calendar, or there is none.
LEMMA FirstIsDay ==
    ASSUME NEW a \in DayNumber, NEW raw \in RawDate
    PROVE  FirstDate(a, raw) \in DayNumber \cup {NoDate}
<1>1. CASE ParseDateRaw(raw)
  <2>1. raw.kind = "date" /\ raw.day \in 1 .. 31 /\ raw.month \in Month
    BY <1>1 DEF ParseDateRaw, Month
  <2>2. raw.year \in Nat
    BY <2>1 DEF RawDate
  <2> QED
    BY <1>1, <2>1, <2>2, ResolvedIsDay DEF FirstDate
<1>2. CASE raw.kind = "word"
  <2>1. raw.offset \in 0 .. 2 /\ ~ParseDateRaw(raw)
    BY <1>2 DEF RawDate, ParseDateRaw
  <2>2. a + raw.offset \in DayNumber
    BY <2>1 DEF DayNumber
  <2> QED
    BY <1>2, <2>1, <2>2 DEF FirstDate, AddDays
<1>3. CASE ~ParseDateRaw(raw) /\ raw.kind # "word"
  BY <1>3 DEF FirstDate
<1> QED
  BY <1>1, <1>2, <1>3

\* The steps of a series go on from day to day of the calendar.
LEMMA StepsForward ==
    ASSUME NEW n \in DayNumber, NEW freq, NEW k \in Nat
    PROVE  /\ StepDate(n, freq, k) \in DayNumber
           /\ StepDate(n, freq, 0) = n
           /\ n <= StepDate(n, freq, k)
           /\ StepDate(n, freq, k) < StepDate(n, freq, k + 1)
<1>1. CASE freq # "monthly"
  <2>1. PICK s \in {1, 7, 14} : \A i \in Nat : StepDate(n, freq, i) = n + s * i
    BY <1>1 DEF StepDate, AddDays
  <2>2. n \in Int /\ n > 0 /\ n + s * k >= n /\ n + s * k \in Int
        /\ n + s * (k + 1) = n + s * k + s /\ n + s * 0 = n
    BY DEF DayNumber
  <2> QED
    BY <2>1, <2>2 DEF DayNumber
<1>2. CASE freq = "monthly"
  <2>1. \A i : StepDate(n, freq, i) = AddMonths(n, i)
    BY <1>2 DEF StepDate
  <2> DEFINE x == NthMonth(YearOf(n), MonthOf(n)) + k
             start(i) == Day(YearOfNth(i), MonthOfNth(i), 0)
             d == DayOf(n)
  <2>2. YearOf(n) \in Year /\ MonthOf(n) \in Month
        /\ MonthLength(YearOf(n), MonthOf(n)) \in 28 .. 31 /\ d \in Nat /\ d > 0
    BY DateOfParts, MonthSizes
  <2>3. x \in Nat /\ x > 12 /\ x + 1 \in Nat /\ x + 1 > 12
        /\ NthMonth(YearOf(n), MonthOf(n)) + (k + 1) = x + 1
    BY <2>2 DEF NthMonth, Year, Month
  <2>4. AddMonths(n, k) = Day(YearOfNth(x), MonthOfNth(x), d)
    BY MonthsLater
  <2>5. AddMonths(n, k + 1) = Day(YearOfNth(x + 1), MonthOfNth(x + 1), d)
    BY <2>3, MonthsLater
  <2>6. AddMonths(n, 0) = n
    <3>1. AddMonths(n, 0) = Date(YearOf(n), MonthOf(n), DayOf(n))
      BY <2>2 DEF AddMonths, Month
    <3> QED
      BY <3>1, DateOfParts
  <2>7. start(x) \in Nat /\ start(x + 1) \in Nat /\ start(x) + 28 <= start(x + 1)
    BY <2>3, NextMonth
  <2>8. /\ Day(YearOfNth(x), MonthOfNth(x), d) = start(x) + d
        /\ Day(YearOfNth(x + 1), MonthOfNth(x + 1), d) = start(x + 1) + d
    <3>1. \A y \in Year, m \in Month : Day(y, m, d) = Day(y, m, 0) + d
      BY <2>2, YearStart, MonthSizes DEF Day
    <3> QED
      BY <2>3, <3>1, NthMonthParts
  <2> HIDE DEF x, start, d
  <2>9. AddMonths(n, k) \in DayNumber /\ AddMonths(n, k) < AddMonths(n, k + 1)
    BY <2>2, <2>4, <2>5, <2>7, <2>8 DEF DayNumber
  <2>10. n <= AddMonths(n, k)
    <3> DEFINE w == NthMonth(YearOf(n), MonthOf(n))
    <3>1. w \in Nat /\ w > 12 /\ (w = x \/ w < x)
      BY <2>2 DEF NthMonth, Year, Month, x
    <3>2. YearOfNth(w) = YearOf(n) /\ MonthOfNth(w) = MonthOf(n)
      BY <2>2 DEF NthMonth, YearOfNth, MonthOfNth, Year, Month
    <3>3. CASE w = x
      <4>1. k = 0
        BY <3>1, <3>3 DEF x
      <4> QED
        BY <2>6, <4>1 DEF DayNumber
    <3>4. CASE w < x
      <4>1. Day(YearOf(n), MonthOf(n), MonthLength(YearOf(n), MonthOf(n))) <= start(x)
        BY <2>3, <3>1, <3>2, <3>4, LaterMonth DEF start
      <4>2. n = Day(YearOf(n), MonthOf(n), DayOf(n))
            /\ DayOf(n) \in 1 .. MonthLength(YearOf(n), MonthOf(n))
        BY DateOfParts, DateInYear
      <4>3. /\ BeforeYear(YearOf(n)) \in Nat /\ BeforeMonth(YearOf(n), MonthOf(n)) \in Nat
            /\ MonthLength(YearOf(n), MonthOf(n)) \in Nat
        BY <2>2, YearStart, MonthSizes
      <4> QED
        BY <2>2, <2>4, <2>7, <2>8, <4>1, <4>2, <4>3 DEF Day
    <3> QED
      BY <3>1, <3>3, <3>4
  <2> QED
    BY <2>1, <2>6, <2>9, <2>10
<1> QED
  BY <1>1, <1>2

\* A monthly series keeps to its day of the month, unless the month is too short:
\* then it falls on one of the first three days of the next.
LEMMA MonthlyDate ==
    ASSUME NEW n \in DayNumber, NEW k \in Nat
    PROVE  LET date == AddMonths(n, k) IN
           \/ Months(date) = Months(n) + k /\ DayOf(date) = DayOf(n)
           \/ Months(date) = Months(n) + k + 1 /\ DayOf(date) <= 3 /\ DayOf(n) >= 29
<1> DEFINE x == Months(n) + k
           d == DayOf(n)
           length == MonthLength(YearOfNth(x), MonthOfNth(x))
<1>1. Months(n) = NthMonth(YearOf(n), MonthOf(n))
  BY DEF Months, NthMonth
<1>2. /\ x \in Nat /\ x > 12 /\ x + 1 > 12 /\ x + 1 \in Nat
      /\ AddMonths(n, k) = Day(YearOfNth(x), MonthOfNth(x), d)
  BY <1>1, MonthsLater
<1>3. d \in 1 .. 31
  BY DateOfParts, MonthSizes
<1> HIDE DEF x, d
<1>4. ASSUME NEW j \in Nat, j > 12, NEW e \in 1 .. MonthLength(YearOfNth(j), MonthOfNth(j))
      PROVE  LET date == Day(YearOfNth(j), MonthOfNth(j), e)
             IN  Months(date) = j /\ DayOf(date) = e
  <2>1. YearOfNth(j) \in Year /\ MonthOfNth(j) \in Month
        /\ NthMonth(YearOfNth(j), MonthOfNth(j)) = j
    BY <1>4, NthMonthParts
  <2>2. e \in Int
    BY <2>1, MonthSizes
  <2>3. Day(YearOfNth(j), MonthOfNth(j), e) = Date(YearOfNth(j), MonthOfNth(j), e)
    BY <2>1, <2>2, DateInYear
  <2> QED
    BY <2>1, <2>3, PartsOfDate DEF Months, NthMonth
<1>5. length \in 28 .. 31
  BY <1>2, NextMonth
<1>6. CASE d <= length
  <2>1. d \in 1 .. length
    BY <1>3, <1>5, <1>6
  <2> QED
    BY <1>2, <1>4, <2>1 DEF x, d
<1>7. CASE d > length
  <2>1. d - length \in 1 .. 3 /\ d >= 29
    BY <1>3, <1>5, <1>7
  <2> DEFINE y == YearOfNth(x + 1)
             m == MonthOfNth(x + 1)
  <2>2. /\ Day(y, m, 0) = Day(YearOfNth(x), MonthOfNth(x), 0) + length
        /\ Day(YearOfNth(x), MonthOfNth(x), 0) \in Nat
        /\ MonthLength(y, m) \in 28 .. 31
    BY <1>2, NextMonth
  <2>3. \A z \in Year, l \in Month, e \in Int : Day(z, l, e) = Day(z, l, 0) + e
    BY YearStart, MonthSizes DEF Day
  <2>4. YearOfNth(x) \in Year /\ MonthOfNth(x) \in Month /\ y \in Year /\ m \in Month
    BY <1>2, NthMonthParts
  <2> HIDE DEF y, m, length
  <2>5. Day(YearOfNth(x), MonthOfNth(x), d) = Day(y, m, d - length)
    <3>1. d \in Int /\ d - length \in Int /\ length \in Int
      BY <1>3, <1>5
    <3>2. /\ Day(YearOfNth(x), MonthOfNth(x), d) = Day(YearOfNth(x), MonthOfNth(x), 0) + d
          /\ Day(y, m, d - length) = Day(y, m, 0) + (d - length)
      BY <2>3, <2>4, <3>1
    <3> QED
      BY <2>2, <3>1, <3>2
  <2>6. d - length \in 1 .. MonthLength(y, m)
    BY <2>1, <2>2
  <2>7. Months(AddMonths(n, k)) = x + 1 /\ DayOf(AddMonths(n, k)) = d - length
    BY <1>2, <1>4, <2>5, <2>6 DEF y, m
  <2>8. DayOf(AddMonths(n, k)) <= 3
    BY <2>1, <2>7
  <2> QED
    BY <2>1, <2>7, <2>8 DEF x, d
<1> QED
  BY <1>3, <1>5, <1>6, <1>7

\* One event per occurrence, the n-th dated n - 1 steps after the first.
LEMMA BuildEventIs ==
    ASSUME NEW a \in DayNumber, NEW known, NEW c \in Candidate, ~BuildPanics(a, c),
           NEW first, first = FirstDate(a, c.date),
           NEW built, built = BuildEvent(a, known, c)
    PROVE  /\ 1 \in DOMAIN built
           /\ DOMAIN built \subseteq Nat \ {0}
           /\ \A i \in DOMAIN built : i > 1 => i - 1 \in DOMAIN built
           /\ built[1].date = first
           /\ first = NoDate => DOMAIN built = {1} /\ built[1].reasons # {}
           /\ first # NoDate => \A i \in DOMAIN built :
                 /\ built[i].date = StepDate(first, c.rec.freq, i - 1)
                 /\ DateChecks(known, a, c.claim, built[i].date) \subseteq built[i].reasons
<1> DEFINE series == first # NoDate /\ Series(c)
           number == CASE ~series                                  -> 1
                       [] series /\ c.rec.count > MaxRecurrence    -> MaxRecurrence
                       [] OTHER                                    -> c.rec.count
           date(i) == IF i = 1 THEN first ELSE StepDate(first, c.rec.freq, i - 1)
           reasons(i) == GeneralReasons(first, c) \cup
                         IF first = NoDate THEN {} ELSE DateChecks(known, a, c.claim, date(i))
<1>1. number \in Nat /\ number > 0 /\ (first = NoDate => number = 1)
  <2>1. c.rec.count \in Int
    BY DEF Candidate, Single
  <2>2. series => ~(c.rec.count < 0) /\ c.rec.count # 0
    BY Zenon DEF BuildPanics, Series
  <2>3. CASE ~series
    BY <2>3
  <2>4. CASE series
    BY <2>1, <2>2, <2>4 DEF MaxRecurrence
  <2> QED
    BY <2>3, <2>4
<1>2. built = [i \in 1 .. number |-> [date |-> date(i), reasons |-> reasons(i)]]
  BY DEF BuildEvent
<1> HIDE DEF number, reasons
<1>3. DOMAIN built = 1 .. number
  BY <1>2
<1>4. \A i \in 1 .. number : built[i].date = date(i) /\ built[i].reasons = reasons(i)
  BY <1>2
<1>5. first = NoDate => reasons(1) # {}
  <2>1. first = NoDate => "unreal" \in GeneralReasons(first, c) \/ "unparsed" \in GeneralReasons(first, c)
    BY DEF GeneralReasons, Reason
  <2> QED
    BY <2>1 DEF reasons
<1>6. ASSUME first # NoDate, NEW i \in 1 .. number
      PROVE  /\ date(i) = StepDate(first, c.rec.freq, i - 1)
             /\ DateChecks(known, a, c.claim, date(i)) \subseteq reasons(i)
  <2>1. first \in DayNumber
    BY <1>6, FirstIsDay DEF Candidate
  <2>2. i = 1 => i - 1 = 0
    OBVIOUS
  <2>3. StepDate(first, c.rec.freq, 0) = first
    BY <2>1, StepsForward
  <2>4. date(i) = StepDate(first, c.rec.freq, i - 1)
    BY <2>2, <2>3
  <2> QED
    BY <1>6, <2>4 DEF reasons
<1>7. /\ 1 \in 1 .. number /\ 1 .. number \subseteq Nat \ {0}
      /\ \A i \in 1 .. number : i > 1 => i - 1 \in 1 .. number
  BY <1>1
<1>8. date(1) = first
  OBVIOUS
<1> HIDE DEF date
<1> QED
  BY <1>1, <1>3, <1>4, <1>5, <1>6, <1>7, <1>8

-----------------------------------------------------------------------------
(* The date that was meant.                                                 *)

\* Without a year, a date is resolved to the least day so written from the day
\* of sending on; given up, there is none to come, or it is a 29.2.
LEMMA NextWritten ==
    ASSUME NEW a \in DayNumber, NEW d \in 1 .. 31, NEW m \in Month,
           NEW r, r = ResolveDate(a, d, m, 0)
    PROVE  /\ r # NoDate => r \in Written(d, m, a) /\ \A n \in Written(d, m, a) : r <= n
           /\ r = NoDate => Written(d, m, a) = {} \/ (d = 29 /\ m = 2)
<1> DEFINE sent == YearOf(a)
           on(y) == Date(y, m, d)
<1>1. /\ sent \in Year /\ MonthOf(a) \in Month
      /\ DayOf(a) \in 1 .. MonthLength(sent, MonthOf(a))
      /\ Date(sent, MonthOf(a), DayOf(a)) = a
  BY DateOfParts
<1> HIDE DEF sent
<1>2. ASSUME NEW y \in Year, Exists(y, m, d)
      PROVE  /\ on(y) \in DayNumber
             /\ \A z \in Year : y < z => on(y) < on(z)
             /\ sent < y => a < on(y)
  <2>1. d \in 1 .. MonthLength(y, m)
    BY <1>2, MonthSizes DEF Exists
  <2>2. on(y) \in DayNumber
    BY <2>1, PartsOfDate
  <2>3. ASSUME NEW z \in Year, y < z
        PROVE  on(y) < on(z)
    BY <2>1, <2>3, DatesInOrder
  <2>4. ASSUME sent < y
        PROVE  a < on(y)
    BY <1>1, <2>4, DatesInOrder
  <2> QED
    BY <2>2, <2>3, <2>4
<1>3. \A n : n \in Written(d, m, a) <=>
                \E y \in sent .. sent + 8 : Exists(y, m, d) /\ n = on(y) /\ n >= a
  BY DEF Written, sent
<1>4. \A y \in sent .. sent + 8 : y \in Year /\ (y = sent \/ sent < y)
  BY <1>1 DEF Year
<1>5. sent \in sent .. sent + 8 /\ sent + 1 \in sent .. sent + 8 /\ sent < sent + 1 /\ sent \in Int
  BY <1>1 DEF Year
<1>6. CASE Exists(sent, m, d) /\ on(sent) >= a
  <2>1. r = on(sent) /\ r \in DayNumber
    BY <1>1, <1>2, <1>6 DEF ResolveDate, sent, DayNumber
  <2>2. r \in Written(d, m, a)
    BY <1>3, <1>5, <1>6, <2>1
  <2>3. ASSUME NEW n \in Written(d, m, a)
        PROVE  r <= n
    <3>1. PICK y \in sent .. sent + 8 : Exists(y, m, d) /\ n = on(y)
      BY <1>3, <2>3
    <3>2. y = sent \/ on(sent) < on(y)
      BY <1>1, <1>2, <1>4, <1>6, <3>1
    <3>3. on(y) \in DayNumber
      BY <1>2, <1>4, <3>1
    <3> QED
      BY <2>1, <3>1, <3>2, <3>3 DEF DayNumber
  <2>4. r # NoDate
    BY <2>1 DEF NoDate, DayNumber
  <2> QED
    BY <2>2, <2>3, <2>4
<1>7. CASE Exists(sent, m, d) /\ on(sent) < a /\ Exists(sent + 1, m, d)
  <2>1. r = on(sent + 1)
    BY <1>7 DEF ResolveDate, sent
  <2>2. r \in DayNumber /\ a < r
    BY <1>2, <1>4, <1>5, <1>7, <2>1
  <2>3. r \in Written(d, m, a)
    BY <1>3, <1>5, <1>7, <2>1, <2>2 DEF DayNumber
  <2>4. ASSUME NEW n \in Written(d, m, a)
        PROVE  r <= n
    <3>1. PICK y \in sent .. sent + 8 : Exists(y, m, d) /\ n = on(y) /\ n >= a
      BY <1>3, <2>4
    <3>2. on(y) \in DayNumber /\ on(sent) \in DayNumber
      BY <1>1, <1>2, <1>4, <1>7, <3>1
    <3>3. y # sent
      BY <1>7, <3>1, <3>2 DEF DayNumber
    <3>4. y = sent + 1 \/ sent + 1 < y
      BY <1>1, <3>3 DEF Year
    <3>5. y \in Year /\ sent + 1 \in Year
      BY <1>4, <1>5
    <3>6. y = sent + 1 \/ on(sent + 1) < on(y)
      BY <1>2, <1>7, <3>4, <3>5
    <3> QED
      BY <2>1, <2>2, <3>1, <3>2, <3>6 DEF DayNumber
  <2>5. r # NoDate
    BY <2>2 DEF NoDate, DayNumber
  <2> QED
    BY <2>3, <2>4, <2>5
<1>8. CASE Exists(sent, m, d) /\ on(sent) < a /\ ~Exists(sent + 1, m, d)
  <2>1. r = NoDate
    BY <1>8 DEF ResolveDate, sent
  <2>2. m = 2 /\ d = 29
    BY <1>8 DEF Exists, MonthLength, Month
  <2> QED
    BY <2>1, <2>2
<1>9. CASE ~Exists(sent, m, d)
  <2>1. r = NoDate
    BY <1>9 DEF ResolveDate, sent
  <2>2. CASE m = 2 /\ d = 29
    BY <2>1, <2>2
  <2>3. CASE ~(m = 2 /\ d = 29)
    <3>1. \A y : ~Exists(y, m, d)
      BY <1>9, <2>3 DEF Exists, MonthLength, Month
    <3> QED
      BY <1>3, <2>1, <3>1
  <2> QED
    BY <2>2, <2>3
<1>10. Exists(sent, m, d) => on(sent) \in DayNumber
  BY <1>1, <1>2
<1> QED
  BY <1>6, <1>7, <1>8, <1>9, <1>10 DEF DayNumber

\* An answered call holds the events of its answer, any other none.
AnswerInv ==
    /\ message \in Messages
    /\ ~Answered => events = <<>>
    /\ Answered =>
          /\ answer \in Candidates
          /\ ~BuildPanics(Anchor(message, via), answer)
          /\ events = BuildEvent(Anchor(message, via), message.dated, answer)

LEMMA AnswerInvHolds == Spec => []AnswerInv
<1>1. Init => AnswerInv
  BY DEF Init, AnswerInv, Answered
<1>2. AnswerInv /\ [Next]_vars => AnswerInv'
  <2> SUFFICES ASSUME AnswerInv, [Next]_vars
               PROVE  AnswerInv'
    OBVIOUS
  <2> USE DEF AnswerInv, Answered
  <2>1. CASE UNCHANGED <<message, via, answer, events, end>>
    BY <2>1
  <2>2. ASSUME end = "none", UNCHANGED <<message, via, events>>, end' # "answered"
        PROVE  AnswerInv'
    BY <2>2
  <2>3. CASE Decode
    <3>1. CASE UNCHANGED <<message, via, answer, events, end>>
      BY <2>1, <3>1
    <3>2. ASSUME NEW c \in Candidates, answer' = c, end = "none",
                 \/ Return("panic") /\ UNCHANGED events
                 \/ /\ ~BuildPanics(Anchor(message, via), c)
                    /\ events' = BuildEvent(Anchor(message, via), message.dated, c)
                    /\ Return("answered")
          PROVE  AnswerInv'
      <4>1. CASE Return("panic") /\ UNCHANGED events
        BY <2>2, <3>2, <4>1 DEF Return
      <4>2. CASE Return("answered")
        BY <3>2, <4>2 DEF Return
      <4> QED
        BY <3>2, <4>1, <4>2
    <3> QED
      BY <2>3, <3>1, <3>2 DEF Decode, Under
  <2>4. CASE Judge \/ Die
    BY <2>2, <2>4 DEF Judge, Die, Return, Under
  <2> QED
    BY <2>1, <2>3, <2>4 DEF Next, CallStep, GeminiStep, Tell, vars
<1> QED
  BY <1>1, <1>2, PTL DEF Spec

\* What every property about an answer begins with.
LEMMA OfAnAnswer ==
    ASSUME AnswerInv, Answered,
           NEW a, a = Anchor(message, via),
           NEW first, first = FirstDate(a, answer.date)
    PROVE  /\ a \in DayNumber /\ message.day \in Nat /\ message.day > 1
           /\ answer \in Candidate /\ answer.date \in RawDate
           /\ Faithful => a = message.day
           /\ message.dated => a = message.day - (IF DayBefore THEN 1 ELSE 0)
           /\ first \in DayNumber \cup {NoDate}
           /\ 1 \in DOMAIN events
           /\ DOMAIN events \subseteq Nat \ {0}
           /\ \A i \in DOMAIN events : i > 1 => i - 1 \in DOMAIN events
           /\ events[1].date = first
           /\ first = NoDate => DOMAIN events = {1} /\ events[1].reasons # {}
           /\ first # NoDate => \A i \in DOMAIN events :
                 /\ events[i].date = StepDate(first, answer.rec.freq, i - 1)
                 /\ DateChecks(message.dated, a, answer.claim, events[i].date) \subseteq events[i].reasons
<1>1. message.day \in Nat /\ message.day > 1 /\ message.dated \in BOOLEAN
  BY ExtractAssumption DEF AnswerInv
<1>2. answer \in Candidate /\ answer.date \in RawDate
  BY ExtractAssumption DEF AnswerInv, Candidate
<1>3. a \in DayNumber
  BY AnchorIsDay DEF AnswerInv
<1>4. Faithful => a = message.day
  BY <1>1 DEF Anchor, Faithful, DayBefore
<1>5. message.dated => a = message.day - (IF DayBefore THEN 1 ELSE 0)
  <2>1. CASE DayBefore
    BY <1>1, <2>1 DEF Anchor, DayBefore, AddDays
  <2>2. CASE ~DayBefore
    BY <1>1, <2>2 DEF Anchor, DayBefore
  <2> QED
    BY <2>1, <2>2
<1>6. first \in DayNumber \cup {NoDate}
  BY <1>2, <1>3, FirstIsDay
<1>7. ~BuildPanics(a, answer) /\ events = BuildEvent(a, message.dated, answer)
  BY DEF AnswerInv
<1> QED
  BY <1>1, <1>2, <1>3, <1>4, <1>5, <1>6, <1>7, BuildEventIs

\* "Huomenna" is the day after the message was sent, and a date without a year
\* the next day so written: for every message and every candidate, whatever the
\* year, but for the messages the database moves to the day before.
THEOREM DatesAreRight == Spec => []RightDate
<1>1. AnswerInv => RightDate
  <2> SUFFICES ASSUME AnswerInv, Answered, message.dated
               PROVE  RightDate
    BY DEF RightDate
  <2> DEFINE a == Anchor(message, via)
             raw == answer.date
             date == events[1].date
  <2>1. /\ a \in DayNumber /\ raw \in RawDate
        /\ Faithful => a = message.day
        /\ a = message.day - (IF DayBefore THEN 1 ELSE 0)
        /\ date = FirstDate(a, raw) /\ message.day \in Nat
    BY OfAnAnswer
  <2> HIDE DEF a, date
  <2>2. ASSUME raw.kind = "word"
        PROVE  date = message.day + raw.offset - (IF DayBefore THEN 1 ELSE 0)
    <3>1. date = a + raw.offset /\ raw.offset \in Int
      BY <2>1, <2>2 DEF FirstDate, ParseDateRaw, AddDays, RawDate
    <3> QED
      BY <2>1, <3>1
  <2>3. ASSUME raw.kind = "date", Faithful, raw.year = 0, ParseDateRaw(raw)
        PROVE  LET next == Written(raw.day, raw.month, message.day) IN
               /\ date # NoDate => date \in next /\ \A n \in next : date <= n
               /\ date = NoDate => next = {} \/ (raw.day = 29 /\ raw.month = 2)
    <3>1. raw.day \in 1 .. 31 /\ raw.month \in Month
      BY <2>3 DEF ParseDateRaw, Month
    <3>2. date = ResolveDate(a, raw.day, raw.month, 0)
      BY <2>1, <2>3 DEF FirstDate
    <3> QED
      BY <2>1, <2>3, <3>1, <3>2, NextWritten
  <2>4. raw.kind = "date" /\ date # NoDate => ParseDateRaw(raw)
    BY <2>1 DEF FirstDate
  <2> QED
    BY <2>2, <2>3, <2>4 DEF RightDate, date
<1> QED
  BY <1>1, AnswerInvHolds, PTL

\* What is not flagged lies on a school day of the nine months after the message
\* was sent and agrees with the claimed weekday, each date of a series included.
THEOREM UnflaggedIsSound == Spec => []UnflaggedIsPlausible
<1>1. AnswerInv => UnflaggedIsPlausible
  <2> SUFFICES ASSUME AnswerInv, NEW i \in DOMAIN events, events[i].reasons = {}
               PROVE  /\ events[i].date # NoDate
                      /\ Weekday(events[i].date) \in 1 .. 5
                      /\ answer.claim \in {NoClaim, Weekday(events[i].date)}
                      /\ Faithful /\ (answer.date.kind = "date" => answer.date.year = 0) =>
                            events[i].date \in message.day .. message.day + FarFuture
    BY DEF UnflaggedIsPlausible
  <2> DEFINE a == Anchor(message, via)
             raw == answer.date
             first == FirstDate(a, raw)
             date == events[i].date
  <2>1. Answered
    BY DEF AnswerInv
  <2>2. /\ a \in DayNumber /\ answer \in Candidate /\ raw \in RawDate
        /\ Faithful => a = message.day
        /\ first \in DayNumber \cup {NoDate} /\ i \in Nat \ {0}
        /\ first # NoDate
        /\ date = StepDate(first, answer.rec.freq, i - 1)
        /\ DateChecks(message.dated, a, answer.claim, date) = {}
    BY <2>1, OfAnAnswer
  <2> HIDE DEF a, first, date
  <2>3. date \in DayNumber /\ first <= date /\ first \in DayNumber
    BY <2>2, StepsForward
  <2>4. /\ answer.claim # BadClaim
        /\ answer.claim \in 0 .. 6 => answer.claim = Weekday(date)
        /\ Weekday(date) \notin Weekend
        /\ message.dated => ~(date - a > FarFuture)
    BY <2>2, Zenon DEF DateChecks, Reason
  <2>5. Weekday(date) \in 0 .. 6
    BY <2>3 DEF Weekday, DayNumber
  <2>6. answer.claim \in {NoClaim, Weekday(date)}
    <3>1. answer.claim \in NoClaim .. BadClaim
      BY <2>2 DEF Candidate
    <3> QED
      BY <2>4, <3>1 DEF NoClaim, BadClaim
  <2>7. ASSUME Faithful, raw.kind = "date" => raw.year = 0
        PROVE  date \in message.day .. message.day + FarFuture
    <3>1. a <= first
      <4>1. CASE ParseDateRaw(raw)
        <5>1. raw.kind = "date" /\ raw.day \in 1 .. 31 /\ raw.month \in Month /\ raw.year = 0
          BY <2>7, <4>1 DEF ParseDateRaw, Month
        <5>2. first = ResolveDate(a, raw.day, raw.month, 0)
          BY <4>1, <5>1 DEF FirstDate, first
        <5>3. first \in Written(raw.day, raw.month, a)
          BY <2>2, <5>1, <5>2, NextWritten
        <5>4. first >= a
          BY <5>3, Zenon DEF Written
        <5> QED
          BY <2>2, <2>3, <5>4 DEF DayNumber
      <4>2. CASE ~ParseDateRaw(raw)
        <5>1. raw.kind = "word" /\ first = a + raw.offset
          BY <2>2, <4>2 DEF FirstDate, first, AddDays
        <5>2. raw.offset \in 0 .. 2
          BY <2>2, <5>1 DEF RawDate
        <5> QED
          BY <2>2, <5>1, <5>2 DEF DayNumber
      <4> QED
        BY <4>1, <4>2
    <3>2. message.dated /\ a = message.day
      BY <2>2, <2>7 DEF Faithful
    <3> QED
      BY <2>2, <2>3, <2>4, <3>1, <3>2 DEF FarFuture, DayNumber
  <2>8. Weekday(date) \in 1 .. 5 /\ date # NoDate
    BY <2>3, <2>4, <2>5 DEF Weekend, DayNumber, NoDate
  <2> QED
    BY <2>6, <2>7, <2>8 DEF date
<1> QED
  BY <1>1, AnswerInvHolds, PTL

\* The n-th date of a series lies n - 1 steps after the first and later than the
\* one before it; a monthly one in its month, or in the first three days of the
\* next when that month is too short for it.
THEOREM SeriesInStep == Spec => []SeriesGoesOn
<1>1. AnswerInv => SeriesGoesOn
  <2> SUFFICES ASSUME AnswerInv, NEW i \in DOMAIN events, events[1].date # NoDate
               PROVE  LET first == events[1].date  date == events[i].date IN
                      /\ i > 1 => events[i - 1].date < date
                      /\ answer.rec.freq \in {"daily", "weekly", "biweekly"} =>
                            (date - first) % (CASE answer.rec.freq = "daily"  -> 1
                                                [] answer.rec.freq = "weekly" -> 7
                                                [] OTHER                      -> 14) = 0
                      /\ answer.rec.freq = "monthly" =>
                            \/ Months(date) = Months(first) + i - 1 /\ DayOf(date) = DayOf(first)
                            \/ Months(date) = Months(first) + i /\ DayOf(date) <= 3 /\ DayOf(first) >= 29
    BY DEF SeriesGoesOn
  <2> DEFINE freq == answer.rec.freq
             first == events[1].date
             date(k) == events[k].date
  <2>1. Answered
    BY DEF AnswerInv
  <2>2. /\ first \in DayNumber /\ i \in Nat \ {0}
        /\ \A k \in DOMAIN events : date(k) = StepDate(first, freq, k - 1)
    <3>1. FirstDate(Anchor(message, via), answer.date) = first
      BY <2>1, OfAnAnswer
    <3> QED
      BY <2>1, <3>1, OfAnAnswer
  <2>3. i > 1 => i - 1 \in DOMAIN events
    BY <2>1, OfAnAnswer
  <2> HIDE DEF first, freq, date
  <2>4. ASSUME i > 1
        PROVE  date(i - 1) < date(i)
    <3>1. i - 2 \in Nat /\ (i - 2) + 1 = i - 1 /\ (i - 1) - 1 = i - 2
      BY <2>2, <2>4
    <3>2. StepDate(first, freq, i - 2) < StepDate(first, freq, i - 1)
      BY <2>2, <3>1, StepsForward
    <3> QED
      BY <2>2, <2>3, <2>4, <3>1, <3>2
  <2>5. i - 1 \in Nat /\ first \in Int /\ date(i) = StepDate(first, freq, i - 1)
    BY <2>2 DEF DayNumber
  <2>6. /\ freq = "daily" => (date(i) - first) % 1 = 0
        /\ freq = "weekly" => (date(i) - first) % 7 = 0
        /\ freq = "biweekly" => (date(i) - first) % 14 = 0
    BY <2>5 DEF StepDate, AddDays
  <2>7. ASSUME freq = "monthly"
        PROVE  \/ Months(date(i)) = Months(first) + i - 1 /\ DayOf(date(i)) = DayOf(first)
               \/ Months(date(i)) = Months(first) + i /\ DayOf(date(i)) <= 3 /\ DayOf(first) >= 29
    <3>1. date(i) = AddMonths(first, i - 1)
      BY <2>5, <2>7 DEF StepDate
    <3>2. Months(first) \in Int
      BY <2>2, DateOfParts DEF Months, Year, Month
    <3> QED
      BY <2>2, <2>5, <3>1, <3>2, MonthlyDate
  <2> QED
    BY <2>4, <2>6, <2>7 DEF first, freq, date
<1> QED
  BY <1>1, AnswerInvHolds, PTL

\* `events --on` shows each event of an answer on its day, on the day before as
\* tomorrow's, in its week and in the week before, and at no other time.
THEOREM EventsAreShown == Spec => []ShownWhenDue
<1>1. AnswerInv => ShownWhenDue
  <2> SUFFICES ASSUME AnswerInv, Answered,
                      NEW i \in DOMAIN events, NEW now \in message.day .. message.day + 8
               PROVE  LET date == events[i].date IN
                      /\ Shown(date, "today", now) <=> date = now
                      /\ Shown(date, "tomorrow", now) <=> date = now + 1
                      /\ Shown(date, "this week", now) <=> Week(date) = Week(now)
                      /\ Shown(date, "next week", now) <=> Week(date) = Week(now) + 1
    BY DEF ShownWhenDue
  <2> DEFINE first == FirstDate(Anchor(message, via), answer.date)
  <2>1. /\ message.day \in Nat /\ i \in Nat \ {0}
        /\ first \in DayNumber \cup {NoDate}
        /\ events[1].date = first
        /\ first = NoDate => i = 1
        /\ first # NoDate => events[i].date = StepDate(first, answer.rec.freq, i - 1)
    BY OfAnAnswer
  <2> HIDE DEF first
  <2>2. first # NoDate => events[i].date \in DayNumber
    BY <2>1, StepsForward
  <2>3. events[i].date \in Int /\ now \in Int
    BY <2>1, <2>2 DEF NoDate, DayNumber
  <2> QED
    BY <2>3, ShownOnItsDays
<1> QED
  BY <1>1, AnswerInvHolds, PTL
=============================================================================
