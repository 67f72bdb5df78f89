-------------------------- MODULE MCExtractMessage --------------------------
(***************************************************************************)
(* Small instances of ExtractMessage for TLC: days at the ends of months,  *)
(* years, weeks and Februaries, and the candidates that matter there.      *)
(***************************************************************************)
EXTENDS ExtractMessage

SomeBudgets == {-1, 2, 38}

SentDays ==
    {Date(2023, 2, 28), Date(2023, 3, 1), Date(2024, 2, 28), Date(2024, 2, 29),
     Date(2024, 3, 1), Date(2026, 12, 31), Date(2027, 1, 1), Date(2026, 8, 31),
     Date(2026, 3, 29), Date(2026, 3, 30)}

SomeMessages ==
    [day : SentDays, hour : {2}, offset : {2, 3}, dated : {TRUE}]
        \cup [day : {Date(2027, 1, 1)}, hour : {1}, offset : {2}, dated : {TRUE}]
        \cup [day : {Date(2026, 3, 30)}, hour : {12}, offset : {2}, dated : {FALSE}]

OnDate(d, m, y) == [kind |-> "date", day |-> d, month |-> m, year |-> y]
OnWord(k) == [kind |-> "word", offset |-> k]

Dates ==
    {OnDate(dm[1], dm[2], 0) : dm \in {<<29, 2>>, <<28, 2>>, <<1, 3>>, <<31, 12>>, <<1, 1>>,
                                       <<31, 8>>, <<30, 3>>, <<31, 4>>, <<4, 13>>}}
        \cup {OnDate(29, 2, 2028), OnDate(29, 2, 2027), OnDate(1, 9, 2020)}
        \cup {OnWord(k) : k \in 0 .. 2} \cup {[kind |-> "other"]}

Simple == [date : Dates, claim : {NoClaim, 1, BadClaim}, rec : {Single}, audience : {"child"}]

Repeated ==
    [date : {OnDate(31, 8, 0), OnDate(29, 2, 0), OnDate(30, 3, 0)}, claim : {NoClaim},
     rec : {[freq |-> f, count |-> n] : f \in {"daily", "weekly", "biweekly", "monthly"},
                                        n \in {-1, 0, 3, 14}},
     audience : {"guardians"}]

Odds ==
    [date : {OnDate(30, 3, 0)}, claim : {NoClaim}, audience : {"everyone"},
     rec : {[freq |-> "", count |-> 2], [freq |-> "yearly", count |-> 2], [freq |-> "weekly", count |-> 53]}]

SomeCandidates == Simple \cup Repeated \cup Odds
=============================================================================
