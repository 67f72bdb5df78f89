-------------------------------- MODULE Gemini --------------------------------
(***************************************************************************)
(* One call of Generate (internal/gemini/client.go): requests, retries with *)
(* a growing wait, and cancellation.                                       *)
(***************************************************************************)
EXTENDS Integers

CONSTANTS
    Budgets,    \* values of --max-retries
    Statuses    \* HTTP status codes of replies; 0: no reply, or one cut short

ASSUME GeminiAssumption ==
    /\ Budgets \subseteq Int
    /\ 200 \in Statuses
    /\ Statuses \subseteq {0} \cup 100 .. 599

VARIABLES
    budget,     \* maxRetries
    attempt,    \* the local variables of Generate: loop counter,
    requests,   \* auxiliary: requests sent in this call,
    gpc,        \* next step
    stopping    \* ctx is done

generate == <<attempt, requests, gpc>>
geminiVars == <<budget, generate, stopping>>

GenerateStep == {"head", "wait", "send", "flight", "reply", "error", "panic", "over"}

GeminiInit ==
    /\ budget \in Budgets
    /\ attempt = 0 /\ requests = 0
    /\ gpc = "head"
    /\ stopping = FALSE

-----------------------------------------------------------------------------
(* backoff.  Its durations are 64-bit: 250 ms are Odd * 2^7 ns, shifted left *)
(* by attempt - 1.  What is left of them is counted in units of 250 ms.      *)

Odd == 1953125
Cap == 32                       \* 8 s

\* Bit 63 of Odd * 2^(7 + shift); Odd has 21 bits.
Negative(shift) ==
    /\ shift \in 36 .. 56
    /\ (Odd \div 2 ^ (56 - shift)) % 2 = 1
Vanishes(shift) == shift >= 57  \* the 64 low bits are all zero

\* rand.Int63n panics unless its argument is positive.
BackoffPanics(n) == Negative(n - 1) \/ Vanishes(n - 1)

\* Bug: the cap is forgotten.
Uncapped(n) == 2 ^ (n - 1)

\* The wait before attempt n, without the jitter of up to half of it.
Backoff(n) == IF n - 1 >= 5 THEN Cap ELSE 2 ^ (n - 1)

Retryable(status) == status = 429 \/ status \in 500 .. 599

-----------------------------------------------------------------------------
\* The loop head; with --max-retries 0 or less the call fails unsent.
NextAttempt ==
    /\ gpc = "head"
    /\ attempt' = attempt + 1
    /\ \/ attempt' > budget /\ gpc' = "error"
       \/ attempt' <= budget /\ attempt' > 1 /\ BackoffPanics(attempt') /\ gpc' = "panic"
       \/ attempt' <= budget /\ attempt' > 1 /\ ~BackoffPanics(attempt') /\ gpc' = "wait"
       \/ attempt' <= budget /\ attempt' = 1 /\ gpc' = "send"
    /\ UNCHANGED <<budget, requests, stopping>>

\* The wait ends, or ctx is done first (a tie is a signal right after the wait).
Wait ==
    /\ gpc = "wait"
    /\ gpc' = IF stopping THEN "error" ELSE "send"
    /\ UNCHANGED <<budget, attempt, requests, stopping>>

\* doOnce; net/http sends nothing for a ctx that is done.
Request ==
    /\ gpc = "send"
    /\ \/ /\ stopping
          /\ gpc' = "head"
          /\ UNCHANGED requests
       \/ /\ ~stopping
          /\ gpc' = "flight"
          /\ requests' = requests + 1
    /\ UNCHANGED <<budget, attempt, stopping>>

\* Bug: a reply to be retried is retried at once, uncounted.
ReplyUncounted ==
    /\ gpc = "flight"
    /\ \E status \in Statuses :
          \/ status = 200 /\ gpc' \in {"reply", "head"}
          \/ status = 0 /\ gpc' = "head"
          \/ status \notin {0, 200} /\ gpc' = IF Retryable(status) THEN "send" ELSE "error"
    /\ UNCHANGED <<budget, attempt, requests, stopping>>

\* A reply, or none within 60 s, or ctx is done.  A broken envelope, an error in
\* it or a missing step is retried, as is a failed connection.
Reply ==
    /\ gpc = "flight"
    /\ \E status \in Statuses :
          \/ status = 200 /\ gpc' \in {"reply", "head"}
          \/ status = 0 /\ gpc' = "head"
          \/ status \notin {0, 200} /\ gpc' = IF Retryable(status) THEN "head" ELSE "error"
    /\ UNCHANGED <<budget, attempt, requests, stopping>>

Signal ==
    /\ ~stopping
    /\ stopping' = TRUE
    /\ UNCHANGED <<budget, generate>>

GenerateAction == NextAttempt \/ Wait \/ Request \/ Reply
=============================================================================
