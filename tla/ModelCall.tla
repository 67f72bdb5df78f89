------------------------------ MODULE ModelCall ------------------------------
(***************************************************************************)
(* What the extraction passes take a call of the model for (Answered,      *)
(* CallFailed, Cancelled and Panic of module Extraction): it sends at most *)
(* `budget` requests, none once the program was told to stop, and ends in   *)
(* one of four ways.                                                       *)
(***************************************************************************)
EXTENDS Integers

CONSTANT Budgets

VARIABLES
    budget,     \* requests the call may send
    requests,   \* requests sent by the call under way
    stopping,   \* the program has been told to stop
    end         \* how the call has ended, "none" while it is under way

callVars == <<budget, requests, stopping, end>>

CallInit ==
    /\ budget \in Budgets
    /\ requests = 0 /\ stopping = FALSE /\ end = "none"

Send ==
    /\ end = "none" /\ ~stopping
    /\ requests < budget
    /\ requests' = requests + 1
    /\ UNCHANGED <<budget, stopping, end>>

Tell ==
    /\ ~stopping
    /\ stopping' = TRUE
    /\ UNCHANGED <<budget, requests, end>>

\* There is no answer without a request, and a call that fails after the program
\* was told to stop is cut: it does not count as an attempt.
Answer == requests > 0 /\ end' = "answered"
Break  == end' = IF stopping THEN "cut" ELSE "failed"
Panic  == requests > 0 /\ end' = "panic"

End ==
    /\ end = "none"
    /\ Answer \/ Break \/ Panic
    /\ requests' = 0
    /\ UNCHANGED <<budget, stopping>>

CallNext == Send \/ Tell \/ End

CallSpec == CallInit /\ [][CallNext]_callVars /\ WF_callVars(End)
=============================================================================
