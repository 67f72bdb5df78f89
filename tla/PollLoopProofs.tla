--------------------------- MODULE PollLoopProofs ---------------------------
(***************************************************************************)
(* Theorems about PollLoop, for any number of roles, expiries and failed    *)
(* requests, any --role and any number of failed logins to give up after.   *)
(***************************************************************************)
EXTENDS PollLoop, TLAPS

LEMMA BuildPollRolesType ==
    ASSUME NEW found \in SUBSET Prefix
    PROVE  BuildPollRoles(found) \in SUBSET Prefix
BY LoopAssumption DEF BuildPollRoles, Prefix

LEMMA DiscoverRolesType ==
    ASSUME TypeOK, DiscoverRoles
    PROVE  pollRoles' \in SUBSET Prefix /\ faults' \in 0 .. MaxFaults
<1>1. account \in SUBSET Prefix /\ {Unnamed} \in SUBSET Prefix
  BY DEF TypeOK, Prefix
<1>2. faults + 1 \in 0 .. MaxFaults \/ ~(faults < MaxFaults)
  BY LoopAssumption DEF TypeOK
<1> QED
  BY <1>1, <1>2, BuildPollRolesType DEF DiscoverRoles, Fault, TypeOK

\* A request counts only after the signal, and for its kind only.
LEMMA RequestType ==
    ASSUME TypeOK, NEW k \in RequestKind, Request(k)
    PROVE  /\ late' \in [RequestKind -> 0 .. LateBound]
           /\ ~cancelled => late' = late
           /\ late'[k] \in late[k] .. late[k] + 1
           /\ \A j \in RequestKind \ {k} : late'[j] = late[j]
BY DEF TypeOK, Request, LateBound, LoginRequests

LEMMA LogoutType ==
    ASSUME TypeOK, SendLogout
    PROVE  /\ late' \in [RequestKind -> 0 .. LateBound]
           /\ session' \in {"out", session}
           /\ ~cancelled => late' = late
           /\ late'["session"] \in late["session"] .. late["session"] + 1
           /\ late'["pass"] = late["pass"]
<1>1. "session" \in RequestKind /\ "pass" \in RequestKind \ {"session"}
  BY DEF RequestKind
<1>2. CASE Request("session") /\ session' \in {"out", session}
  BY <1>1, <1>2, RequestType
<1>3. CASE UNCHANGED <<late, session>>
  BY <1>1, <1>3 DEF TypeOK
<1> QED
  BY <1>2, <1>3 DEF SendLogout

\* A loop that has not ended has not failed to log in GiveUp times in a row.
CountInv == pc \notin {"leaving", "stopped"} => failedLogins < GiveUp

LEMMA TypeStep == TypeOK /\ CountInv /\ [Next]_vars => TypeOK'
<1> SUFFICES ASSUME TypeOK, CountInv, [Next]_vars
             PROVE  TypeOK'
  OBVIOUS
<1> USE DEF outside, pass, loop, Stop, Step, PassStep
<1>f. faults + 1 \in 0 .. MaxFaults \/ ~(faults < MaxFaults)
  BY LoopAssumption DEF TypeOK
<1>e. PassExpired => pc' \in Step /\ exit' \in {-1, 0, 1}
  BY DEF PassExpired, TypeOK
<1>k. "pass" \in RequestKind /\ "session" \in RequestKind
  BY DEF RequestKind
<1>g. LoginGoesOn => sent' \in 0 .. LoginRequests - 1
  BY DEF LoginGoesOn, LoginRequests, TypeOK
<1>0. 0 \in 0 .. LoginRequests - 1 /\ 0 \in 0 .. GiveUp
  BY LoopAssumption DEF LoginRequests
<1>1. CASE Login
  <2>1. late' \in [RequestKind -> 0 .. LateBound]
    BY <1>1, <1>k, RequestType DEF Login
  <2>2. CASE LoginGoesOn
    BY <1>1, <1>g, <2>1, <2>2 DEF Login, LoginGoesOn, TypeOK
  <2>3. CASE LoggedIn /\ UNCHANGED <<again, failedLogins>>
    BY <1>1, <1>0, <2>1, <2>3, DiscoverRolesType DEF Login, LoggedIn, BeginPass, TypeOK, Ended
  <2>4. CASE /\ pc' = "stopped" /\ exit' = 1 /\ sent' = 0
             /\ UNCHANGED <<session, again, pollRoles, failedLogins, left, done, failed, faults>>
    BY <1>1, <1>0, <2>1, <2>4 DEF Login, TypeOK
  <2> QED
    BY <1>1, <2>2, <2>3, <2>4 DEF Login
<1>2. CASE NextRole
  BY <1>2 DEF NextRole, PassCancelled, PassDone, TypeOK
<1>3. CASE List
  <2>1. late' \in [RequestKind -> 0 .. LateBound]
    BY <1>3, <1>k, RequestType DEF List, TypeOK
  <2>2. done' \in SUBSET Prefix /\ failed' \in BOOLEAN /\ pc' \in Step /\ exit' \in {-1, 0, 1}
    BY <1>3, <1>e DEF List, RoleFailed, TypeOK
  <2>3. faults' \in 0 .. MaxFaults /\ paged' \in BOOLEAN
    BY <1>3, <1>f DEF List, Fault, TypeOK
  <2> QED
    BY <1>3, <2>1, <2>2, <2>3 DEF List, TypeOK
<1>4. CASE Fetch
  <2>1. done' \in SUBSET Prefix /\ failed' \in BOOLEAN /\ pc' \in Step /\ exit' \in {-1, 0, 1}
    BY <1>4 DEF Fetch, PassCancelled, RoleDone, RoleFailed, TypeOK
  <2>2. faults' \in 0 .. MaxFaults
    BY <1>4, <1>f DEF Fetch, Fault, TypeOK
  <2> QED
    BY <1>4, <2>1, <2>2 DEF Fetch, TypeOK
<1>a. CASE FetchBody
  <2>1. late' \in [RequestKind -> 0 .. LateBound]
    BY <1>a, <1>k, RequestType DEF FetchBody
  <2>2. done' \in SUBSET Prefix /\ failed' \in BOOLEAN /\ pc' \in Step /\ exit' \in {-1, 0, 1}
    BY <1>a, <1>e DEF FetchBody, RoleFailed, TypeOK
  <2>3. faults' \in 0 .. MaxFaults
    BY <1>a, <1>f DEF FetchBody, Fault, TypeOK
  <2> QED
    BY <1>a, <2>1, <2>2, <2>3 DEF FetchBody, TypeOK
<1>5. CASE Logout
  BY <1>5, LogoutType DEF Logout, TypeOK, Ended
<1>b. CASE Leave
  BY <1>b, LogoutType DEF Leave, TypeOK, Ended
<1>6. CASE Relogin
  <2>1. late' \in [RequestKind -> 0 .. LateBound]
    BY <1>6, <1>k, RequestType DEF Relogin
  <2>2. CASE LoginGoesOn
    BY <1>6, <1>g, <2>1, <2>2 DEF Relogin, LoginGoesOn, TypeOK
  <2>3. CASE LoggedIn /\ failedLogins' = 0 /\ again' = TRUE
    BY <1>6, <1>0, <2>1, <2>3, DiscoverRolesType DEF Relogin, LoggedIn, BeginPass, TypeOK, Ended
  <2>4. CASE LoginRefused
    <3>1. failedLogins' \in 0 .. GiveUp
      BY <1>6, <2>4, LoopAssumption DEF Relogin, LoginRefused, CountInv, TypeOK
    <3> QED
      BY <1>6, <1>0, <2>1, <2>4, <3>1 DEF Relogin, LoginRefused, TypeOK
  <2> QED
    BY <1>6, <2>2, <2>3, <2>4 DEF Relogin
<1>7. CASE Wait
  BY <1>7 DEF Wait, BeginPass, TypeOK
<1>8. CASE Expire
  BY <1>8, <1>f DEF Expire, TypeOK, Ended
<1>9. ASSUME NEW c \in Child, AddChild(c)
      PROVE  TypeOK'
  BY <1>9 DEF AddChild, TypeOK
<1>10. CASE Signal
  BY <1>10 DEF Signal, TypeOK
<1>11. CASE UNCHANGED vars
  BY <1>11 DEF vars, TypeOK
<1> QED
  BY <1>1, <1>2, <1>3, <1>4, <1>a, <1>5, <1>b, <1>6, <1>7, <1>8, <1>9, <1>10, <1>11
     DEF Next, LoopStep

LEMMA CountStep == TypeOK /\ CountInv /\ [Next]_vars => CountInv'
<1> SUFFICES ASSUME TypeOK, CountInv, [Next]_vars
             PROVE  CountInv'
  OBVIOUS
<1> USE DEF CountInv, Stop
<1>1. CASE Login
  BY <1>1 DEF Login, LoginGoesOn, LoggedIn
<1>2. CASE NextRole
  BY <1>2 DEF NextRole, loop
<1>3. CASE List \/ Fetch \/ FetchBody
  BY <1>3 DEF List, Fetch, FetchBody, loop
<1>4. CASE Logout \/ Leave
  BY <1>4 DEF Logout, Leave, loop
<1>5. CASE Relogin
  BY <1>5, LoopAssumption DEF Relogin, LoginGoesOn, LoggedIn, LoginRefused, TypeOK
<1>6. CASE Wait
  BY <1>6 DEF Wait
<1>7. CASE Expire \/ Signal \/ \E c \in Child : AddChild(c)
  BY <1>7 DEF Expire, Signal, AddChild, loop
<1>8. CASE UNCHANGED vars
  BY <1>8 DEF vars, loop
<1> QED
  BY <1>1, <1>2, <1>3, <1>4, <1>5, <1>6, <1>7, <1>8 DEF Next, LoopStep

LEMMA TypeInit == Init => TypeOK /\ CountInv
<1> SUFFICES ASSUME Init
             PROVE  TypeOK /\ CountInv
  OBVIOUS
<1>1. /\ 0 \in 0 .. GiveUp /\ 0 \in 0 .. MaxFaults /\ 0 \in 0 .. LateBound
      /\ 0 \in 0 .. LoginRequests - 1
      /\ {} \in SUBSET Prefix /\ Unnamed \in Prefix
  BY LoopAssumption DEF Prefix, LateBound, LoginRequests
<1>2. account \in SUBSET Child /\ session \in {"none", "live"} \cup Ended /\ pc \in Step
  BY DEF Init, Ended, Step, PassStep
<1>3. CountInv
  BY LoopAssumption DEF Init, CountInv
<1> QED
  BY <1>1, <1>2, <1>3 DEF Init, TypeOK

\* Every reachable state of the loop is type correct; above all it never counts
\* more than GiveUp failed logins in a row.
THEOREM TypeCorrect == Spec => []TypeOK
<1>1. TypeOK /\ CountInv /\ [Next]_vars => (TypeOK /\ CountInv)'
  BY TypeStep, CountStep
<1> QED
  BY <1>1, TypeInit, PTL DEF Spec

LEMMA TypeHolds == Spec => [](TypeOK /\ CountInv)
<1>1. TypeOK /\ CountInv /\ [Next]_vars => (TypeOK /\ CountInv)'
  BY TypeStep, CountStep
<1> QED
  BY <1>1, TypeInit, PTL DEF Spec

-----------------------------------------------------------------------------
(* Requests after a signal.                                                 *)

\* Nothing is counted before the signal; a role is listed, a body fetched and a
\* session renewed only after a look at ctx, which nothing else hears of.
LateInv ==
    /\ ~cancelled \/ pc \in {"list", "body", "logout"} => late["pass"] = 0 /\ late["session"] = 0
    /\ pc \notin {"login", "relogin"} => sent = 0
    /\ pc = "login" => late["pass"] = 0 /\ late["session"] <= sent
    /\ pc = "relogin" => late["pass"] = 0 /\ late["session"] <= 1 + sent
    /\ pc = "fetch" => late["pass"] <= 1 /\ late["session"] = 0
    /\ pc \in {"role", "wait", "leaving"} =>
          \/ late["pass"] <= 1 /\ late["session"] = 0
          \/ late["pass"] = 0 /\ late["session"] <= 1 + LoginRequests
    /\ pc = "stopped" => LateRequests

LEMMA LateStep == TypeOK /\ LateInv /\ [Next]_vars => LateInv'
<1> SUFFICES ASSUME TypeOK, LateInv, [Next]_vars
             PROVE  LateInv'
  OBVIOUS
<1> USE DEF LateInv, LateRequests, LoginRequests, Stop, BeginPass
<1>k. "pass" \in RequestKind /\ "session" \in RequestKind
  BY DEF RequestKind
<1>t. late["pass"] \in Nat /\ late["session"] \in Nat /\ sent \in 0 .. 2 /\ pc \in Step
  BY <1>k DEF TypeOK
<1>r. /\ Request("pass") => /\ ~cancelled => late' = late
                            /\ late'["pass"] \in late["pass"] .. late["pass"] + 1
                            /\ late'["session"] = late["session"]
      /\ Request("session") => /\ ~cancelled => late' = late
                               /\ late'["session"] \in late["session"] .. late["session"] + 1
                               /\ late'["pass"] = late["pass"]
  BY <1>k, RequestType
<1>1. CASE Login
  <2>1. /\ pc = "login" /\ cancelled' = cancelled /\ late'["pass"] = 0
        /\ late'["session"] \in 0 .. sent + 1 /\ (~cancelled => late'["session"] = 0)
    BY <1>1, <1>r, <1>t DEF Login
  <2>2. \/ pc' = "login" /\ sent' = sent + 1
        \/ pc' \in {"role", "stopped"} /\ sent' = 0
    BY <1>1, <2>1 DEF Login, LoginGoesOn, LoggedIn
  <2> QED
    BY <1>t, <2>1, <2>2
<1>2. CASE NextRole
  BY <1>2 DEF NextRole, PassCancelled, PassDone, loop
<1>3. CASE List
  <2>1. /\ pc = "list" /\ cancelled' = cancelled /\ sent' = 0 /\ late'["session"] = 0
        /\ late'["pass"] \in 0 .. 1 /\ (~cancelled => late'["pass"] = 0)
    BY <1>3, <1>r DEF List, loop
  <2>2. pc' \in {"fetch", "role", "wait", "leaving"} \/ (pc' = "logout" /\ ~cancelled)
    BY <1>3 DEF List, RoleFailed, PassExpired
  <2> QED
    BY <2>1, <2>2
<1>4. CASE Fetch
  BY <1>4 DEF Fetch, PassCancelled, RoleDone, RoleFailed, loop
<1>a. CASE FetchBody
  <2>1. /\ pc = "body" /\ cancelled' = cancelled /\ sent' = 0 /\ late'["session"] = 0
        /\ late'["pass"] \in 0 .. 1 /\ (~cancelled => late'["pass"] = 0)
    BY <1>a, <1>r DEF FetchBody, loop
  <2>2. pc' \in {"fetch", "role", "wait", "leaving"} \/ (pc' = "logout" /\ ~cancelled)
    BY <1>a DEF FetchBody, RoleFailed, PassExpired
  <2> QED
    BY <2>1, <2>2
<1>5. CASE Logout
  <2>1. /\ pc = "logout" /\ pc' = "relogin" /\ cancelled' = cancelled /\ sent' = 0
        /\ late'["session"] \in 0 .. 1 /\ late'["pass"] = 0
        /\ ~cancelled => late'["session"] = 0
    BY <1>5, LogoutType DEF Logout, loop
  <2> QED
    BY <2>1
<1>b. CASE Leave
  <2>1. /\ pc = "leaving" /\ pc' = "stopped" /\ cancelled' = cancelled /\ sent' = 0
        /\ late'["session"] \in late["session"] .. late["session"] + 1
        /\ late'["pass"] = late["pass"] /\ (~cancelled => late' = late)
    BY <1>b, LogoutType DEF Leave, loop
  <2> QED
    BY <1>t, <2>1
<1>6. CASE Relogin
  <2>1. /\ pc = "relogin" /\ cancelled' = cancelled /\ late'["pass"] = 0
        /\ late'["session"] \in 0 .. sent + 2 /\ (~cancelled => late'["session"] = 0)
    BY <1>6, <1>r, <1>t DEF Relogin
  <2>2. \/ pc' = "relogin" /\ sent' = sent + 1
        \/ pc' \in {"role", "wait", "leaving"} /\ sent' = 0
    BY <1>6, <2>1 DEF Relogin, LoginGoesOn, LoggedIn, LoginRefused
  <2> QED
    BY <1>t, <2>1, <2>2
<1>7. CASE Wait
  BY <1>7 DEF Wait
<1>8. CASE Expire \/ Signal \/ \E c \in Child : AddChild(c)
  BY <1>8, <1>t DEF Expire, Signal, AddChild, loop, Step, PassStep
<1>9. CASE UNCHANGED vars
  BY <1>9 DEF vars, loop
<1> QED
  BY <1>1, <1>2, <1>3, <1>4, <1>a, <1>5, <1>b, <1>6, <1>7, <1>8, <1>9 DEF Next, LoopStep

\* However many roles there are and however often sessions expire, a pass sends
\* at most one request after the signal, and then only the final logout follows;
\* or a logout, one login of three requests and the final logout are sent.
THEOREM FewLateRequests == Spec => []LateRequests
<1>1. Init => LateInv
  BY DEF Init, LateInv, RequestKind
<1>2. TypeOK /\ LateInv => LateRequests
  <2> SUFFICES ASSUME TypeOK, LateInv
               PROVE  LateRequests
    OBVIOUS
  <2>1. late["pass"] \in Nat /\ late["session"] \in Nat /\ sent \in 0 .. 2 /\ pc \in Step
    BY DEF TypeOK, RequestKind, LoginRequests
  <2> QED
    BY <2>1 DEF LateInv, LateRequests, LoginRequests, Step, PassStep
<1> QED
  BY <1>1, <1>2, LateStep, TypeHolds, PTL DEF Spec

-----------------------------------------------------------------------------
(* The verdict of a single pass.                                            *)

Polling == IF pc \in {"list", "fetch", "body"} THEN {cur} ELSE {}

\* Without --interval there are no signals; until a role fails every role that
\* was found is polled, being polled or still to come.
VerdictInv ==
    /\ ~looping => ~cancelled
    /\ exit # -1 => pc \in {"leaving", "stopped"}
    /\ pc \in PassStep /\ ~failed => pollRoles = done \cup left \cup Polling
    /\ ZeroMeansAll

LEMMA VerdictStep == TypeOK /\ VerdictInv /\ [Next]_vars => VerdictInv'
<1> SUFFICES ASSUME TypeOK, VerdictInv, [Next]_vars
             PROVE  VerdictInv'
  OBVIOUS
<1> USE DEF VerdictInv, ZeroMeansAll, Stop, PassStep, Polling
<1>1. CASE Login
  BY <1>1 DEF Login, LoginGoesOn, LoggedIn, BeginPass, TypeOK
<1>2. CASE NextRole
  BY <1>2 DEF NextRole, PassCancelled, PassDone, loop, pass
<1>3. CASE List
  BY <1>3 DEF List, RoleDone, RoleFailed, PassExpired, loop
<1>4. CASE Fetch
  BY <1>4 DEF Fetch, PassCancelled, RoleDone, RoleFailed, loop, pass
<1>a. CASE FetchBody
  BY <1>a DEF FetchBody, RoleFailed, PassExpired, loop
<1>5. CASE Logout
  BY <1>5 DEF Logout, loop, pass
<1>b. CASE Leave
  BY <1>b DEF Leave, loop, pass
<1>6. CASE Relogin
  BY <1>6 DEF Relogin, LoginGoesOn, LoggedIn, LoginRefused, BeginPass, TypeOK
<1>7. CASE Wait
  BY <1>7 DEF Wait, BeginPass, TypeOK
<1>8. CASE Expire \/ Signal \/ \E c \in Child : AddChild(c)
  BY <1>8 DEF Expire, Signal, AddChild, loop, pass
<1>9. CASE UNCHANGED vars
  BY <1>9 DEF vars, loop, pass
<1> QED
  BY <1>1, <1>2, <1>3, <1>4, <1>a, <1>5, <1>b, <1>6, <1>7, <1>8, <1>9 DEF Next, LoopStep

\* Exit code 0 of a single poll stands for all the roles it found, however many.
THEOREM ZeroIsAll == Spec => []ZeroMeansAll
<1>1. Init => VerdictInv
  BY DEF Init, VerdictInv, ZeroMeansAll, PassStep
<1>2. VerdictInv => ZeroMeansAll
  BY DEF VerdictInv
<1> QED
  BY <1>1, <1>2, VerdictStep, TypeHolds, PTL DEF Spec

-----------------------------------------------------------------------------
(* Sessions the loop itself has ended.                                      *)

OutInv ==
    session = "out" /\ pc \notin {"relogin", "leaving", "stopped"} =>
        failedLogins > 0 /\ (pc \in PassStep => ~again)

LEMMA OutStep == TypeOK /\ OutInv /\ [Next]_vars => OutInv'
<1> SUFFICES ASSUME TypeOK, OutInv, [Next]_vars
             PROVE  OutInv'
  OBVIOUS
<1> USE DEF OutInv, Stop, PassStep, outside, loop
<1>1. CASE Login
  BY <1>1 DEF Login, LoginGoesOn, LoggedIn, BeginPass
<1>2. CASE NextRole
  BY <1>2 DEF NextRole, PassCancelled, PassDone
<1>3. CASE List
  BY <1>3 DEF List, RoleDone, RoleFailed, PassExpired
<1>4. CASE Fetch
  BY <1>4 DEF Fetch, PassCancelled, RoleDone, RoleFailed
<1>a. CASE FetchBody
  BY <1>a DEF FetchBody, RoleFailed, PassExpired
<1>5. CASE Logout
  BY <1>5 DEF Logout
<1>b. CASE Leave
  BY <1>b DEF Leave
<1>6. CASE Relogin
  <2>1. failedLogins + 1 > 0
    BY DEF TypeOK
  <2> QED
    BY <1>6, <2>1 DEF Relogin, LoginGoesOn, LoggedIn, LoginRefused, BeginPass
<1>7. CASE Wait
  BY <1>7 DEF Wait, BeginPass
<1>8. CASE Expire \/ Signal \/ \E c \in Child : AddChild(c)
  BY <1>8 DEF Expire, Signal, AddChild
<1>9. CASE UNCHANGED vars
  BY <1>9 DEF vars
<1> QED
  BY <1>1, <1>2, <1>3, <1>4, <1>a, <1>5, <1>b, <1>6, <1>7, <1>8, <1>9 DEF Next, LoopStep

\* For any number of failed logins to give up after, a pass on a session that
\* was logged out follows refused logins only.
THEOREM OutOnlyIfRefused == Spec => []LoggedOutOnlyIfRefused
<1>1. Init => OutInv
  BY DEF Init, OutInv
<1>2. OutInv => LoggedOutOnlyIfRefused
  BY DEF OutInv, LoggedOutOnlyIfRefused, PassStep
<1> QED
  BY <1>1, <1>2, OutStep, TypeHolds, PTL DEF Spec

-----------------------------------------------------------------------------
(* The loop implements Supervisor.                                          *)

\* A session is renewed only within the first pass of a period of a loop.
PeriodInv ==
    /\ cancelled => looping
    /\ pc = "login" => ~again
    /\ pc \in {"logout", "relogin"} => looping /\ ~again

LEMMA PeriodStep == PeriodInv /\ [Next]_vars => PeriodInv'
<1> SUFFICES ASSUME PeriodInv, [Next]_vars
             PROVE  PeriodInv'
  OBVIOUS
<1> USE DEF PeriodInv, Stop, loop
<1>1. CASE Login
  BY <1>1 DEF Login, LoginGoesOn, LoggedIn, BeginPass
<1>2. CASE NextRole
  BY <1>2 DEF NextRole, PassCancelled, PassDone
<1>3. CASE List
  BY <1>3 DEF List, RoleDone, RoleFailed, PassExpired
<1>4. CASE Fetch
  BY <1>4 DEF Fetch, PassCancelled, RoleDone, RoleFailed
<1>a. CASE FetchBody
  BY <1>a DEF FetchBody, RoleFailed, PassExpired
<1>5. CASE Logout
  BY <1>5 DEF Logout
<1>b. CASE Leave
  BY <1>b DEF Leave
<1>6. CASE Relogin
  BY <1>6 DEF Relogin, LoginGoesOn, LoggedIn, LoginRefused, BeginPass
<1>7. CASE Wait
  BY <1>7 DEF Wait, BeginPass
<1>8. CASE Expire \/ Signal \/ \E c \in Child : AddChild(c)
  BY <1>8 DEF Expire, Signal, AddChild
<1>9. CASE UNCHANGED vars
  BY <1>9 DEF vars
<1> QED
  BY <1>1, <1>2, <1>3, <1>4, <1>a, <1>5, <1>b, <1>6, <1>7, <1>8, <1>9 DEF Next, LoopStep

\* What Phase and Passes are at each step of the loop.
LEMMA PhaseIs ==
    ASSUME TypeOK
    PROVE  /\ pc = "login" => Phase = "starting" /\ Passes = 0
           /\ pc = "wait" => Phase = "wait" /\ Passes = 0
           /\ pc \in {"leaving", "stopped"} => Phase = "done" /\ Passes = 0
           /\ pc \in PassStep \cup {"logout", "relogin"} =>
                 Phase = "work" /\ Passes = IF again THEN 2 ELSE 1
BY DEF TypeOK, Phase, Passes, PassStep

\* A step within a period, or of the world, that Supervisor does not see.
LEMMA PhaseStays ==
    ASSUME UNCHANGED <<pc, again, failedLogins, exit, looping>>
    PROVE  UNCHANGED Supervised!supervisorVars
BY DEF Supervised!supervisorVars, Phase, Passes

\* Each step of the loop is a step of Supervisor, or one it does not see.
LEMMA SupervisorStep ==
    TypeOK /\ TypeOK' /\ CountInv /\ PeriodInv /\ [Next]_vars =>
        [Supervised!SupervisorNext]_Supervised!supervisorVars
<1> SUFFICES ASSUME TypeOK, TypeOK', CountInv, PeriodInv, [Next]_vars
             PROVE  Supervised!SupervisorNext \/ UNCHANGED Supervised!supervisorVars
  OBVIOUS
<1> USE DEF PassStep, Stop, loop
<1>a. /\ pc = "login" => Phase = "starting" /\ Passes = 0
      /\ pc = "wait" => Phase = "wait" /\ Passes = 0
      /\ pc \in {"leaving", "stopped"} => Phase = "done" /\ Passes = 0
      /\ pc \in PassStep \cup {"logout", "relogin"} =>
            Phase = "work" /\ Passes = IF again THEN 2 ELSE 1
  BY PhaseIs
<1>b. /\ pc' = "login" => Phase' = "starting" /\ Passes' = 0
      /\ pc' = "wait" => Phase' = "wait" /\ Passes' = 0
      /\ pc' \in {"leaving", "stopped"} => Phase' = "done" /\ Passes' = 0
      /\ pc' \in PassStep \cup {"logout", "relogin"} =>
            Phase' = "work" /\ Passes' = IF again' THEN 2 ELSE 1
  BY DEF TypeOK, Phase, Passes
<1>p. PassExpired /\ pc \in PassStep /\ UNCHANGED <<again, failedLogins, looping>> =>
          Supervised!SupervisorNext \/ UNCHANGED Supervised!supervisorVars
  BY <1>a, <1>b DEF PassExpired, Supervised!SupervisorNext, Supervised!Once, Supervised!Rest,
     Supervised!Interrupted, Supervised!supervisorVars
<1>q. PassCancelled /\ pc \in PassStep /\ UNCHANGED <<again, failedLogins, looping>> =>
          Supervised!SupervisorNext
  BY <1>a, <1>b DEF PassCancelled, PeriodInv, Supervised!SupervisorNext, Supervised!Interrupted
<1>s. /\ pc \in PassStep /\ pc' \in PassStep
      /\ UNCHANGED <<again, failedLogins, exit, looping>>
      => UNCHANGED Supervised!supervisorVars
  BY <1>a, <1>b DEF Supervised!supervisorVars
<1>1. CASE Login
  <2>1. CASE LoginGoesOn
    BY <1>1, <2>1, PhaseStays DEF Login, LoginGoesOn
  <2>2. CASE ~LoginGoesOn
    BY <1>1, <2>2, <1>a, <1>b DEF Login, LoggedIn, BeginPass, PeriodInv,
       Supervised!SupervisorNext, Supervised!Enter, Supervised!NeverStarted
  <2> QED
    BY <2>1, <2>2
<1>2. CASE NextRole
  <2>1. CASE left # {} /\ PassCancelled
    BY <1>2, <2>1, <1>q DEF NextRole
  <2>2. CASE ~cancelled /\ pc' = "list" /\ UNCHANGED exit
    BY <1>2, <2>2, <1>s DEF NextRole
  <2>3. CASE PassDone
    BY <1>2, <2>3, <1>a, <1>b DEF NextRole, PassDone, Supervised!SupervisorNext,
       Supervised!Once, Supervised!Rest, Supervised!Interrupted
  <2> QED
    BY <1>2, <2>1, <2>2, <2>3 DEF NextRole
<1>3. CASE List
  <2>1. pc \in PassStep /\ UNCHANGED <<again, failedLogins, looping>>
    BY <1>3 DEF List
  <2>2. CASE PassExpired
    BY <2>1, <2>2, <1>p
  <2>3. CASE pc' \in PassStep /\ UNCHANGED exit
    BY <2>1, <2>3, <1>s
  <2> QED
    BY <1>3, <2>2, <2>3 DEF List, RoleDone, RoleFailed
<1>4. CASE Fetch
  <2>1. pc \in PassStep /\ UNCHANGED <<again, failedLogins, looping>>
    BY <1>4 DEF Fetch
  <2>2. CASE PassCancelled
    BY <2>1, <2>2, <1>q
  <2>3. CASE pc' \in PassStep /\ UNCHANGED exit
    BY <2>1, <2>3, <1>s
  <2> QED
    BY <1>4, <2>2, <2>3 DEF Fetch, RoleDone, RoleFailed
<1>c. CASE FetchBody
  <2>1. pc \in PassStep /\ UNCHANGED <<again, failedLogins, looping>>
    BY <1>c DEF FetchBody
  <2>2. CASE PassExpired
    BY <2>1, <2>2, <1>p
  <2>3. CASE pc' \in PassStep /\ UNCHANGED exit
    BY <2>1, <2>3, <1>s
  <2> QED
    BY <1>c, <2>2, <2>3 DEF FetchBody, RoleFailed
<1>5. CASE Logout \/ Leave
  BY <1>5, <1>a, <1>b DEF Logout, Leave, Supervised!supervisorVars
<1>6. CASE Relogin
  <2>1. looping /\ ~again /\ Phase = "work" /\ Passes = 1 /\ looping' = looping
    BY <1>6, <1>a DEF Relogin, PeriodInv
  <2>2. CASE LoginGoesOn
    BY <2>1, <2>2, PhaseStays DEF LoginGoesOn
  <2>3. CASE LoggedIn /\ failedLogins' = 0 /\ again' = TRUE
    BY <2>1, <2>3, <1>b DEF LoggedIn, BeginPass, Supervised!SupervisorNext, Supervised!Renewed
  <2>4. CASE LoginRefused
    <3>1. failedLogins < GiveUp /\ failedLogins \in Nat /\ GiveUp \in Nat
      BY <1>6, LoopAssumption DEF Relogin, CountInv, TypeOK
    <3>2. failedLogins' = failedLogins + 1 /\ (failedLogins' >= GiveUp => failedLogins' = GiveUp)
      BY <2>4, <3>1 DEF LoginRefused
    <3> QED
      BY <2>1, <2>4, <3>1, <3>2, <1>b DEF LoginRefused, Supervised!SupervisorNext, Supervised!Refused
  <2> QED
    BY <1>6, <2>2, <2>3, <2>4 DEF Relogin
<1>7. CASE Wait
  BY <1>7, <1>a, <1>b DEF Wait, BeginPass, PeriodInv, Supervised!SupervisorNext,
     Supervised!Tick, Supervised!Interrupted
<1>8. CASE Expire \/ Signal \/ \E c \in Child : AddChild(c)
  BY <1>8, PhaseStays DEF Expire, Signal, AddChild
<1>9. CASE UNCHANGED vars
  BY <1>9, PhaseStays DEF vars
<1> QED
  BY <1>1, <1>2, <1>3, <1>4, <1>c, <1>5, <1>6, <1>7, <1>8, <1>9 DEF Next, LoopStep

LEMMA SupervisorStart == Init => Supervised!SupervisorInit
BY TypeInit, PhaseIs DEF Init, Supervised!SupervisorInit

\* The loop keeps the promise of Supervisor for every account, every --role,
\* every number of failed logins to give up after and any run of expiries,
\* failed requests and signals.
THEOREM LoopImplementsSupervisor == Spec => ImplementsSupervisor
<1>1. Init => PeriodInv
  BY DEF Init, PeriodInv
<1>2. Spec => []PeriodInv
  BY <1>1, PeriodStep, PTL DEF Spec
<1> QED
  BY <1>2, TypeHolds, SupervisorStart, SupervisorStep, PTL
     DEF Spec, ImplementsSupervisor, Supervised!SupervisorSpec

-----------------------------------------------------------------------------
(* That a signal ends the loop.                                             *)

\* Steps of the loop there can be after the signal.
StepsToStop ==
    CASE pc = "logout" -> 7
      [] pc \in {"login", "relogin"} -> 3 + LoginRequests - sent
      [] pc \in {"list", "body"} -> 5
      [] pc = "fetch" -> 4
      [] pc = "role" -> 3
      [] pc = "wait" -> 2
      [] pc = "leaving" -> 1
      [] OTHER -> 0

\* From the signal on each step of the loop takes it nearer to its end, wherever
\* the signal found it and whatever Wilma answers: seven steps at most.
THEOREM SignalledLoopStops ==
    Spec => [][cancelled /\ LoopStep => cancelled' /\ StepsToStop' < StepsToStop]_vars
<1>1. TypeOK /\ PeriodInv => (cancelled /\ LoopStep => cancelled' /\ StepsToStop' < StepsToStop)
  <2> SUFFICES ASSUME TypeOK, PeriodInv, cancelled, LoopStep
               PROVE  cancelled' /\ StepsToStop' < StepsToStop
    OBVIOUS
  <2> USE DEF StepsToStop, Stop, BeginPass, LoginRequests
  <2>t. sent \in 0 .. 2
    BY DEF TypeOK
  <2>1. CASE Login
    BY <2>1, <2>t DEF Login, LoginGoesOn, LoggedIn
  <2>2. CASE NextRole
    BY <2>2 DEF NextRole, PassCancelled, PassDone, PeriodInv
  <2>3. CASE List
    BY <2>3 DEF List, RoleFailed, PassExpired, PeriodInv
  <2>4. CASE Fetch
    BY <2>4 DEF Fetch, PassCancelled, RoleDone
  <2>5. CASE FetchBody
    BY <2>5 DEF FetchBody, RoleFailed, PassExpired, PeriodInv
  <2>6. CASE Logout
    BY <2>6, <2>t DEF Logout, loop
  <2>7. CASE Relogin
    BY <2>7, <2>t DEF Relogin, LoginGoesOn, LoggedIn, LoginRefused
  <2>8. CASE Wait
    BY <2>8 DEF Wait
  <2>9. CASE Leave
    BY <2>9 DEF Leave
  <2> QED
    BY <2>1, <2>2, <2>3, <2>4, <2>5, <2>6, <2>7, <2>8, <2>9 DEF LoopStep
<1>2. Init => PeriodInv
  BY DEF Init, PeriodInv
<1>3. Spec => []PeriodInv
  BY <1>2, PeriodStep, PTL DEF Spec
<1> QED
  BY <1>1, <1>3, TypeHolds, PTL

-----------------------------------------------------------------------------
(* That an expired session is replaced.                                     *)

\* What Recovers asks for, but for the logout on the way out.
Recovered == session = "live" \/ pc \in {"leaving", "stopped"} \/ paged

\* From the logout of an expired session on: the loop waits, polls without a
\* session and tries to log in.
Recovering ==
    /\ session \in Ended /\ ~paged
    /\ looping /\ ~again
    /\ pc \in {"logout", "relogin", "wait", "role", "list"}
    /\ pollRoles # {}

\* A pass that has a role in hand has found roles, and its session is ended when
\* it is left for a logout.
RolesInv ==
    /\ pc \in PassStep => left \subseteq pollRoles
    /\ pc \in {"list", "fetch", "body"} => pollRoles # {}
    /\ pc = "logout" => paged \/ Recovering

LEMMA RolesStep == TypeOK /\ PeriodInv /\ RolesInv /\ [Next]_vars => RolesInv'
<1> SUFFICES ASSUME TypeOK, PeriodInv, RolesInv, [Next]_vars
             PROVE  RolesInv'
  OBVIOUS
<1> USE DEF RolesInv, Recovered, Recovering, Stop, loop, pass, PassStep
<1>1. CASE Login
  BY <1>1 DEF Login, LoginGoesOn, LoggedIn, BeginPass
<1>2. CASE NextRole
  BY <1>2 DEF NextRole, PassCancelled, PassDone, outside
<1>3. CASE List
  BY <1>3 DEF List, RoleDone, RoleFailed, PassExpired
<1>4. CASE Fetch
  BY <1>4 DEF Fetch, PassCancelled, RoleDone, RoleFailed, outside
<1>a. CASE FetchBody
  BY <1>a DEF FetchBody, RoleFailed, PassExpired, outside
<1>5. CASE Logout
  BY <1>5 DEF Logout
<1>b. CASE Leave
  BY <1>b DEF Leave
<1>6. CASE Relogin
  BY <1>6 DEF Relogin, LoginGoesOn, LoggedIn, LoginRefused, BeginPass
<1>7. CASE Wait
  BY <1>7 DEF Wait, BeginPass
<1>8. CASE Expire
  BY <1>8 DEF Expire, Ended
<1>9. CASE Signal \/ \E c \in Child : AddChild(c)
  BY <1>9 DEF Signal, AddChild, outside
<1>10. CASE UNCHANGED vars
  BY <1>10 DEF vars, outside
<1> QED
  BY <1>1, <1>2, <1>3, <1>4, <1>a, <1>5, <1>b, <1>6, <1>7, <1>8, <1>9, <1>10 DEF Next, LoopStep

\* The step the loop is at, in the order in which it takes them.
StepsToLogin ==
    CASE pc = "role" /\ left = {} -> 8
      [] pc = "wait" -> 7
      [] pc = "role" /\ left # {} -> 6
      [] pc = "list" -> 5
      [] pc = "logout" -> 4
      [] pc = "relogin" -> LoginRequests - sent
      [] OTHER -> 0

\* Nearer to a live session or to the end: one more login has been refused, or
\* one more request has failed, or the loop is nearer to its next login.  The
\* first two are bounded by GiveUp and MaxFaults.
Nearer ==
    \/ failedLogins' > failedLogins
    \/ failedLogins' = failedLogins /\ faults' > faults
    \/ failedLogins' = failedLogins /\ faults' = faults /\ StepsToLogin' < StepsToLogin

\* An expired session is being replaced from its logout on until it is replaced,
\* the loop gives up or stops, or Wilma answers with a page; and until then each
\* step of the loop brings that nearer.
THEOREM RecoveryAdvances ==
    Spec => /\ [](pc = "logout" => Recovered \/ Recovering)
            /\ [][Recovering => /\ Recovering' \/ Recovered'
                                /\ LoopStep => Recovered' \/ Nearer]_vars
<1>1. RolesInv => (pc = "logout" => Recovered \/ Recovering)
  BY DEF RolesInv, Recovered
<1>2. ASSUME TypeOK, PeriodInv, RolesInv, Recovering, [Next]_vars
      PROVE  /\ Recovering' \/ Recovered'
             /\ LoopStep => Recovered' \/ Nearer
  <2> USE DEF RolesInv, Recovered, Recovering, Nearer, StepsToLogin, LoginRequests,
           Stop, loop, pass, PassStep
  <2>f. faults \in Int /\ failedLogins \in Int /\ sent \in 0 .. 2
    BY <1>2 DEF TypeOK
  <2>1. CASE LoopStep
    <3>1. ~Login /\ ~Fetch /\ ~FetchBody /\ ~Leave
      BY <1>2 DEF Login, Fetch, FetchBody, Leave
    <3>2. CASE NextRole
      BY <1>2, <2>f, <3>2 DEF NextRole, PassCancelled, PassDone, outside
    <3>3. CASE List
      <4>1. session \in Ended /\ session # "live" /\ pc = "list"
        BY <1>2, <3>3 DEF List, Ended
      <4>2. CASE RoleFailed /\ Fault /\ UNCHANGED paged
        BY <1>2, <2>f, <3>3, <4>1, <4>2 DEF List, RoleFailed, Fault
      <4>3. CASE PassExpired /\ UNCHANGED <<done, failed, paged, faults>>
        BY <1>2, <2>f, <3>3, <4>1, <4>3 DEF List, PassExpired
      <4>4. CASE RoleFailed /\ paged'
        BY <4>4
      <4> QED
        BY <3>3, <4>1, <4>2, <4>3, <4>4 DEF List
    <3>4. CASE Logout
      BY <1>2, <2>f, <3>4, LogoutType DEF Logout, Ended
    <3>5. CASE Relogin
      BY <1>2, <2>f, <3>5 DEF Relogin, LoginGoesOn, LoggedIn, LoginRefused, BeginPass
    <3>6. CASE Wait
      BY <1>2, <2>f, <3>6 DEF Wait, BeginPass, outside
    <3> QED
      BY <2>1, <3>1, <3>2, <3>3, <3>4, <3>5, <3>6 DEF LoopStep
  <2>2. CASE ~LoopStep
    <3>1. ~Expire
      BY <1>2 DEF Expire, Ended
    <3>2. UNCHANGED <<session, paged, looping, loop, pc>>
      BY <1>2, <2>2, <3>1 DEF Next, Signal, AddChild, outside, vars
    <3>3. Recovering'
      BY <1>2, <3>2 DEF Ended
    <3> QED
      BY <2>2, <3>3
  <2> QED
    BY <2>1, <2>2
<1>3. Init => PeriodInv /\ RolesInv
  BY DEF Init, PeriodInv, RolesInv
<1>4. Spec => [](TypeOK /\ PeriodInv /\ RolesInv)
  BY <1>3, TypeHolds, PeriodStep, RolesStep, PTL DEF Spec
<1> QED
  BY <1>1, <1>2, <1>4, PTL DEF Spec
=============================================================================
