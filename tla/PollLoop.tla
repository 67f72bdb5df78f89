------------------------------ MODULE PollLoop ------------------------------
(***************************************************************************)
(* `wilmabridge poll` around its passes (cmdPoll and pollLoop of           *)
(* cmd/wilmabridge/main.go over internal/wilma/client.go): the session with *)
(* Wilma, its expiry in the shapes Wilma shows it, logging in again, the   *)
(* count of failed logins, --interval and signals.  What a pass does to    *)
(* the database is the module Poll; here a pass is the requests it sends.  *)
(* A request is one call of the HTTP client: none of them can be cancelled, *)
(* and each ends within the client's timeout, redirects included.          *)
(***************************************************************************)
EXTENDS Integers, FiniteSets

CONSTANTS
    Child,      \* roles an account may have
    Unnamed,    \* the role that a root page without role links stands for
    Wanted,     \* --role: the roles to poll, or {} for all
    DeadAnswers,\* how Wilma answers a list request on a dead session
    GiveUp,     \* failed logins in a row that end the loop (5 in the code)
    MaxFaults   \* bound: expiries, failed requests and odd root pages

Prefix == Child \cup {Unnamed}

ASSUME LoopAssumption ==
    /\ Unnamed \notin Child
    /\ Wanted \subseteq Child
    /\ DeadAnswers \subseteq {"envelope", "page"}
    /\ GiveUp \in Nat \ {0}
    /\ MaxFaults \in Nat

VARIABLES
    account,    \* external: the children linked to the account now
    session,    \* external: what Wilma makes of the client's session
    paged,      \* auxiliary: a dead session has been answered with a page
    looping,    \* --interval
    cancelled,  \* ctx is done: SIGINT or SIGTERM
    pc,         \* next step
    again,      \* the pass is the retry right after a login
    pollRoles,  \* roles found by the last login
    left, cur,  \* roles still to poll in this pass, role being polled
    done,       \* roles this pass has polled to their end
    failed,     \* a role of this pass has failed
    failedLogins,
    sent,       \* requests of the login under way that have been answered
    exit,       \* exit code, -1 while running
    late,       \* auxiliary: requests sent since the signal, by kind
    faults

outside == <<account, session, paged>>
pass    == <<left, cur, done, failed>>
loop    == <<again, pollRoles, failedLogins, sent>>
vars    == <<outside, looping, cancelled, pc, loop, pass, exit, late, faults>>

PassStep == {"role", "list", "fetch", "body"}
Step == PassStep \cup {"login", "logout", "relogin", "wait", "leaving", "stopped"}

RequestKind == {"pass", "session"}  \* a session is logged in and out

\* LoginAndDiscoverRoles: GET /index_json, POST /login, GET /.
LoginRequests == 3

Init ==
    /\ account \in (SUBSET Child) \ {{}}
    /\ session = "none"
    /\ paged = FALSE
    /\ looping \in BOOLEAN
    /\ cancelled = FALSE
    /\ pc = "login"
    /\ again = FALSE
    /\ pollRoles = {} /\ left = {} /\ done = {}
    /\ cur = Unnamed
    /\ failed = FALSE
    /\ failedLogins = 0 /\ sent = 0
    /\ exit = -1
    /\ late = [k \in RequestKind |-> 0]
    /\ faults = 0

-----------------------------------------------------------------------------
(* Wilma, the account and signals (external).                               *)

Expire ==
    /\ session = "live"
    /\ faults < MaxFaults /\ faults' = faults + 1
    /\ session' = "dead"
    /\ UNCHANGED <<account, paged, looping, cancelled, pc, loop, pass, exit, late>>

AddChild(c) ==
    /\ account' = account \cup {c}
    /\ c \notin account
    /\ UNCHANGED <<session, paged, looping, cancelled, pc, loop, pass, exit, late, faults>>

\* Only pollLoop asks to be told of signals.
Signal ==
    /\ looping /\ ~cancelled /\ pc # "stopped"
    /\ cancelled' = TRUE
    /\ UNCHANGED <<outside, looping, pc, loop, pass, exit, late, faults>>

-----------------------------------------------------------------------------
(* Helpers.                                                                 *)

Ended == {"dead", "out"}    \* expired, or logged out by this program

Fault == faults < MaxFaults /\ faults' = faults + 1

\* A request is sent: auxiliary bookkeeping, bounded by LateBound.
LateBound == LoginRequests + 3
Request(kind) ==
    late' = IF cancelled /\ late[kind] < LateBound THEN [late EXCEPT ![kind] = @ + 1]
                                                   ELSE late

\* buildPollRoles: the roles that --role lets through.
BuildPollRoles(found) == IF Wanted = {} THEN found ELSE found \cap Wanted

\* discoverRoles: the account's children, or one unnamed role when the page
\* that came has no role links, whatever page that is.
DiscoverRoles ==
    \/ pollRoles' = BuildPollRoles(account) /\ UNCHANGED faults
    \/ pollRoles' = BuildPollRoles({Unnamed}) /\ Fault

\* The function returns, and its deferred calls run.
Stop(code) ==
    /\ pc' = "leaving"
    /\ exit' = code

BeginPass ==
    /\ pc' = "role"
    /\ left' = pollRoles'
    /\ done' = {}
    /\ failed' = FALSE

\* A request of a login is answered as it should be, and another follows.
LoginGoesOn ==
    /\ sent < LoginRequests - 1
    /\ sent' = sent + 1
    /\ UNCHANGED <<session, pc, again, pollRoles, failedLogins, left, done, failed, exit, faults>>

\* So is the last one: the client is the new one from here on.
LoggedIn ==
    /\ sent = LoginRequests - 1
    /\ sent' = 0
    /\ DiscoverRoles
    /\ session' = "live"
    /\ BeginPass
    /\ UNCHANGED exit

\* Client.Logout: nothing is sent without a form key, and no error is looked at.
SendLogout ==
    \/ Request("session") /\ session' \in {"out", session}
    \/ UNCHANGED <<late, session>>

-----------------------------------------------------------------------------
(* The first login.                                                         *)

Login ==
    /\ pc = "login"
    /\ Request("session")
    /\ \/ LoginGoesOn
       \/ LoggedIn /\ UNCHANGED <<again, failedLogins>>
       \/ /\ pc' = "stopped" /\ exit' = 1
          /\ sent' = 0
          /\ UNCHANGED <<session, again, pollRoles, failedLogins, left, done, failed, faults>>
    /\ UNCHANGED <<account, paged, looping, cancelled, cur>>

-----------------------------------------------------------------------------
(* A pass (poll.Pass and pollRole).                                         *)

\* Pass is left with ctx's error: a requested shutdown.
PassCancelled ==
    /\ cancelled
    /\ Stop(0)
    /\ UNCHANGED pass

\* Pass is left with ErrSessionExpired.
PassExpired ==
    \/ ~looping /\ Stop(1)
    \/ looping /\ cancelled /\ Stop(0)
    \/ looping /\ ~cancelled /\ ~again /\ pc' = "logout" /\ UNCHANGED exit
    \/ looping /\ ~cancelled /\ again /\ pc' = "wait" /\ UNCHANGED exit

\* Pass returns nil, with or without roles that failed.
PassDone ==
    /\ left = {}
    /\ \/ ~looping /\ Stop(IF failed THEN 1 ELSE 0)
       \/ looping /\ again /\ cancelled /\ Stop(0)
       \/ looping /\ ~(again /\ cancelled) /\ pc' = "wait" /\ UNCHANGED exit
    /\ UNCHANGED pass

\* Bug: Pass does not look at ctx before a role.
NextRoleUnasked ==
    /\ pc = "role"
    /\ \/ \E r \in left : /\ cur' = r
                          /\ left' = left \ {r}
                          /\ pc' = "list"
                          /\ UNCHANGED <<done, failed, exit>>
       \/ PassDone
    /\ UNCHANGED <<outside, looping, cancelled, loop, late, faults>>

\* The loop head over the roles.
NextRole ==
    /\ pc = "role"
    /\ \/ left # {} /\ PassCancelled
       \/ /\ ~cancelled
          /\ \E r \in left : cur' = r /\ left' = left \ {r}
          /\ pc' = "list"
          /\ UNCHANGED <<done, failed, exit>>
       \/ PassDone
    /\ UNCHANGED <<outside, looping, cancelled, loop, late, faults>>

\* Bug: the verdict of the pass is that of its last role.
LastRoleCounts ==
    /\ pc' = "role"
    /\ done' = done \cup {cur}
    /\ failed' = FALSE
    /\ UNCHANGED exit

RoleDone ==
    /\ pc' = "role"
    /\ done' = done \cup {cur}
    /\ UNCHANGED <<failed, exit>>

RoleFailed ==
    /\ pc' = "role"
    /\ failed' = TRUE
    /\ UNCHANGED <<done, exit>>

\* HighWaterMark, ListFolder and MarkPolled, whose error fails the role without
\* ending it.  Of the two answers to a dead session only the error envelope is
\* recognised (checkWilmaError); a page fails to decode.
List ==
    /\ pc = "list"
    /\ \/ RoleFailed /\ Fault /\ UNCHANGED <<paged, late>>
       \/ /\ Request("pass")
          /\ \/ /\ session = "live"
                /\ pc' = "fetch"
                /\ \/ UNCHANGED <<failed, faults>>
                   \/ failed' = TRUE /\ Fault
                /\ UNCHANGED <<done, exit, paged>>
             \/ RoleFailed /\ Fault /\ UNCHANGED paged
             \/ /\ session \in Ended /\ "envelope" \in DeadAnswers
                /\ PassExpired
                /\ UNCHANGED <<done, failed, paged, faults>>
             \/ /\ session \in Ended /\ "page" \in DeadAnswers
                /\ RoleFailed
                /\ paged' = TRUE
                /\ UNCHANGED faults
    /\ UNCHANGED <<account, session, looping, cancelled, loop, left, cur>>

\* The loop head over the selected messages.  One whose body is known from
\* another role, or not asked for, is stored without a request, or fails to be.
Fetch ==
    /\ pc = "fetch"
    /\ \/ RoleDone /\ UNCHANGED faults
       \/ PassCancelled /\ UNCHANGED faults
       \/ ~cancelled /\ pc' = "body" /\ UNCHANGED <<done, failed, exit, faults>>
       \/ ~cancelled /\ RoleFailed /\ Fault
    /\ UNCHANGED <<outside, looping, cancelled, loop, left, cur, late>>

\* FetchMessage, which recognises the login page; the message is stored.
FetchBody ==
    /\ pc = "body"
    /\ Request("pass")
    /\ \/ /\ session = "live"
          /\ pc' = "fetch"
          /\ UNCHANGED <<done, failed, exit, faults>>
       \/ RoleFailed /\ Fault
       \/ /\ session \in Ended
          /\ PassExpired
          /\ UNCHANGED <<done, failed, faults>>
    /\ UNCHANGED <<outside, looping, cancelled, loop, left, cur>>

-----------------------------------------------------------------------------
(* pollLoop between the passes.                                             *)

Logout ==
    /\ pc = "logout"
    /\ SendLogout
    /\ pc' = "relogin"
    /\ UNCHANGED <<account, paged, looping, cancelled, loop, pass, exit, faults>>

\* Bug: one login more than GiveUp.
LoginRefusedOnceMore ==
    /\ sent' = 0
    /\ failedLogins' = failedLogins + 1
    /\ \/ failedLogins' > GiveUp /\ Stop(1)
       \/ failedLogins' <= GiveUp /\ pc' = "wait" /\ UNCHANGED exit
    /\ UNCHANGED <<session, again, pollRoles, left, done, failed, faults>>

\* A request of the login fails: the next one waits for the interval.
LoginRefused ==
    /\ sent' = 0
    /\ failedLogins' = failedLogins + 1
    /\ \/ failedLogins' >= GiveUp /\ Stop(1)
       \/ failedLogins' < GiveUp /\ pc' = "wait" /\ UNCHANGED exit
    /\ UNCHANGED <<session, again, pollRoles, left, done, failed, faults>>

\* Bug: client is replaced before Logout is called on it.
ReloginThenLogout ==
    /\ pc = "relogin"
    /\ Request("session")
    /\ \/ LoginGoesOn
       \/ /\ sent = LoginRequests - 1
          /\ sent' = 0
          /\ DiscoverRoles
          /\ session' = "out"
          /\ failedLogins' = 0
          /\ again' = TRUE
          /\ BeginPass
          /\ UNCHANGED exit
       \/ LoginRefused
    /\ UNCHANGED <<account, paged, looping, cancelled, cur>>

\* Bug: a login that succeeds does not end the row of failed ones.
ReloginKeepsCount ==
    /\ pc = "relogin"
    /\ Request("session")
    /\ \/ LoginGoesOn
       \/ LoggedIn /\ UNCHANGED failedLogins /\ again' = TRUE
       \/ LoginRefused
    /\ UNCHANGED <<account, paged, looping, cancelled, cur>>

\* Bug: after a failed login the session is renewed again at once.
ReloginUntilIn ==
    /\ pc = "relogin"
    /\ Request("session")
    /\ \/ LoginGoesOn
       \/ LoggedIn /\ failedLogins' = 0 /\ again' = TRUE
       \/ /\ pc' = "logout"
          /\ sent' = 0
          /\ UNCHANGED <<session, again, pollRoles, failedLogins, left, done, failed, exit, faults>>
    /\ UNCHANGED <<account, paged, looping, cancelled, cur>>

\* On failure the old client, logged out by now, is kept for the next pass.
Relogin ==
    /\ pc = "relogin"
    /\ Request("session")
    /\ \/ LoginGoesOn
       \/ LoggedIn /\ failedLogins' = 0 /\ again' = TRUE
       \/ LoginRefused
    /\ UNCHANGED <<account, paged, looping, cancelled, cur>>

\* The interval has passed, or ctx is done first; a tie is a signal right after
\* the interval.
Wait ==
    /\ pc = "wait"
    /\ \/ /\ cancelled
          /\ Stop(0)
          /\ UNCHANGED <<again, pollRoles, left, done, failed>>
       \/ /\ ~cancelled
          /\ again' = FALSE
          /\ UNCHANGED <<pollRoles, exit>>
          /\ BeginPass
    /\ UNCHANGED <<outside, looping, cancelled, failedLogins, sent, cur, late, faults>>

\* The deferred logout: nobody hears of the end of the program otherwise.
Leave ==
    /\ pc = "leaving"
    /\ SendLogout
    /\ pc' = "stopped"
    /\ UNCHANGED <<account, paged, looping, cancelled, loop, pass, exit, faults>>

-----------------------------------------------------------------------------
LoopStep ==
    \/ Login \/ NextRole \/ List \/ Fetch \/ FetchBody
    \/ Logout \/ Relogin \/ Wait \/ Leave

Next ==
    \/ LoopStep
    \/ Expire
    \/ \E c \in Child : AddChild(c)
    \/ Signal

Spec == Init /\ [][Next]_vars

\* Requests time out after 30 s and intervals end: the process goes on.
FairSpec == Spec /\ WF_vars(LoopStep)

-----------------------------------------------------------------------------
TypeOK ==
    /\ account \in SUBSET Child
    /\ session \in {"none", "live"} \cup Ended
    /\ paged \in BOOLEAN
    /\ looping \in BOOLEAN
    /\ cancelled \in BOOLEAN
    /\ pc \in Step
    /\ again \in BOOLEAN
    /\ pollRoles \in SUBSET Prefix
    /\ left \in SUBSET Prefix
    /\ cur \in Prefix
    /\ done \in SUBSET Prefix
    /\ failed \in BOOLEAN
    /\ failedLogins \in 0 .. GiveUp
    /\ sent \in 0 .. LoginRequests - 1
    /\ exit \in {-1, 0, 1}
    /\ late \in [RequestKind -> 0 .. LateBound]
    /\ faults \in 0 .. MaxFaults

\* Where the loop stands in terms of Supervisor.
Phase ==
    CASE pc = "login"   -> "starting"
      [] pc = "wait"    -> "wait"
      [] pc \in {"leaving", "stopped"} -> "done"
      [] pc \in PassStep \cup {"logout", "relogin"} -> "work"

Passes == IF Phase # "work" THEN 0 ELSE IF again THEN 2 ELSE 1

\* The loop keeps the promise of Supervisor: at most one login and two passes
\* between two waits, the second pass only on a new session; it gives up after
\* GiveUp failed logins in a row and for no other reason.
Supervised == INSTANCE Supervisor WITH
    phase <- Phase, passes <- Passes, refused <- failedLogins, code <- exit, endless <- looping
ImplementsSupervisor == Supervised!SupervisorSpec

\* After a signal a pass sends one more request at most, and then only the final
\* logout follows, no login; a logout and a login under way are gone through
\* with before it.  That makes five requests of up to 30 s each where the signal
\* comes as the old session is about to be logged out.
LateRequests ==
    \/ late["pass"] = 1 /\ late["session"] <= 1
    \/ late["pass"] = 0 /\ late["session"] <= 1 + LoginRequests + 1

\* A pass runs on a session that the loop itself has logged out only when the
\* logins since then were refused, and never right after a login.
LoggedOutOnlyIfRefused ==
    session = "out" /\ pc \in PassStep => failedLogins > 0 /\ ~again

\* Exit code 0 of a single poll means that every role it set out for was polled
\* to its end, so cron and shell chains may rely on it.
ZeroMeansAll == exit = 0 /\ ~looping => done = pollRoles

\* A session that Wilma reports as expired is replaced, or the loop gives up:
\* however often logins fail, unless Wilma answers the dead session with a page.
Recovers ==
    pc = "logout" ~> (session = "live" \/ pc = "stopped" \/ paged)

\* A signal ends the loop.
StopsWhenAsked == cancelled ~> pc = "stopped"
=============================================================================
