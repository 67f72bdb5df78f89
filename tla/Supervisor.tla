----------------------------- MODULE Supervisor -----------------------------
(***************************************************************************)
(* What `poll --interval` promises to the service it polls and to whoever  *)
(* runs it: work alternates with waits; a working period is one pass, or   *)
(* two when a new session had to be opened between them; no period opens   *)
(* more than one session; and only GiveUp refused sessions in a row, or a  *)
(* signal, end it.                                                         *)
(***************************************************************************)
EXTENDS Integers

CONSTANT GiveUp     \* refused sessions in a row that end the process

VARIABLES
    phase,          \* "starting", "work", "wait" or "done"
    passes,         \* passes begun in this working period
    refused,        \* sessions refused since the last one that was granted
    code,           \* exit code, -1 while running
    endless         \* --interval: periods go on until something ends them

supervisorVars == <<phase, passes, refused, code, endless>>

SupervisorInit ==
    /\ phase = "starting" /\ passes = 0 /\ refused = 0 /\ code = -1
    /\ endless \in BOOLEAN

Enter ==
    /\ phase = "starting"
    /\ phase' = "work" /\ passes' = 1
    /\ UNCHANGED <<refused, code, endless>>

\* The first session is refused.
NeverStarted ==
    /\ phase = "starting"
    /\ phase' = "done" /\ code' = 1
    /\ UNCHANGED <<passes, refused, endless>>

\* The second pass of a period runs on a new session, and there is no third.
Renewed ==
    /\ endless /\ phase = "work" /\ passes = 1
    /\ passes' = 2 /\ refused' = 0
    /\ UNCHANGED <<phase, code, endless>>

Refused ==
    /\ endless /\ phase = "work" /\ passes = 1
    /\ refused' = refused + 1
    /\ \/ refused' < GiveUp /\ phase' = "wait" /\ UNCHANGED code
       \/ refused' = GiveUp /\ phase' = "done" /\ code' = 1
    /\ passes' = 0
    /\ UNCHANGED endless

Rest ==
    /\ endless /\ phase = "work"
    /\ phase' = "wait" /\ passes' = 0
    /\ UNCHANGED <<refused, code, endless>>

Tick ==
    /\ phase = "wait"
    /\ phase' = "work" /\ passes' = 1
    /\ UNCHANGED <<refused, code, endless>>

\* A signal is not a failure.
Interrupted ==
    /\ endless /\ phase \in {"work", "wait"}
    /\ phase' = "done" /\ passes' = 0 /\ code' = 0
    /\ UNCHANGED <<refused, endless>>

\* Without --interval the only pass ends the process with its verdict.
Once ==
    /\ ~endless /\ phase = "work"
    /\ phase' = "done" /\ passes' = 0 /\ code' \in {0, 1}
    /\ UNCHANGED <<refused, endless>>

SupervisorNext ==
    \/ Enter \/ NeverStarted \/ Renewed \/ Refused \/ Rest \/ Tick \/ Interrupted \/ Once

SupervisorSpec == SupervisorInit /\ [][SupervisorNext]_supervisorVars
=============================================================================
