------------------------------ MODULE Migrate ------------------------------
(***************************************************************************)
(* Opening a database that predates extraction runs (Open, ensureColumn    *)
(* and migrate of internal/store/store.go): columns are added one          *)
(* statement at a time, and the rows that were there are attached to a     *)
(* synthetic run in one transaction -- by any number of processes of this  *)
(* binary, interrupted anywhere, beside a process of the old one.          *)
(***************************************************************************)
EXTENDS Integers, Sequences

CONSTANTS
    Opener,     \* processes that open the database with this binary
    Msg,        \* messages
    Event,      \* rows the events table may ever hold
    About,      \* About[e]: the message event e is about
    MaxRuns,    \* bound: extraction runs, the synthetic ones included
    MaxFaults   \* bound: kills and failed statements

ASSUME MigrateAssumption ==
    /\ About \in [Event -> Msg]
    /\ MaxRuns \in Nat
    /\ MaxFaults \in Nat

Columns == <<"events.run_id", "events.audience", "extractions.run_id">>
Column == {"events.run_id", "events.audience", "extractions.run_id"}
NoRun == 0                  \* run_id IS NULL
Run == 1 .. MaxRuns

VARIABLES
    \* the database
    cols,       \* the columns of run tracking that exist
    saved,      \* events
    runOf,      \* events.run_id
    audience,   \* events.audience: the rows where it is not NULL
    covered,    \* run_messages: pairs of a run and a message
    lastRun,    \* the highest id of extraction_runs
    synthetic,  \* auxiliary: runs that a backfill created
    \* each process
    pc, at,     \* next step of Open, column being ensured
    added,      \* this Open has added a column and not backfilled yet
    run,        \* the run an extraction has started
    \* auxiliary
    cut,        \* an Open was interrupted after the last column was added
    stray,      \* rows the old binary wrote to a database migrated already
    hasty,      \* runs started while another process's backfill was due
    faults

db   == <<cols, saved, runOf, audience, covered, lastRun, synthetic>>
proc == <<pc, at, added, run>>
aux  == <<cut, stray, hasty, faults>>
vars == <<db, proc, aux>>

Step == {"off", "check", "alter", "index", "backfill", "open"}

\* A database of the old binary, or one that schemaSQL has just created.
Init ==
    /\ \/ cols = {} /\ saved \in SUBSET Event
       \/ cols = Column /\ saved = {}
    /\ runOf = [e \in Event |-> NoRun]
    /\ audience = {} /\ covered = {} /\ synthetic = {}
    /\ lastRun = 0
    /\ pc = [p \in Opener |-> "off"]
    /\ at = [p \in Opener |-> 1]
    /\ added = [p \in Opener |-> FALSE]
    /\ run = [p \in Opener |-> NoRun]
    /\ cut = FALSE /\ stray = {} /\ hasty = {}
    /\ faults = 0

-----------------------------------------------------------------------------
(* The old binary (external): its INSERT names none of the new columns.     *)

BackfillDue == \E p \in Opener : added[p]

OldSave(e) ==
    /\ e \notin saved
    /\ saved' = saved \cup {e}
    /\ stray' = IF cols = Column /\ ~BackfillDue THEN stray \cup {e} ELSE stray
    /\ UNCHANGED <<cols, runOf, audience, covered, lastRun, synthetic, proc, cut, hasty, faults>>

-----------------------------------------------------------------------------
(* Open.                                                                    *)

OpenDB(p) ==
    /\ pc[p] = "off"
    /\ pc' = [pc EXCEPT ![p] = "check"]
    /\ at' = [at EXCEPT ![p] = 1]
    /\ UNCHANGED <<db, added, run, aux>>

\* Bug: one step too many.
NextColumnPastEnd(p) ==
    \/ /\ at[p] <= Len(Columns)
       /\ at' = [at EXCEPT ![p] = @ + 1]
       /\ pc' = [pc EXCEPT ![p] = "check"]
    \/ /\ at[p] > Len(Columns)
       /\ pc' = [pc EXCEPT ![p] = "index"]
       /\ UNCHANGED at

NextColumn(p) ==
    \/ /\ at[p] < Len(Columns)
       /\ at' = [at EXCEPT ![p] = @ + 1]
       /\ pc' = [pc EXCEPT ![p] = "check"]
    \/ /\ at[p] = Len(Columns)
       /\ pc' = [pc EXCEPT ![p] = "index"]
       /\ UNCHANGED at

\* ensureColumn looks before it alters: ALTER TABLE is not idempotent.
Check(p) ==
    /\ pc[p] = "check"
    /\ \/ Columns[at[p]] \in cols /\ NextColumn(p)
       \/ /\ Columns[at[p]] \notin cols
          /\ pc' = [pc EXCEPT ![p] = "alter"]
          /\ UNCHANGED at
    /\ UNCHANGED <<db, added, run, aux>>

\* Open returns an error, or the process is killed: what is committed stays.
Abandon(p) ==
    /\ pc' = [pc EXCEPT ![p] = "off"]
    /\ added' = [added EXCEPT ![p] = FALSE]
    /\ run' = [run EXCEPT ![p] = NoRun]
    /\ cut' = (cut \/ (added[p] /\ cols = Column /\ \A q \in Opener \ {p} : ~added[q]))
    /\ UNCHANGED at

\* Bug: only the last column added counts.
AlterForgets(p) ==
    /\ pc[p] = "alter"
    /\ \/ /\ Columns[at[p]] \notin cols
          /\ cols' = cols \cup {Columns[at[p]]}
          /\ added' = [added EXCEPT ![p] = at[p] = 1]
          /\ NextColumn(p)
          /\ UNCHANGED <<run, cut>>
       \/ /\ Columns[at[p]] \in cols
          /\ Abandon(p)
          /\ UNCHANGED cols
    /\ UNCHANGED <<saved, runOf, audience, covered, lastRun, synthetic, stray, hasty, faults>>

\* The ALTER of a process that lost the race fails: "duplicate column name".
Alter(p) ==
    /\ pc[p] = "alter"
    /\ \/ /\ Columns[at[p]] \notin cols
          /\ cols' = cols \cup {Columns[at[p]]}
          /\ added' = [added EXCEPT ![p] = TRUE]
          /\ NextColumn(p)
          /\ UNCHANGED <<run, cut>>
       \/ /\ Columns[at[p]] \in cols
          /\ Abandon(p)
          /\ UNCHANGED cols
    /\ UNCHANGED <<saved, runOf, audience, covered, lastRun, synthetic, stray, hasty, faults>>

\* Bug: the backfill runs on every Open.
CreateIndexAlways(p) ==
    /\ pc[p] = "index"
    /\ pc' = [pc EXCEPT ![p] = "backfill"]
    /\ UNCHANGED <<db, at, added, run, aux>>

\* Bug: migrate returns as soon as the columns and the index exist.
CreateIndexReturns(p) ==
    /\ pc[p] = "index"
    /\ pc' = [pc EXCEPT ![p] = "open"]
    /\ UNCHANGED <<db, at, added, run, aux>>

CreateIndex(p) ==
    /\ pc[p] = "index"
    /\ pc' = [pc EXCEPT ![p] = IF added[p] THEN "backfill" ELSE "open"]
    /\ UNCHANGED <<db, at, added, run, aux>>

Orphan(e) == e \in saved /\ runOf[e] = NoRun

\* Bug: every row is attached, not only those without a run.
BackfillAll(p) ==
    LET r == lastRun + 1 IN
    /\ pc[p] = "backfill"
    /\ lastRun < MaxRuns
    /\ lastRun' = r
    /\ synthetic' = synthetic \cup {r}
    /\ runOf' = [e \in Event |-> IF e \in saved THEN r ELSE runOf[e]]
    /\ covered' = covered \cup {<<r, About[e]>> : e \in saved}
    /\ audience' = saved
    /\ pc' = [pc EXCEPT ![p] = "open"]
    /\ added' = [added EXCEPT ![p] = FALSE]
    /\ UNCHANGED <<cols, saved, at, run, aux>>

\* Bug: run_messages is filled before the rows are attached, so from no row.
BackfillOutOfOrder(p) ==
    LET r == lastRun + 1 IN
    /\ pc[p] = "backfill"
    /\ lastRun < MaxRuns
    /\ lastRun' = r
    /\ synthetic' = synthetic \cup {r}
    /\ runOf' = [e \in Event |-> IF Orphan(e) THEN r ELSE runOf[e]]
    /\ covered' = covered \cup {<<r, About[e]>> : e \in {d \in saved : runOf[d] = r}}
    /\ audience' = saved
    /\ pc' = [pc EXCEPT ![p] = "open"]
    /\ added' = [added EXCEPT ![p] = FALSE]
    /\ UNCHANGED <<cols, saved, at, run, aux>>

\* One transaction: the synthetic run, the rows without a run, what it covers,
\* and the audience of the rows without one.
Backfill(p) ==
    LET r == lastRun + 1 IN
    /\ pc[p] = "backfill"
    /\ lastRun < MaxRuns
    /\ lastRun' = r
    /\ synthetic' = synthetic \cup {r}
    /\ runOf' = [e \in Event |-> IF Orphan(e) THEN r ELSE runOf[e]]
    /\ covered' = covered \cup {<<r, About[e]>> : e \in {d \in Event : Orphan(d)}}
    /\ audience' = saved
    /\ pc' = [pc EXCEPT ![p] = "open"]
    /\ added' = [added EXCEPT ![p] = FALSE]
    /\ UNCHANGED <<cols, saved, at, run, aux>>

-----------------------------------------------------------------------------
(* What an open database is used for: an extraction run (module Extraction).*)

StartRun(p) ==
    /\ pc[p] = "open" /\ run[p] = NoRun
    /\ lastRun < MaxRuns
    /\ lastRun' = lastRun + 1
    /\ run' = [run EXCEPT ![p] = lastRun']
    /\ hasty' = IF BackfillDue THEN hasty \cup {lastRun'} ELSE hasty
    /\ UNCHANGED <<cols, saved, runOf, audience, covered, synthetic,
                   pc, at, added, cut, stray, faults>>

SaveEvents(p, m, found) ==
    /\ pc[p] = "open" /\ run[p] # NoRun
    /\ found \cap saved = {}
    /\ \A e \in found : About[e] = m
    /\ saved' = saved \cup found
    /\ audience' = audience \cup found
    /\ runOf' = [e \in Event |-> IF e \in found THEN run[p] ELSE runOf[e]]
    /\ covered' = covered \cup {<<run[p], m>>}
    /\ run' = [run EXCEPT ![p] = NoRun]
    /\ UNCHANGED <<cols, lastRun, synthetic, pc, at, added, aux>>

Close(p) ==
    /\ pc[p] = "open" /\ run[p] = NoRun
    /\ pc' = [pc EXCEPT ![p] = "off"]
    /\ UNCHANGED <<db, at, added, run, aux>>

Interrupt(p) ==
    /\ pc[p] # "off"
    /\ faults < MaxFaults /\ faults' = faults + 1
    /\ Abandon(p)
    /\ UNCHANGED <<db, stray, hasty>>

-----------------------------------------------------------------------------
OpenStep(p) ==
    OpenDB(p) \/ Check(p) \/ Alter(p) \/ CreateIndex(p) \/ Backfill(p)

Next ==
    \/ \E e \in Event : OldSave(e)
    \/ \E p \in Opener :
          \/ OpenStep(p) \/ Close(p) \/ Interrupt(p) \/ StartRun(p)
          \/ \E m \in Msg, found \in SUBSET Event : SaveEvents(p, m, found)

Spec == Init /\ [][Next]_vars

\* A process that has begun to open the database goes on with it.
FairSpec == Spec /\ \A p \in Opener : WF_vars(pc[p] # "off" /\ OpenStep(p))

-----------------------------------------------------------------------------
TypeOK ==
    /\ cols \in SUBSET Column
    /\ saved \in SUBSET Event
    /\ runOf \in [Event -> Run \cup {NoRun}]
    /\ audience \in SUBSET Event
    /\ covered \in SUBSET (Run \X Msg)
    /\ lastRun \in 0 .. MaxRuns
    /\ synthetic \in SUBSET Run
    /\ pc \in [Opener -> Step]
    /\ at \in [Opener -> 1 .. 3]
    /\ added \in [Opener -> BOOLEAN]
    /\ run \in [Opener -> Run \cup {NoRun}]
    /\ cut \in BOOLEAN
    /\ stray \in SUBSET Event
    /\ hasty \in SUBSET Run
    /\ faults \in 0 .. MaxFaults

\* No crash leaves an event attached to a run that run_messages does not know
\* covered its message, or without an audience.
AttachedWhole ==
    \A e \in saved : runOf[e] # NoRun => <<runOf[e], About[e]>> \in covered /\ e \in audience

\* A row that belongs to a run is never moved to another one, by no backfill of
\* any process, so what an extraction has saved stays what it was.
AttachedOnce ==
    [][\A e \in Event : runOf[e] # NoRun => runOf'[e] = runOf[e]]_vars

\* While the database is in use, rows no reader shows are due to one of three
\* things: a backfill that is still to come, an Open that was interrupted
\* between the last ALTER and the backfill, or the old binary writing on.
OrphansExplained ==
    (\E p \in Opener : pc[p] = "open") =>
        \A e \in saved : Orphan(e) => cut \/ BackfillDue \/ e \in stray

\* The synthetic run is older than every run that extracted again what it
\* covers, so that "latest run wins" shows the new answer; except for a run
\* that a second process started while the backfill was due.
BackfillIsOldest ==
    \A b \in synthetic, r \in Run \ (synthetic \cup hasty) :
        \A m \in Msg : <<b, m>> \in covered /\ <<r, m>> \in covered => b < r

\* Once an Open has added a column the rows of the old binary are attached, by
\* that process or by one that won the race for a column, unless an Open is
\* interrupted: after the last ALTER (cut), or before it, which the next Open
\* makes good.  Bounded by the run ids of the instance.
Halfway == cols # Column /\ ~BackfillDue
Attaches ==
    \A e \in Event :
        (e \in saved /\ BackfillDue) ~> (~Orphan(e) \/ cut \/ Halfway \/ lastRun = MaxRuns)
=============================================================================
