---------------------------- MODULE MigrateProofs ----------------------------
(***************************************************************************)
(* Theorems about Migrate, for any number of processes, rows, runs and      *)
(* interruptions.                                                          *)
(***************************************************************************)
EXTENDS Migrate, TLAPS

LEMMA ColumnFacts ==
    /\ Len(Columns) = 3
    /\ \A k \in 1 .. 3 : Columns[k] \in Column
    /\ \A c \in Column : \E k \in 1 .. 3 : Columns[k] = c
<1>1. /\ Columns[1] = "events.run_id"
      /\ Columns[2] = "events.audience"
      /\ Columns[3] = "extractions.run_id"
      /\ Len(Columns) = 3
  BY DEF Columns
<1>2. 1 \in 1 .. 3 /\ 2 \in 1 .. 3 /\ 3 \in 1 .. 3 /\ \A k \in 1 .. 3 : k = 1 \/ k = 2 \/ k = 3
  OBVIOUS
<1> QED
  BY <1>1, <1>2 DEF Column

-----------------------------------------------------------------------------
(* Types.                                                                   *)

LEMMA NextColumnType ==
    ASSUME TypeOK, NEW p \in Opener, NextColumn(p)
    PROVE  at' \in [Opener -> 1 .. 3] /\ pc' \in [Opener -> Step]
<1>1. at[p] < 3 => at[p] + 1 \in 1 .. 3
  BY DEF TypeOK
<1> QED
  BY <1>1, ColumnFacts DEF NextColumn, TypeOK, Step

LEMMA AbandonType ==
    ASSUME TypeOK, NEW p \in Opener, Abandon(p)
    PROVE  /\ pc' \in [Opener -> Step] /\ at' \in [Opener -> 1 .. 3]
           /\ added' \in [Opener -> BOOLEAN] /\ run' \in [Opener -> Run \cup {NoRun}]
           /\ cut' \in BOOLEAN
<1>1. cut' \in BOOLEAN
  BY DEF Abandon, TypeOK
<1> QED
  BY <1>1 DEF Abandon, TypeOK, Step

\* The id of the next run.
LEMMA NextRun ==
    ASSUME TypeOK, lastRun < MaxRuns
    PROVE  lastRun + 1 \in Run /\ lastRun + 1 \in 0 .. MaxRuns
BY MigrateAssumption DEF TypeOK, Run

LEMMA TypeStep == TypeOK /\ [Next]_vars => TypeOK'
<1> SUFFICES ASSUME TypeOK, [Next]_vars
             PROVE  TypeOK'
  OBVIOUS
<1> USE DEF db, proc, aux
<1>1. ASSUME NEW e \in Event, OldSave(e)
      PROVE  TypeOK'
  <2>1. stray' \in SUBSET Event
    BY <1>1 DEF OldSave, TypeOK
  <2> QED
    BY <1>1, <2>1 DEF OldSave, TypeOK
<1>2. ASSUME NEW p \in Opener, OpenDB(p)
      PROVE  TypeOK'
  BY <1>2 DEF OpenDB, TypeOK, Step
<1>3. ASSUME NEW p \in Opener, Check(p)
      PROVE  TypeOK'
  <2>1. at' \in [Opener -> 1 .. 3] /\ pc' \in [Opener -> Step]
    BY <1>3, NextColumnType DEF Check, TypeOK, Step
  <2> QED
    BY <1>3, <2>1 DEF Check, TypeOK
<1>4. ASSUME NEW p \in Opener, Alter(p)
      PROVE  TypeOK'
  <2>1. CASE /\ cols' = cols \cup {Columns[at[p]]}
             /\ added' = [added EXCEPT ![p] = TRUE]
             /\ NextColumn(p)
             /\ UNCHANGED <<run, cut>>
    <3>1. Columns[at[p]] \in Column
      BY ColumnFacts DEF TypeOK
    <3> QED
      BY <1>4, <2>1, <3>1, NextColumnType DEF Alter, TypeOK
  <2>2. CASE Abandon(p) /\ UNCHANGED cols
    BY <1>4, <2>2, AbandonType DEF Alter, TypeOK
  <2> QED
    BY <1>4, <2>1, <2>2 DEF Alter
<1>5. ASSUME NEW p \in Opener, CreateIndex(p)
      PROVE  TypeOK'
  BY <1>5 DEF CreateIndex, TypeOK, Step
<1>6. ASSUME NEW p \in Opener, Backfill(p)
      PROVE  TypeOK'
  <2>1. lastRun + 1 \in Run /\ lastRun' \in 0 .. MaxRuns
    BY <1>6, NextRun DEF Backfill
  <2>2. covered' \in SUBSET (Run \X Msg)
    BY <1>6, <2>1, MigrateAssumption DEF Backfill, TypeOK
  <2>3. runOf' \in [Event -> Run \cup {NoRun}] /\ synthetic' \in SUBSET Run
    BY <1>6, <2>1 DEF Backfill, TypeOK
  <2> QED
    BY <1>6, <2>1, <2>2, <2>3 DEF Backfill, TypeOK, Step
<1>7. ASSUME NEW p \in Opener, StartRun(p)
      PROVE  TypeOK'
  <2>1. lastRun' \in Run /\ lastRun' \in 0 .. MaxRuns
    BY <1>7, NextRun DEF StartRun
  <2> QED
    BY <1>7, <2>1 DEF StartRun, TypeOK
<1>8. ASSUME NEW p \in Opener, NEW m \in Msg, NEW found \in SUBSET Event, SaveEvents(p, m, found)
      PROVE  TypeOK'
  <2>1. run[p] \in Run
    BY <1>8 DEF SaveEvents, TypeOK
  <2> QED
    BY <1>8, <2>1 DEF SaveEvents, TypeOK
<1>9. ASSUME NEW p \in Opener, Close(p)
      PROVE  TypeOK'
  BY <1>9 DEF Close, TypeOK, Step
<1>10. ASSUME NEW p \in Opener, Interrupt(p)
       PROVE  TypeOK'
  <2>1. faults' \in 0 .. MaxFaults
    BY <1>10, MigrateAssumption DEF Interrupt, TypeOK
  <2> QED
    BY <1>10, <2>1, AbandonType DEF Interrupt, TypeOK
<1>11. CASE UNCHANGED vars
  BY <1>11 DEF vars, TypeOK
<1> QED
  BY <1>1, <1>2, <1>3, <1>4, <1>5, <1>6, <1>7, <1>8, <1>9, <1>10, <1>11 DEF Next, OpenStep

LEMMA TypeInit == Init => TypeOK
<1> SUFFICES ASSUME Init
             PROVE  TypeOK
  OBVIOUS
<1>1. 0 \in 0 .. MaxRuns /\ 0 \in 0 .. MaxFaults /\ 1 \in 1 .. 3
  BY MigrateAssumption
<1>2. cols \in SUBSET Column /\ saved \in SUBSET Event
  BY DEF Init
<1>3. runOf \in [Event -> Run \cup {NoRun}] /\ run \in [Opener -> Run \cup {NoRun}]
  BY DEF Init
<1>4. covered \in SUBSET (Run \X Msg)
  BY DEF Init
<1> QED
  BY <1>1, <1>2, <1>3, <1>4 DEF Init, TypeOK, Step

\* Every reachable state of a migration is type correct.
THEOREM TypeCorrect == Spec => []TypeOK
BY TypeInit, TypeStep, PTL DEF Spec

-----------------------------------------------------------------------------
(* Rows and their runs.                                                     *)

RowInv ==
    /\ \A e \in Event \ saved : runOf[e] = NoRun
    /\ AttachedWhole

\* A step leaves rows and runs alone, or attaches rows without a run.
LEMMA RowStep ==
    TypeOK /\ RowInv /\ [Next]_vars =>
        RowInv' /\ \A e \in Event : runOf[e] # NoRun => runOf'[e] = runOf[e]
<1> SUFFICES ASSUME TypeOK, RowInv, [Next]_vars
             PROVE  RowInv' /\ \A e \in Event : runOf[e] # NoRun => runOf'[e] = runOf[e]
  OBVIOUS
<1> USE DEF db, RowInv, AttachedWhole, TypeOK
<1>1. ASSUME NEW e \in Event, OldSave(e)
      PROVE  RowInv' /\ UNCHANGED runOf
  BY <1>1 DEF OldSave
<1>2. ASSUME NEW p \in Opener, Backfill(p)
      PROVE  RowInv' /\ \A e \in Event : runOf[e] # NoRun => runOf'[e] = runOf[e]
  BY <1>2 DEF Backfill, Orphan
<1>3. ASSUME NEW p \in Opener, NEW m \in Msg, NEW found \in SUBSET Event, SaveEvents(p, m, found)
      PROVE  RowInv' /\ \A e \in Event : runOf[e] # NoRun => runOf'[e] = runOf[e]
  BY <1>3 DEF SaveEvents
<1>4. CASE UNCHANGED <<saved, runOf, audience, covered>>
  BY <1>4
<1>5. ASSUME NEW p \in Opener,
             \/ OpenDB(p) \/ Check(p) \/ Alter(p) \/ CreateIndex(p)
             \/ Close(p) \/ Interrupt(p) \/ StartRun(p)
      PROVE  UNCHANGED <<saved, runOf, audience, covered>>
  BY <1>5 DEF OpenDB, Check, Alter, CreateIndex, Close, Interrupt, StartRun
<1>6. CASE UNCHANGED vars
  BY <1>6 DEF vars
<1> QED
  BY <1>1, <1>2, <1>3, <1>4, <1>5, <1>6 DEF Next, OpenStep

LEMMA RowHolds == Spec => []RowInv
<1>1. Init => RowInv
  BY DEF Init, RowInv, AttachedWhole
<1>2. TypeOK /\ RowInv /\ [Next]_vars => RowInv'
  BY RowStep
<1> QED
  BY <1>1, <1>2, TypeCorrect, PTL DEF Spec

\* However many processes migrate and however they are interrupted, an event is
\* attached to a run that covers its message, with an audience, or to none.
THEOREM WholeRows == Spec => []AttachedWhole
<1>1. RowInv => AttachedWhole
  BY DEF RowInv
<1> QED
  BY <1>1, RowHolds, PTL

\* No backfill of any process moves a row that belongs to a run.
THEOREM RowsStay == Spec => AttachedOnce
<1>1. TypeOK /\ RowInv /\ [Next]_vars => [\A e \in Event : runOf[e] # NoRun => runOf'[e] = runOf[e]]_vars
  BY RowStep
<1> QED
  BY <1>1, TypeCorrect, RowHolds, PTL DEF Spec, AttachedOnce

-----------------------------------------------------------------------------
(* Columns, backfills that are due, and what they leave out.                *)

\* A process has ensured the columns before the one it is at, and has one of its
\* own to backfill before it does.
ColumnInv ==
    \A p \in Opener :
        /\ pc[p] \in {"check", "alter"} => \A k \in 1 .. at[p] - 1 : Columns[k] \in cols
        /\ pc[p] \in {"index", "backfill", "open"} => cols = Column
        /\ pc[p] = "backfill" => added[p]

\* Once all columns exist, every row is attached, about to be, or lost.
LostInv ==
    cols = Column => \A e \in saved : Orphan(e) => cut \/ BackfillDue \/ e \in stray

\* A run that no backfill was due for is younger than every backfill.
OldestInv ==
    /\ \A c \in covered : c[1] <= lastRun
    /\ \A b \in synthetic : b <= lastRun
    /\ \A p \in Opener : run[p] # NoRun => run[p] <= lastRun /\ run[p] \notin synthetic
    /\ \A r \in Run \ (synthetic \cup hasty) : r <= lastRun =>
          /\ \A b \in synthetic : b < r
          /\ cols = Column /\ ~BackfillDue

\* NextColumn goes on from a column that exists.
LEMMA NextColumnEnsures ==
    ASSUME TypeOK, NEW p \in Opener, NextColumn(p), cols \in SUBSET cols',
           \A k \in 1 .. at[p] - 1 : Columns[k] \in cols,
           Columns[at[p]] \in cols', cols' \in SUBSET Column
    PROVE  /\ pc'[p] \in {"check", "index"}
           /\ pc'[p] = "check" => \A k \in 1 .. at'[p] - 1 : Columns[k] \in cols'
           /\ pc'[p] = "index" => cols' = Column
           /\ \A q \in Opener \ {p} : pc'[q] = pc[q] /\ at'[q] = at[q]
<1>1. \A k \in 1 .. at[p] : Columns[k] \in cols'
  <2> SUFFICES ASSUME NEW k \in 1 .. at[p]
               PROVE  Columns[k] \in cols'
    OBVIOUS
  <2>1. k = at[p] \/ k \in 1 .. at[p] - 1
    BY DEF TypeOK
  <2> QED
    BY <2>1
<1>2. CASE /\ at[p] < Len(Columns)
           /\ at' = [at EXCEPT ![p] = @ + 1]
           /\ pc' = [pc EXCEPT ![p] = "check"]
  <2>1. pc'[p] = "check" /\ at'[p] = at[p] + 1 /\ at[p] \in 1 .. 3
    BY <1>2 DEF TypeOK
  <2>2. at'[p] - 1 = at[p]
    BY <2>1
  <2> QED
    BY <1>1, <1>2, <2>1, <2>2 DEF TypeOK
<1>3. CASE /\ at[p] = Len(Columns)
           /\ pc' = [pc EXCEPT ![p] = "index"]
           /\ UNCHANGED at
  <2>1. \A k \in 1 .. 3 : Columns[k] \in cols'
    BY <1>1, <1>3, ColumnFacts
  <2>2. cols' = Column
    BY <2>1, ColumnFacts
  <2> QED
    BY <1>3, <2>2 DEF TypeOK
<1> QED
  BY <1>2, <1>3 DEF NextColumn

LEMMA ColumnStep == TypeOK /\ ColumnInv /\ [Next]_vars => ColumnInv'
<1> SUFFICES ASSUME TypeOK, ColumnInv, [Next]_vars
             PROVE  ColumnInv'
  OBVIOUS
<1>t. TypeOK'
  BY TypeStep
<1> USE DEF ColumnInv, db, proc, aux
<1>1. ASSUME NEW p \in Opener, OpenDB(p)
      PROVE  ColumnInv'
  BY <1>1 DEF OpenDB, TypeOK
<1>2. ASSUME NEW p \in Opener, Check(p)
      PROVE  ColumnInv'
  <2>1. CASE Columns[at[p]] \in cols /\ NextColumn(p)
    <3>1. /\ pc'[p] \in {"check", "index"}
          /\ pc'[p] = "check" => \A k \in 1 .. at'[p] - 1 : Columns[k] \in cols'
          /\ pc'[p] = "index" => cols' = Column
          /\ \A q \in Opener \ {p} : pc'[q] = pc[q] /\ at'[q] = at[q]
      BY <1>2, <2>1, NextColumnEnsures DEF Check, TypeOK
    <3> QED
      BY <1>2, <3>1 DEF Check
  <2>2. CASE pc' = [pc EXCEPT ![p] = "alter"] /\ UNCHANGED at
    BY <1>2, <2>2 DEF Check, TypeOK
  <2> QED
    BY <1>2, <2>1, <2>2 DEF Check
<1>3. ASSUME NEW p \in Opener, Alter(p)
      PROVE  ColumnInv'
  <2>1. CASE /\ Columns[at[p]] \notin cols
             /\ cols' = cols \cup {Columns[at[p]]}
             /\ added' = [added EXCEPT ![p] = TRUE]
             /\ NextColumn(p)
    <3>1. cols' \in SUBSET Column /\ cols # Column
      BY <2>1, <1>t, ColumnFacts DEF TypeOK
    <3>2. /\ pc'[p] \in {"check", "index"}
          /\ pc'[p] = "check" => \A k \in 1 .. at'[p] - 1 : Columns[k] \in cols'
          /\ pc'[p] = "index" => cols' = Column
          /\ \A q \in Opener \ {p} : pc'[q] = pc[q] /\ at'[q] = at[q]
      BY <1>3, <2>1, <3>1, NextColumnEnsures DEF Alter
    <3>3. \A q \in Opener : pc[q] \notin {"index", "backfill", "open"}
      BY <3>1
    <3> QED
      BY <2>1, <3>2, <3>3 DEF TypeOK
  <2>2. CASE Abandon(p) /\ UNCHANGED cols
    BY <2>2 DEF Abandon, TypeOK
  <2> QED
    BY <1>3, <2>1, <2>2 DEF Alter
<1>4. ASSUME NEW p \in Opener, CreateIndex(p)
      PROVE  ColumnInv'
  BY <1>4 DEF CreateIndex, TypeOK
<1>5. ASSUME NEW p \in Opener, Backfill(p)
      PROVE  ColumnInv'
  BY <1>5 DEF Backfill, TypeOK
<1>6. ASSUME NEW p \in Opener, Close(p)
      PROVE  ColumnInv'
  BY <1>6 DEF Close, TypeOK
<1>7. ASSUME NEW p \in Opener, Interrupt(p)
      PROVE  ColumnInv'
  BY <1>7 DEF Interrupt, Abandon, TypeOK
<1>8. CASE UNCHANGED <<cols, pc, at, added>>
  BY <1>8
<1>9. ASSUME NEW e \in Event, OldSave(e)
       PROVE  UNCHANGED <<cols, pc, at, added>>
  BY <1>9 DEF OldSave
<1>10. ASSUME NEW p \in Opener, StartRun(p) \/ \E m \in Msg, found \in SUBSET Event : SaveEvents(p, m, found)
       PROVE  UNCHANGED <<cols, pc, at, added>>
  BY <1>10 DEF StartRun, SaveEvents
<1>11. CASE UNCHANGED vars
  BY <1>11 DEF vars
<1> QED
  BY <1>1, <1>2, <1>3, <1>4, <1>5, <1>6, <1>7, <1>8, <1>9, <1>10, <1>11 DEF Next, OpenStep

LEMMA ColumnHolds == Spec => []ColumnInv
<1>1. Init => ColumnInv
  BY DEF Init, ColumnInv
<1>2. TypeOK /\ ColumnInv /\ [Next]_vars => ColumnInv'
  BY ColumnStep
<1> QED
  BY <1>1, <1>2, TypeCorrect, PTL DEF Spec

-----------------------------------------------------------------------------
(* Rows no reader shows.                                                    *)

\* What every step has to say of rows, once the columns exist.
LEMMA LostStep == TypeOK /\ ColumnInv /\ LostInv /\ [Next]_vars => LostInv'
<1> SUFFICES ASSUME TypeOK, ColumnInv, LostInv, [Next]_vars
             PROVE  LostInv'
  OBVIOUS
<1> USE DEF LostInv, Orphan, BackfillDue, db, proc, aux
<1>1. ASSUME NEW e \in Event, OldSave(e)
      PROVE  LostInv'
  BY <1>1 DEF OldSave, TypeOK
<1>2. ASSUME NEW p \in Opener, Abandon(p), UNCHANGED <<cols, saved, runOf, stray>>
      PROVE  LostInv'
  <2>1. \A q \in Opener \ {p} : added'[q] = added[q]
    BY <1>2 DEF Abandon, TypeOK
  <2>2. cols = Column /\ BackfillDue => cut' \/ BackfillDue'
    BY <1>2, <2>1 DEF Abandon
  <2>3. cut => cut'
    BY <1>2 DEF Abandon
  <2> QED
    BY <1>2, <2>2, <2>3
<1>3. ASSUME NEW p \in Opener, Alter(p)
      PROVE  LostInv'
  <2>1. CASE added' = [added EXCEPT ![p] = TRUE]
    BY <1>3, <2>1 DEF TypeOK
  <2>2. CASE Abandon(p) /\ UNCHANGED cols
    BY <1>2, <1>3, <2>2 DEF Alter
  <2> QED
    BY <1>3, <2>1, <2>2 DEF Alter
<1>4. ASSUME NEW p \in Opener, Backfill(p)
      PROVE  LostInv'
  <2>1. lastRun + 1 # NoRun
    BY DEF TypeOK, NoRun
  <2>2. \A e \in saved : runOf'[e] # NoRun
    BY <1>4, <2>1 DEF Backfill, TypeOK
  <2> QED
    BY <1>4, <2>2 DEF Backfill
<1>5. ASSUME NEW p \in Opener, NEW m \in Msg, NEW found \in SUBSET Event, SaveEvents(p, m, found)
      PROVE  LostInv'
  <2>1. \A e \in Event : runOf'[e] = IF e \in found THEN run[p] ELSE runOf[e]
    BY <1>5 DEF SaveEvents
  <2>2. \A e \in saved' : e \in saved \/ e \in found
    BY <1>5 DEF SaveEvents
  <2>3. \A e \in saved' : Orphan(e)' => e \in saved /\ Orphan(e)
    BY <1>5, <2>1, <2>2 DEF SaveEvents, TypeOK
  <2> QED
    BY <1>5, <2>3 DEF SaveEvents
<1>6. ASSUME NEW p \in Opener, Interrupt(p)
      PROVE  LostInv'
  BY <1>2, <1>6 DEF Interrupt
<1>7. CASE UNCHANGED <<cols, saved, runOf, added, cut, stray>>
  BY <1>7
<1>8. ASSUME NEW p \in Opener, OpenDB(p) \/ Check(p) \/ CreateIndex(p) \/ Close(p) \/ StartRun(p)
      PROVE  UNCHANGED <<cols, saved, runOf, added, cut, stray>>
  BY <1>8 DEF OpenDB, Check, CreateIndex, Close, StartRun
<1>9. CASE UNCHANGED vars
  BY <1>9 DEF vars
<1> QED
  BY <1>1, <1>3, <1>4, <1>5, <1>6, <1>7, <1>8, <1>9 DEF Next, OpenStep

\* While the database is in use, a row no reader shows is one a backfill is due
\* for, one an interrupted Open has lost, or one the old binary wrote later.
THEOREM OrphansAccounted == Spec => []OrphansExplained
<1>1. Init => LostInv
  <2>1. ASSUME Init, cols = Column
        PROVE  saved = {}
    BY <2>1 DEF Init, Column
  <2> QED
    BY <2>1 DEF Init, LostInv
<1>2. TypeOK /\ ColumnInv /\ LostInv /\ [Next]_vars => LostInv'
  BY LostStep
<1>3. ColumnInv /\ LostInv => OrphansExplained
  BY DEF ColumnInv, LostInv, OrphansExplained
<1> QED
  BY <1>1, <1>2, <1>3, TypeCorrect, ColumnHolds, PTL DEF Spec

-----------------------------------------------------------------------------
(* The age of synthetic runs.                                               *)

LEMMA OldestStep == TypeOK /\ ColumnInv /\ OldestInv /\ [Next]_vars => OldestInv'
<1> SUFFICES ASSUME TypeOK, ColumnInv, OldestInv, [Next]_vars
             PROVE  OldestInv'
  OBVIOUS
<1>t. lastRun \in Nat /\ Run \in SUBSET Nat
  BY DEF TypeOK, Run
<1> USE DEF OldestInv, BackfillDue, db, proc, aux
<1>1. ASSUME NEW e \in Event, OldSave(e)
      PROVE  OldestInv'
  BY <1>1 DEF OldSave
<1>2. ASSUME NEW p \in Opener, Abandon(p),
             UNCHANGED <<cols, covered, lastRun, synthetic, hasty>>
      PROVE  OldestInv'
  BY <1>2 DEF Abandon, TypeOK
<1>3. ASSUME NEW p \in Opener, Alter(p)
      PROVE  OldestInv'
  <2>1. CASE /\ Columns[at[p]] \notin cols
             /\ UNCHANGED run
    <3>1. cols # Column
      BY <2>1, ColumnFacts DEF TypeOK
    <3> QED
      BY <1>3, <2>1, <3>1 DEF Alter
  <2>2. CASE Abandon(p) /\ UNCHANGED cols
    BY <1>2, <1>3, <2>2 DEF Alter
  <2> QED
    BY <1>3, <2>1, <2>2 DEF Alter
<1>4. ASSUME NEW p \in Opener, Backfill(p)
      PROVE  OldestInv'
  <2>1. added[p]
    BY <1>4 DEF Backfill, ColumnInv
  <2>2. \A r \in Run \ (synthetic \cup hasty) : ~(r <= lastRun)
    BY <2>1
  <2>3. lastRun' = lastRun + 1 /\ synthetic' = synthetic \cup {lastRun + 1}
        /\ UNCHANGED <<run, hasty>>
    BY <1>4 DEF Backfill
  <2>4. \A c \in covered' : c[1] <= lastRun'
    <3> SUFFICES ASSUME NEW c \in covered'
                 PROVE  c[1] <= lastRun'
      OBVIOUS
    <3>1. CASE c \in covered
      <4>1. c[1] \in Nat
        BY <1>t, <3>1 DEF TypeOK
      <4> QED
        BY <1>t, <2>3, <3>1, <4>1
    <3>2. CASE c[1] = lastRun + 1
      BY <1>t, <2>3, <3>2
    <3> QED
      BY <1>4, <3>1, <3>2 DEF Backfill
  <2>5. \A b \in synthetic' : b <= lastRun'
    BY <1>t, <2>3 DEF TypeOK
  <2>6. \A q \in Opener : run'[q] # NoRun => run'[q] <= lastRun' /\ run'[q] \notin synthetic'
    <3> SUFFICES ASSUME NEW q \in Opener, run[q] # NoRun
                 PROVE  run[q] <= lastRun + 1 /\ run[q] \notin synthetic \cup {lastRun + 1}
      BY <2>3
    <3>1. run[q] \in Nat
      BY <1>t DEF TypeOK
    <3> QED
      BY <1>t, <3>1
  <2>7. \A r \in Run \ (synthetic' \cup hasty') : ~(r <= lastRun')
    <3> SUFFICES ASSUME NEW r \in Run \ (synthetic \cup hasty), r # lastRun + 1
                 PROVE  ~(r <= lastRun + 1)
      BY <2>3
    <3> QED
      BY <1>t, <2>2
  <2> QED
    BY <2>4, <2>5, <2>6, <2>7
<1>5. ASSUME NEW p \in Opener, StartRun(p)
      PROVE  OldestInv'
  <2>1. /\ lastRun' = lastRun + 1 /\ run' = [run EXCEPT ![p] = lastRun + 1]
        /\ hasty' = IF BackfillDue THEN hasty \cup {lastRun + 1} ELSE hasty
        /\ UNCHANGED <<cols, covered, synthetic, added>>
    BY <1>5 DEF StartRun
  <2>2. cols = Column
    BY <1>5 DEF StartRun, ColumnInv
  <2>3. \A c \in covered' : c[1] <= lastRun'
    <3>1. \A c \in covered : c[1] \in Nat
      BY <1>t DEF TypeOK
    <3> QED
      BY <1>t, <2>1, <3>1
  <2>4. \A b \in synthetic : b \in Nat /\ b < lastRun + 1
    BY <1>t DEF TypeOK
  <2>5. \A q \in Opener : run'[q] # NoRun => run'[q] <= lastRun' /\ run'[q] \notin synthetic'
    <3> SUFFICES ASSUME NEW q \in Opener, run'[q] # NoRun
                 PROVE  run'[q] <= lastRun' /\ run'[q] \notin synthetic'
      OBVIOUS
    <3>1. CASE q = p
      BY <1>t, <2>1, <2>4, <3>1 DEF TypeOK
    <3>2. CASE q # p
      <4>1. run'[q] = run[q] /\ run[q] \in Nat
        BY <1>t, <2>1, <3>2 DEF TypeOK
      <4> QED
        BY <1>t, <2>1, <4>1
    <3> QED
      BY <3>1, <3>2
  <2>6. ASSUME NEW r \in Run \ (synthetic' \cup hasty'), r <= lastRun'
        PROVE  (\A b \in synthetic' : b < r) /\ cols' = Column /\ ~BackfillDue'
    <3>1. CASE r = lastRun + 1
      <4>1. ~BackfillDue
        BY <2>1, <2>6, <3>1
      <4> QED
        BY <2>1, <2>2, <2>4, <3>1, <4>1
    <3>2. CASE r <= lastRun
      <4>1. r \in Run \ (synthetic \cup hasty)
        BY <2>1, <2>6
      <4> QED
        BY <2>1, <3>2, <4>1
    <3>3. r = lastRun + 1 \/ r <= lastRun
      <4>1. r \in Nat /\ r <= lastRun + 1
        BY <1>t, <2>1, <2>6
      <4> QED
        BY <1>t, <4>1
    <3> QED
      BY <3>1, <3>2, <3>3
  <2> QED
    BY <2>1, <2>3, <2>4, <2>5, <2>6, <1>t
<1>6. ASSUME NEW p \in Opener, NEW m \in Msg, NEW found \in SUBSET Event, SaveEvents(p, m, found)
      PROVE  OldestInv'
  <2>1. \A c \in covered' : c[1] <= lastRun'
    BY <1>6 DEF SaveEvents
  <2> QED
    BY <1>6, <2>1 DEF SaveEvents, TypeOK
<1>7. ASSUME NEW p \in Opener, Interrupt(p)
      PROVE  OldestInv'
  BY <1>2, <1>7 DEF Interrupt
<1>8. CASE UNCHANGED <<cols, covered, lastRun, synthetic, run, added, hasty>>
  BY <1>8
<1>9. ASSUME NEW p \in Opener, OpenDB(p) \/ Check(p) \/ CreateIndex(p) \/ Close(p)
      PROVE  UNCHANGED <<cols, covered, lastRun, synthetic, run, added, hasty>>
  BY <1>9 DEF OpenDB, Check, CreateIndex, Close
<1>10. CASE UNCHANGED vars
  BY <1>10 DEF vars
<1> QED
  BY <1>1, <1>3, <1>4, <1>5, <1>6, <1>7, <1>8, <1>9, <1>10 DEF Next, OpenStep

\* A synthetic run is older than every run that extracted again what it covers,
\* unless that run began while a backfill was due.
THEOREM BackfillFirst == Spec => []BackfillIsOldest
<1>1. Init => OldestInv
  <2>1. ASSUME Init, NEW r \in Run
        PROVE  ~(r <= lastRun)
    BY <2>1 DEF Init, Run
  <2> QED
    BY <2>1 DEF Init, OldestInv
<1>2. TypeOK /\ ColumnInv /\ OldestInv /\ [Next]_vars => OldestInv'
  BY OldestStep
<1>3. OldestInv => BackfillIsOldest
  <2> SUFFICES ASSUME OldestInv, NEW b \in synthetic, NEW r \in Run \ (synthetic \cup hasty),
                      NEW m \in Msg, <<r, m>> \in covered
               PROVE  b < r
    BY DEF BackfillIsOldest
  <2>1. <<r, m>>[1] <= lastRun
    BY DEF OldestInv
  <2> QED
    BY <2>1 DEF OldestInv
<1> QED
  BY <1>1, <1>2, <1>3, TypeCorrect, ColumnHolds, PTL DEF Spec

-----------------------------------------------------------------------------
(* That an Open comes to its end.                                           *)

\* Steps that process p still has to go until its Open returns: two for each
\* column, the index and the backfill.
StepsToOpen(p) ==
    CASE pc[p] = "check"    -> 2 * (4 - at[p]) + 2
      [] pc[p] = "alter"    -> 2 * (4 - at[p]) + 1
      [] pc[p] = "index"    -> 2
      [] pc[p] = "backfill" -> 1
      [] OTHER              -> 0

LEMMA StepsType ==
    ASSUME TypeOK, NEW p \in Opener
    PROVE  StepsToOpen(p) \in Nat
<1>1. at[p] \in 1 .. 3
  BY DEF TypeOK
<1> QED
  BY <1>1 DEF StepsToOpen

\* From its first look at a column on each step of an Open brings it nearer to
\* its end, eight steps at most, and nothing that another process does, migrating
\* the same database, throws it back.  It is a part of Attaches that needs no
\* fairness.
THEOREM OpenEnds ==
    Spec => [][\A p \in Opener : ~OpenDB(p) =>
                   /\ StepsToOpen(p)' <= StepsToOpen(p)
                   /\ OpenStep(p) => StepsToOpen(p)' < StepsToOpen(p)]_vars
<1>1. ASSUME TypeOK, TypeOK', [Next]_vars, NEW p \in Opener, ~OpenDB(p)
      PROVE  /\ StepsToOpen(p)' <= StepsToOpen(p)
             /\ OpenStep(p) => StepsToOpen(p)' < StepsToOpen(p)
  <2>t. /\ at[p] \in 1 .. 3 /\ pc[p] \in Step
        /\ pc \in [Opener -> Step] /\ at \in [Opener -> 1 .. 3]
        /\ StepsToOpen(p) \in Nat /\ StepsToOpen(p)' \in Nat
    <3>1. StepsToOpen(p)' \in Nat
      <4>1. at'[p] \in 1 .. 3
        BY <1>1 DEF TypeOK
      <4> QED
        BY <4>1 DEF StepsToOpen
    <3> QED
      BY <1>1, <3>1, StepsType DEF TypeOK
  <2>1. ASSUME OpenStep(p)
        PROVE  StepsToOpen(p)' < StepsToOpen(p)
    <3>1. CASE Check(p)
      BY <2>t, <3>1, ColumnFacts DEF Check, NextColumn, StepsToOpen
    <3>2. CASE Alter(p)
      BY <2>t, <3>2, ColumnFacts DEF Alter, NextColumn, Abandon, StepsToOpen
    <3>3. CASE CreateIndex(p)
      BY <2>t, <3>3 DEF CreateIndex, StepsToOpen
    <3>4. CASE Backfill(p)
      BY <2>t, <3>4 DEF Backfill, StepsToOpen
    <3> QED
      BY <1>1, <2>1, <3>1, <3>2, <3>3, <3>4 DEF OpenStep
  <2>2. ASSUME ~OpenStep(p)
        PROVE  StepsToOpen(p)' <= StepsToOpen(p)
    <3>1. CASE Close(p) \/ Interrupt(p)
      <4>1. pc'[p] = "off"
        BY <2>t, <3>1 DEF Close, Interrupt, Abandon
      <4>2. StepsToOpen(p)' = 0
        BY <4>1 DEF StepsToOpen
      <4> QED
        BY <2>t, <4>2
    <3>2. CASE UNCHANGED <<pc, at>>
      <4>1. StepsToOpen(p)' = StepsToOpen(p)
        BY <3>2 DEF StepsToOpen
      <4> QED
        BY <2>t, <4>1
    <3>3. ASSUME NEW q \in Opener, q # p, OpenStep(q) \/ Close(q) \/ Interrupt(q)
          PROVE  StepsToOpen(p)' <= StepsToOpen(p)
      <4>1. pc'[p] = pc[p] /\ at'[p] = at[p]
        BY <2>t, <3>3 DEF OpenStep, OpenDB, Check, Alter, NextColumn, Abandon, CreateIndex,
                          Backfill, Close, Interrupt
      <4>2. StepsToOpen(p)' = StepsToOpen(p)
        BY <4>1 DEF StepsToOpen
      <4> QED
        BY <2>t, <4>2
    <3>4. \/ UNCHANGED <<pc, at>>
          \/ \E q \in Opener : OpenStep(q) \/ Close(q) \/ Interrupt(q)
      BY <1>1 DEF Next, OldSave, StartRun, SaveEvents, vars, proc
    <3> QED
      BY <2>2, <3>1, <3>2, <3>3, <3>4
  <2> QED
    BY <2>t, <2>1, <2>2
<1>2. TypeOK /\ TypeOK' /\ [Next]_vars =>
          \A p \in Opener : ~OpenDB(p) =>
              /\ StepsToOpen(p)' <= StepsToOpen(p)
              /\ OpenStep(p) => StepsToOpen(p)' < StepsToOpen(p)
  BY <1>1
<1> QED
  BY <1>2, TypeCorrect, PTL DEF Spec
=============================================================================
