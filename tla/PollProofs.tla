----------------------------- MODULE PollProofs -----------------------------
(***************************************************************************)
(* Theorems about Poll, for any number of processes, roles, messages,      *)
(* bodies and faults.                                                      *)
(***************************************************************************)
EXTENDS Poll, FiniteSetTheorems, TLAPS

\* The parts of the state a process owns have their types.
ProcessTypeOK ==
    /\ pc \in [Poller -> Step]
    /\ cur \in [Poller -> Role]
    /\ seen \in [Poller -> Mark]
    /\ todo \in [Poller -> SUBSET Id]
    /\ base \in [Poller -> Mark]
    /\ cache \in [Poller -> SUBSET Row]
    /\ row \in [Poller -> Row \cup {NoRow}]
    /\ fresh \in [Poller -> BOOLEAN]
    /\ opt \in [Poller -> Flags]
    /\ \A p \in Poller : pc[p] \in Storing => row[p] \in Row

\* A command line exists, so the one an idle process is given is one.
LEMMA AnyFlagsType == AnyFlags \in Flags
BY PollAssumption DEF AnyFlags

LEMMA FirstRole == 1 \in Role
BY PollAssumption DEF Role

\* Leaving a role, or the pass, keeps the types of a process.
LEMMA EndPassType ==
    ASSUME ProcessTypeOK, NEW p \in Poller, EndPass(p)
    PROVE  ProcessTypeOK'
BY AnyFlagsType, FirstRole DEF ProcessTypeOK, EndPass, ResetRole, Step, Storing, Mark, NoRow

LEMMA EndRoleType ==
    ASSUME ProcessTypeOK, NEW p \in Poller, EndRole(p)
    PROVE  ProcessTypeOK'
<1>1. CASE EndPass(p)
  BY <1>1, EndPassType
<1>2. CASE /\ cur[p] < NumRoles
           /\ pc' = [pc EXCEPT ![p] = "mark"]
           /\ cur' = [cur EXCEPT ![p] = @ + 1]
           /\ ResetRole(p)
           /\ UNCHANGED <<cache, opt>>
  <2>1. cur[p] + 1 \in Role
    BY <1>2, PollAssumption DEF ProcessTypeOK, Role
  <2> QED
    BY <1>2, <2>1 DEF ProcessTypeOK, ResetRole, Step, Storing, Mark
<1> QED
  BY <1>1, <1>2 DEF EndRole

\* The mark and the start of history keep their types when either moves.
LEMMA SetHighWaterMarkType ==
    ASSUME mark \in [Role -> Mark], floor \in [Role -> Mark],
           NEW r \in Role, NEW i \in Id \cup {0}, NEW from \in Mark,
           SetHighWaterMark(r, i, from)
    PROVE  mark' \in [Role -> Mark] /\ floor' \in [Role -> Mark]
BY DEF SetHighWaterMark, Mark
\* A step that leaves a process's own variables to EndRole or EndPass, and only
\* moves the mark within its type, is typed; so are the steps that move on.
LEMMA TypeStep == TypeOK /\ [Next]_vars => TypeOK'
<1> SUFFICES ASSUME TypeOK, [Next]_vars
             PROVE  TypeOK'
  OBVIOUS
<1> USE DEF GoTo
<1>p. ProcessTypeOK
  BY DEF TypeOK, ProcessTypeOK
<1>d. \A p \in Poller : cur[p] \in Role
  BY DEF TypeOK
<1>f. faults + 1 \in 0 .. MaxFaults \/ ~(faults < MaxFaults)
  BY PollAssumption DEF TypeOK
<1>1. ASSUME NEW p \in Poller, StartPass(p)
      PROVE  TypeOK'
  BY <1>1 DEF StartPass, TypeOK, Step, Storing, wilma, db
<1>2. ASSUME NEW p \in Poller, ReadMark(p)
      PROVE  TypeOK'
  BY <1>2 DEF ReadMark, TypeOK, Step, Storing, wilma, db
<1>3. ASSUME NEW p \in Poller, List(p)
      PROVE  TypeOK'
  BY <1>3 DEF List, TypeOK, Step, Storing, wilma, db
<1>4. ASSUME NEW p \in Poller, MarkPolled(p)
      PROVE  TypeOK'
  <2>1. UNCHANGED <<wilma, rows, links, mark, floor, out>>
    BY <1>4 DEF MarkPolled
  <2>2. polled' \in SUBSET Role /\ faults' \in 0 .. MaxFaults
    BY <1>4, <1>d, <1>f DEF MarkPolled, TypeOK
  <2>3. ProcessTypeOK'
    <3> DEFINE sel == SelectNew(todo[p], seen[p] # NoMark, seen[p], opt[p].window)
    <3>1. sel \subseteq todo[p]
      BY DEF SelectNew
    <3>2. CASE /\ GoTo(p, "fromnow")
               /\ UNCHANGED <<cur, seen, todo, base, cache, row, fresh, opt>>
      BY <3>2, <1>p DEF ProcessTypeOK, Step, Storing
    <3>3. CASE /\ GoTo(p, "body")
               /\ todo' = [todo EXCEPT ![p] = sel]
               /\ \E i \in sel : base' = [base EXCEPT ![p] =
                                      IF seen[p] = NoMark THEN i - 1 ELSE seen[p]]
               /\ UNCHANGED <<cur, seen, cache, row, fresh, opt>>
      <4> HIDE DEF sel
      <4>1. \A i \in sel : i - 1 \in Mark
        BY <3>1, <1>p, PollAssumption DEF ProcessTypeOK, Mark, Id
      <4> QED
        BY <3>1, <3>3, <4>1, <1>p DEF ProcessTypeOK, Step, Storing
    <3>4. CASE EndRole(p)
      BY <3>4, <1>p, EndRoleType
    <3> QED
      BY <1>4, <3>2, <3>3, <3>4 DEF MarkPolled, Select
  <2> QED
    BY <2>1, <2>2, <2>3 DEF TypeOK, ProcessTypeOK, wilma
<1>5. ASSUME NEW p \in Poller, AdoptNewest(p)
      PROVE  TypeOK'
  <2>1. ProcessTypeOK'
    BY <1>5, <1>p, EndRoleType DEF AdoptNewest
  <2>2. PICK i \in todo[p] : SetHighWaterMark(cur[p], i, i)
    BY <1>5 DEF AdoptNewest
  <2>3. i \in Id \cup {0} /\ i \in Mark
    BY <2>2, <1>p DEF ProcessTypeOK, Mark
  <2>4. mark' \in [Role -> Mark] /\ floor' \in [Role -> Mark]
    BY <2>2, <2>3, <1>d, SetHighWaterMarkType DEF TypeOK
  <2> QED
    BY <1>5, <2>1, <2>4 DEF AdoptNewest, TypeOK, ProcessTypeOK, wilma
<1>6. ASSUME NEW p \in Poller, TakeBody(p)
      PROVE  TypeOK'
  <2>1. PICK i \in todo[p] :
          \/ /\ row' = [row EXCEPT ![p] = [id |-> i, body |-> NoBody]]
             /\ UNCHANGED cache
          \/ /\ \E b \in Body : row' = [row EXCEPT ![p] = [id |-> i, body |-> b]]
             /\ UNCHANGED cache
          \/ /\ row' = [row EXCEPT ![p] = [id |-> i, body |-> shown[i]]]
             /\ cache' = [cache EXCEPT ![p] = @ \cup {row'[p]}]
    BY <1>6 DEF TakeBody
  <2>2. i \in Id /\ shown[i] \in Body
    BY <1>p DEF TypeOK, ProcessTypeOK
  <2>3. \A b \in Body \cup {NoBody} : [id |-> i, body |-> b] \in Row
    BY <2>2 DEF Row
  <2>4. PICK b \in Body \cup {NoBody} :
          /\ row' = [row EXCEPT ![p] = [id |-> i, body |-> b]]
          /\ cache' = cache \/ cache' = [cache EXCEPT ![p] = @ \cup {row'[p]}]
    BY <2>1, <2>2
  <2>5. row' \in [Poller -> Row \cup {NoRow}] /\ row'[p] \in Row
    BY <2>3, <2>4, <1>p DEF ProcessTypeOK
  <2>6. cache' \in [Poller -> SUBSET Row]
    BY <2>4, <2>5, <1>p DEF ProcessTypeOK
  <2>7. \A q \in Poller : pc'[q] \in Storing => row'[q] \in Row
    BY <1>6, <2>4, <2>5, <1>p DEF TakeBody, ProcessTypeOK
  <2> QED
    BY <1>6, <2>5, <2>6, <2>7 DEF TakeBody, TypeOK, Step, wilma, db
<1>7. ASSUME NEW p \in Poller, RoleDone(p)
      PROVE  TypeOK'
  <2>1. ProcessTypeOK'
    BY <1>7, <1>p, EndRoleType DEF RoleDone
  <2> QED
    BY <1>7, <2>1 DEF RoleDone, TypeOK, ProcessTypeOK, wilma, db
<1>8. ASSUME NEW p \in Poller, InsertMessage(p)
      PROVE  TypeOK'
  <2>1. row[p] \in Row
    BY <1>8 DEF InsertMessage, TypeOK, Storing
  <2> QED
    BY <1>8, <2>1 DEF InsertMessage, TypeOK, Step, Storing, wilma
<1>9. ASSUME NEW p \in Poller, LinkChild(p)
      PROVE  TypeOK'
  <2>1. <<row[p], cur[p]>> \in Row \X Role
    BY <1>9 DEF LinkChild, TypeOK, Storing
  <2> QED
    BY <1>9, <2>1 DEF LinkChild, TypeOK, Step, Storing, wilma
<1>10. ASSUME NEW p \in Poller, Emit(p)
       PROVE  TypeOK'
  <2>1. row[p] \in Row
    BY <1>10 DEF Emit, TypeOK, Storing
  <2> QED
    BY <1>10, <2>1 DEF Emit, TypeOK, Step, Storing, wilma, db
<1>11. ASSUME NEW p \in Poller, Advance(p)
       PROVE  TypeOK'
  <2>1. row[p] \in Row /\ row[p].id \in Id
    BY <1>11 DEF Advance, TypeOK, Storing, Row
  <2>2. mark' \in [Role -> Mark] /\ floor' \in [Role -> Mark]
    BY <1>11, <2>1, <1>d, SetHighWaterMarkType DEF Advance, TypeOK
  <2> QED
    BY <1>11, <2>1, <2>2 DEF Advance, TypeOK, Step, Storing, wilma
<1>12. ASSUME NEW p \in Poller, RoleError(p)
       PROVE  TypeOK'
  <2>1. ProcessTypeOK' /\ faults' \in 0 .. MaxFaults
    BY <1>12, <1>p, <1>f, EndRoleType DEF RoleError
  <2> QED
    BY <1>12, <2>1 DEF RoleError, TypeOK, ProcessTypeOK, wilma, db
<1>13. ASSUME NEW p \in Poller, PassError(p) \/ Crash(p)
       PROVE  TypeOK'
  <2>1. ProcessTypeOK' /\ faults' \in 0 .. MaxFaults
    BY <1>13, <1>p, <1>f, EndPassType DEF PassError, Crash
  <2> QED
    BY <1>13, <2>1 DEF PassError, Crash, TypeOK, ProcessTypeOK, wilma, db
<1>14. ASSUME Environment
       PROVE  TypeOK'
  <2>1. CASE Arrive
    <3>1. newest' \in 0 .. MaxId /\ newest' \in Id
      BY <2>1, PollAssumption DEF Arrive, TypeOK, Id
    <3> QED
      BY <2>1, <3>1 DEF Arrive, TypeOK, db, process
  <2>2. CASE Age
    BY <2>2, PollAssumption DEF Age, TypeOK, db, process
  <2>3. ASSUME NEW r \in Role, NEW i \in Archivable, Archive(r, i)
        PROVE  TypeOK'
    BY <2>3 DEF Archive, TypeOK, db, process
  <2>4. ASSUME NEW i \in Id, NEW b \in Body, Edit(i, b)
        PROVE  TypeOK'
    BY <2>4 DEF Edit, TypeOK, db, process
  <2> QED
    BY <1>14, <2>1, <2>2, <2>3, <2>4 DEF Environment
<1>15. ASSUME NEW r \in Role, NEW i \in OperatorIds, SetLastID(r, i)
       PROVE  TypeOK'
  <2>1. i \in Id \cup {0} /\ i \in Mark
    BY PollAssumption DEF Mark
  <2>2. mark' \in [Role -> Mark] /\ floor' \in [Role -> Mark]
    BY <1>15, <2>1, SetHighWaterMarkType DEF SetLastID, TypeOK
  <2> QED
    BY <1>15, <2>2 DEF SetLastID, TypeOK, wilma, process
<1>16. CASE UNCHANGED vars
  BY <1>16 DEF vars, wilma, db, process, TypeOK
<1> QED
  BY <1>1, <1>2, <1>3, <1>4, <1>5, <1>6, <1>7, <1>8, <1>9, <1>10, <1>11,
     <1>12, <1>13, <1>14, <1>15, <1>16
     DEF Next, PassStep, Operator

\* Every variable keeps its type, and a process that is storing a message has
\* one in hand.
THEOREM TypeCorrect == Spec => []TypeOK
<1>1. Init => TypeOK
  BY PollAssumption, AnyFlagsType, FirstRole
     DEF Init, TypeOK, Step, Storing, Mark, NoRow, AnyBody
<1>2. QED
  BY <1>1, TypeStep, PTL DEF Spec
-----------------------------------------------------------------------------
(* No gap below a mark.                                                     *)

\* The part of GapInv that speaks of the processes.
LocalInv == AssignedInv /\ ListInv /\ SelectionInv /\ HandInv

\* The process has left the role, and the others are where they were.
Left(p) ==
    /\ pc'[p] \in {"idle", "mark"} /\ todo'[p] = {} /\ ~fresh'[p]
    /\ \A q \in Poller \ {p} :
          /\ pc'[q] = pc[q] /\ cur'[q] = cur[q] /\ todo'[q] = todo[q]
          /\ base'[q] = base[q] /\ row'[q] = row[q] /\ fresh'[q] = fresh[q]

LEMMA EndPassLeaves ==
    ASSUME ProcessTypeOK, NEW p \in Poller, EndPass(p)
    PROVE  Left(p)
BY DEF ProcessTypeOK, EndPass, ResetRole, Left

LEMMA EndRoleLeaves ==
    ASSUME ProcessTypeOK, NEW p \in Poller, EndRole(p)
    PROVE  Left(p)
<1>1. CASE EndPass(p)
  BY <1>1, EndPassLeaves
<1>2. CASE /\ pc' = [pc EXCEPT ![p] = "mark"]
           /\ cur' = [cur EXCEPT ![p] = @ + 1]
           /\ ResetRole(p)
  BY <1>2 DEF ProcessTypeOK, ResetRole, Left
<1> QED
  BY <1>1, <1>2 DEF EndRole

\* A process that leaves the role leaves nothing to invariants of processes.
LEMMA LeftKeepsLocal ==
    ASSUME LocalInv, NEW p \in Poller, Left(p),
           UNCHANGED <<inbox, newest, links>>
    PROVE  LocalInv'
<1>1. AssignedInv'
  BY DEF LocalInv, AssignedInv, Left
<1>2. ListInv'
  BY DEF LocalInv, ListInv, Left
<1>3. SelectionInv'
  BY DEF LocalInv, SelectionInv, Left, Storing, Linked
<1>4. HandInv'
  BY DEF LocalInv, HandInv, Left, Storing, Linked, Least
<1> QED
  BY <1>1, <1>2, <1>3, <1>4 DEF LocalInv

\* Links are never removed.
LEMMA LinkedGrows ==
    ASSUME links \subseteq links', NEW i, NEW r, Linked(i, r)
    PROVE  Linked(i, r)'
BY DEF Linked

\* What a step may do to the marks: nothing, while links only grow and inboxes
\* only shrink; let a message arrive, above every mark but an operator's; or
\* move one mark to i, over nothing but linked messages.
MarkEffect ==
    \/ /\ UNCHANGED <<newest, mark, floor>>
       /\ links \subseteq links'
       /\ \A r \in Role : inbox'[r] \subseteq inbox[r]
    \/ /\ UNCHANGED <<links, mark, floor>>
       /\ newest' = newest + 1
       /\ \A r \in Role : inbox'[r] \subseteq inbox[r] \cup {newest'}
    \/ /\ UNCHANGED <<inbox, newest, links>>
       /\ \E r \in Role, i \in Id \cup {0}, from \in Mark :
             /\ SetHighWaterMark(r, i, from)
             /\ i <= newest \/ i <= from
             /\ i <= from \/ Linked(i, r)
             /\ \A j \in inbox[r] : from < j /\ j <= i => Linked(j, r)

LEMMA MarkStays ==
    ASSUME UNCHANGED <<inbox, newest, mark, floor>>, links \subseteq links'
    PROVE  MarkEffect
BY DEF MarkEffect

LEMMA MarkMove ==
    ASSUME NEW r \in Role, NEW i \in Id \cup {0}, NEW from \in Mark,
           SetHighWaterMark(r, i, from),
           UNCHANGED <<inbox, newest, links>>,
           i <= newest \/ i <= from,
           i <= from \/ Linked(i, r),
           \A j \in inbox[r] : from < j /\ j <= i => Linked(j, r)
    PROVE  MarkEffect
<1>1. \E s \in Role, k \in Id \cup {0}, f \in Mark :
         /\ SetHighWaterMark(s, k, f)
         /\ k <= newest \/ k <= f
         /\ k <= f \/ Linked(k, s)
         /\ \A j \in inbox[s] : f < j /\ j <= k => Linked(j, s)
  OBVIOUS
<1> QED
  BY <1>1, Zenon DEF MarkEffect

\* Every step keeps what the processes know of their roles, and moves marks only
\* as MarkEffect says, whatever the marks were.
LEMMA LocalStep == TypeOK /\ LocalInv /\ [Next]_vars => LocalInv' /\ MarkEffect
<1> SUFFICES ASSUME TypeOK, LocalInv, [Next]_vars
             PROVE  LocalInv' /\ MarkEffect
  OBVIOUS
<1> USE DEF GoTo
<1>p. ProcessTypeOK
  BY DEF TypeOK, ProcessTypeOK
<1>i. AssignedInv /\ ListInv /\ SelectionInv /\ HandInv
  BY DEF LocalInv
<1>1. ASSUME NEW p \in Poller, StartPass(p) \/ ReadMark(p)
      PROVE  LocalInv' /\ MarkEffect
  <2>1. LocalInv'
    BY <1>1, <1>i, <1>p DEF StartPass, ReadMark, LocalInv, AssignedInv, ListInv,
       SelectionInv, HandInv, Storing, Linked, Least, ProcessTypeOK, wilma, db
  <2> QED
    BY <1>1, <1>i, <2>1, MarkStays DEF StartPass, ReadMark, wilma, db
<1>2. ASSUME NEW p \in Poller, List(p)
      PROVE  LocalInv' /\ MarkEffect
  <2>1. UNCHANGED <<wilma, db, cur, base, row>> /\ pc' = [pc EXCEPT ![p] = "select"]
           /\ todo' = [todo EXCEPT ![p] = inbox[cur[p]]]
    BY <1>2 DEF List
  <2>2. AssignedInv'
    BY <2>1, <1>i, <1>p DEF AssignedInv, ProcessTypeOK, wilma
  <2>3. ListInv'
    BY <2>1, <1>i, <1>p DEF ListInv, ProcessTypeOK, wilma
  <2>4. SelectionInv' /\ HandInv'
    BY <2>1, <1>i, <1>p DEF SelectionInv, HandInv, ProcessTypeOK, Storing, Linked,
       Least, wilma, db
  <2> QED
    BY <1>i, <2>1, <2>2, <2>3, <2>4, MarkStays DEF LocalInv, wilma, db
<1>3. ASSUME NEW p \in Poller, MarkPolled(p)
      PROVE  LocalInv' /\ MarkEffect
  <2> DEFINE sel == SelectNew(todo[p], seen[p] # NoMark, seen[p], opt[p].window)
  <2>1. pc[p] = "select" /\ UNCHANGED <<wilma, rows, links, mark, floor, out>>
    BY <1>3 DEF MarkPolled
  <2>2. ASSUME GoTo(p, "fromnow"),
               UNCHANGED <<cur, seen, todo, base, cache, row, fresh, opt>>
        PROVE  LocalInv'
    BY <2>1, <2>2, <1>i, <1>p DEF LocalInv, AssignedInv, ListInv, SelectionInv,
       HandInv, Storing, Linked, Least, ProcessTypeOK, wilma
  <2>3. ASSUME NEW f \in sel, Least(f, sel),
               GoTo(p, "body"), todo' = [todo EXCEPT ![p] = sel],
               base' = [base EXCEPT ![p] =
                           IF seen[p] = NoMark THEN f - 1 ELSE seen[p]],
               UNCHANGED <<cur, seen, cache, row, fresh, opt>>
        PROVE  LocalInv'
    <3>1. sel \subseteq todo[p]
      BY DEF SelectNew
    <3>2. \A i \in todo[p] : base'[p] < i => i \in sel
      <4> SUFFICES ASSUME NEW i \in todo[p], base'[p] < i
                   PROVE  i \in sel
        OBVIOUS
      <4>1. i \in Int /\ f \in Int
        BY <3>1, <1>p DEF ProcessTypeOK, Id
      <4>2. CASE seen[p] # NoMark
        BY <2>3, <4>2, <1>p DEF SelectNew, ProcessTypeOK
      <4>3. CASE seen[p] = NoMark /\ ~opt[p].window
        BY <4>3 DEF SelectNew
      <4>4. CASE seen[p] = NoMark /\ opt[p].window
        <5>1. f <= i
          BY <2>3, <4>1, <4>4, <1>p DEF ProcessTypeOK
        <5>2. PICK g \in todo[p] : g \in dated /\ g > aged /\ g <= f
          BY <4>4 DEF SelectNew
        <5>3. g <= i
          BY <4>1, <5>1, <5>2, <1>p DEF ProcessTypeOK, Id
        <5> QED
          BY <4>4, <5>2, <5>3 DEF SelectNew
      <4> QED
        BY <4>2, <4>3, <4>4
    <3> HIDE DEF sel
    <3>3. todo'[p] = sel /\ \A q \in Poller \ {p} : todo'[q] = todo[q]
      BY <2>3, <1>p DEF ProcessTypeOK
    <3>4. AssignedInv'
      BY <2>1, <3>1, <3>3, <1>i DEF AssignedInv, wilma
    <3>5. ListInv'
      BY <2>1, <2>3, <3>3, <1>i, <1>p DEF ListInv, ProcessTypeOK, wilma
    <3>6. SelectionInv'
      <4>1. \A i \in inbox[cur[p]], m \in sel : base'[p] < i /\ i <= m => i \in sel
        BY <2>1, <3>1, <3>2, <1>i DEF ListInv
      <4>2. \A m \in sel : base'[p] < m
        <5>1. f \in Int /\ \A m \in sel : m \in Int
          BY <3>1, <1>p DEF ProcessTypeOK, Id
        <5>2. seen[p] # NoMark => \A m \in sel : seen[p] < m
          BY DEF sel, SelectNew
        <5> QED
          BY <2>3, <5>1, <5>2, <1>p DEF ProcessTypeOK, Least
      <4> QED
        BY <2>1, <2>3, <3>3, <4>1, <4>2, <1>i, <1>p
           DEF SelectionInv, ProcessTypeOK, Storing, Linked, wilma
    <3>7. HandInv'
      BY <2>1, <2>3, <3>3, <1>i, <1>p
         DEF HandInv, ProcessTypeOK, Storing, Linked, Least
    <3> QED
      BY <3>4, <3>5, <3>6, <3>7 DEF LocalInv
  <2>4. ASSUME EndRole(p)
        PROVE  LocalInv'
    BY <2>1, <2>4, <1>i, <1>p, EndRoleLeaves, LeftKeepsLocal DEF wilma
  <2>5. LocalInv'
    BY <1>3, <2>2, <2>3, <2>4 DEF MarkPolled, Select
  <2> QED
    BY <1>i, <2>1, <2>5, MarkStays DEF wilma
<1>4. ASSUME NEW p \in Poller, AdoptNewest(p)
      PROVE  LocalInv' /\ MarkEffect
  <2>1. LocalInv'
    BY <1>4, <1>i, <1>p, EndRoleLeaves, LeftKeepsLocal DEF AdoptNewest, wilma
  <2>2. PICK i \in todo[p] : SetHighWaterMark(cur[p], i, i)
    BY <1>4 DEF AdoptNewest
  <2>3. i \in Id /\ cur[p] \in Role
    BY <1>p DEF ProcessTypeOK
  <2>4. i \in Id \cup {0} /\ i \in Mark /\ i <= i
    BY <2>3 DEF Mark, Id
  <2>5. \A j \in inbox[cur[p]] : ~(i < j /\ j <= i)
    BY <2>3 DEF TypeOK, Id
  <2>6. MarkEffect
    BY <1>4, <2>2, <2>3, <2>4, <2>5, MarkMove DEF AdoptNewest, wilma
  <2> QED
    BY <2>1, <2>6
<1>5. ASSUME NEW p \in Poller, TakeBody(p)
      PROVE  LocalInv' /\ MarkEffect
  <2>1. PICK i \in todo[p], b \in Body \cup {NoBody} :
          Least(i, todo[p]) /\ row' = [row EXCEPT ![p] = [id |-> i, body |-> b]]
    <3>1. \A i \in todo[p] : shown[i] \in Body
      BY <1>p DEF TypeOK, ProcessTypeOK
    <3> QED
      BY <1>5, <3>1 DEF TakeBody
  <2>2. row'[p].id = i
    BY <2>1, <1>p DEF ProcessTypeOK
  <2>3. /\ pc[p] = "body" /\ pc' = [pc EXCEPT ![p] = "insert"]
        /\ UNCHANGED <<wilma, db, cur, todo, base>>
    BY <1>5 DEF TakeBody
  <2>4. AssignedInv' /\ ListInv' /\ SelectionInv'
    BY <2>3, <1>i, <1>p DEF AssignedInv, ListInv, SelectionInv, ProcessTypeOK,
       Storing, Linked, wilma, db
  <2>5. HandInv'
    BY <2>1, <2>2, <2>3, <1>i, <1>p
       DEF HandInv, ProcessTypeOK, Storing, Linked, Least, db
  <2> QED
    BY <1>i, <2>3, <2>4, <2>5, MarkStays DEF LocalInv, wilma, db
<1>6. ASSUME NEW p \in Poller, RoleDone(p) \/ RoleError(p)
      PROVE  LocalInv' /\ MarkEffect
  <2>1. LocalInv'
    BY <1>6, <1>i, <1>p, EndRoleLeaves, LeftKeepsLocal DEF RoleDone, RoleError, wilma, db
  <2> QED
    BY <1>6, <1>i, <2>1, MarkStays DEF RoleDone, RoleError, wilma, db
<1>7. ASSUME NEW p \in Poller, InsertMessage(p) \/ Emit(p)
      PROVE  LocalInv' /\ MarkEffect
  <2>1. /\ pc[p] \in Storing /\ pc'[p] \in {"link", "advance"}
        /\ pc'[p] = "advance" => pc[p] = "emit"
        /\ \A q \in Poller \ {p} : pc'[q] = pc[q]
        /\ UNCHANGED <<wilma, links, mark, floor, cur, todo, base, row>>
    BY <1>7, <1>p DEF InsertMessage, Emit, Storing, ProcessTypeOK, db
  <2>2. AssignedInv' /\ ListInv' /\ SelectionInv'
    BY <2>1, <1>i DEF AssignedInv, ListInv, SelectionInv, Storing, Linked, wilma
  <2>3. HandInv'
    BY <2>1, <1>i DEF HandInv, Storing, Linked, Least
  <2> QED
    BY <1>i, <2>1, <2>2, <2>3, MarkStays DEF LocalInv, wilma
<1>8. ASSUME NEW p \in Poller, LinkChild(p)
      PROVE  LocalInv' /\ MarkEffect
  <2>1. /\ pc[p] = "link" /\ pc'[p] \in {"emit", "advance"}
        /\ \A q \in Poller \ {p} : pc'[q] = pc[q]
        /\ UNCHANGED <<wilma, mark, floor, cur, todo, base, row>>
        /\ links' = links \cup {<<row[p], cur[p]>>}
    BY <1>8, <1>p DEF LinkChild, ProcessTypeOK
  <2>2. Linked(row[p].id, cur[p])'
    <3>1. <<row[p], cur[p]>> \in links'
      BY <2>1
    <3>2. row'[p] = row[p] /\ cur'[p] = cur[p]
      BY <2>1
    <3> QED
      BY <3>1, <3>2 DEF Linked
  <2>3. \A i, r : Linked(i, r) => Linked(i, r)'
    BY <2>1, LinkedGrows
  <2>4. AssignedInv' /\ ListInv'
    BY <2>1, <1>i DEF AssignedInv, ListInv, wilma
  <2>5. SelectionInv'
    BY <2>1, <2>3, <1>i DEF SelectionInv, Storing, wilma
  <2>6. HandInv'
    BY <2>1, <2>2, <2>3, <1>i DEF HandInv, Storing, Least
  <2> QED
    BY <1>i, <2>1, <2>4, <2>5, <2>6, MarkStays DEF LocalInv, wilma
<1>9. ASSUME NEW p \in Poller, Advance(p)
      PROVE  LocalInv' /\ MarkEffect
  <2> DEFINE i == row[p].id
             r == cur[p]
  <2>1. /\ pc[p] = "advance" /\ pc'[p] = "body"
        /\ \A q \in Poller \ {p} : pc'[q] = pc[q] /\ row'[q] = row[q] /\ todo'[q] = todo[q]
        /\ todo'[p] = todo[p] \ {i}
        /\ SetHighWaterMark(r, i, base[p])
        /\ UNCHANGED <<wilma, links, cur, base>>
    BY <1>9, <1>p DEF Advance, ProcessTypeOK
  <2>2. i \in todo[p] /\ (\A j \in todo[p] : i <= j) /\ Linked(i, r)
    BY <2>1, <1>i DEF HandInv, Storing, Least
  <2>3. i \in Id /\ r \in Role /\ base[p] \in Mark /\ i <= newest
    BY <2>2, <1>i, <1>p DEF ProcessTypeOK, AssignedInv
  <2> HIDE DEF i, r
  <2>4. \A j \in inbox[r] : base[p] < j /\ j <= i => Linked(j, r)
    <3> SUFFICES ASSUME NEW j \in inbox[r], base[p] < j, j <= i
                 PROVE  Linked(j, r)
      OBVIOUS
    <3>1. j \in todo[p] \/ Linked(j, r)
      BY <2>1, <2>2, <1>i DEF SelectionInv, Storing, r
    <3>2. j \in Id
      BY <2>3 DEF TypeOK
    <3>3. j \in todo[p] => j = i
      BY <2>2, <2>3, <3>2 DEF Id
    <3> QED
      BY <2>2, <3>1, <3>3
  <2>5. MarkEffect
    BY <2>1, <2>2, <2>3, <2>4, MarkMove DEF wilma
  <2>6. AssignedInv'
    BY <2>1, <1>i DEF AssignedInv, wilma
  <2>7. ListInv'
    BY <2>1, <1>i DEF ListInv, wilma
  <2>8. SelectionInv'
    <3>1. \A j \in inbox[r], m \in todo'[p] :
            base[p] < j /\ j <= m => j \in todo'[p] \/ Linked(j, r)
      BY <2>1, <2>2, <1>i DEF SelectionInv, Storing, r
    <3> QED
      BY <2>1, <3>1, <1>i DEF SelectionInv, Storing, Linked, wilma, r
  <2>9. HandInv'
    BY <2>1, <1>i DEF HandInv, Storing, Linked, Least
  <2> QED
    BY <2>5, <2>6, <2>7, <2>8, <2>9 DEF LocalInv
<1>10. ASSUME NEW p \in Poller, PassError(p) \/ Crash(p)
       PROVE  LocalInv' /\ MarkEffect
  <2>1. LocalInv'
    BY <1>10, <1>i, <1>p, EndPassLeaves, LeftKeepsLocal DEF PassError, Crash, wilma, db
  <2> QED
    BY <1>10, <1>i, <2>1, MarkStays DEF PassError, Crash, wilma, db
<1>11. CASE Arrive
  <2>1. /\ newest' = newest + 1 /\ UNCHANGED <<links, mark, floor, process>>
        /\ \A r \in Role : inbox'[r] \subseteq inbox[r] \cup {newest'}
    BY <1>11 DEF Arrive, db, TypeOK
  <2>2. newest \in Nat /\ (\A r \in Role : mark[r] \in Int /\ floor[r] \in Int /\ inbox[r] \subseteq Int)
           /\ (\A p \in Poller : todo[p] \subseteq Int /\ cur[p] \in Role)
    BY PollAssumption DEF TypeOK, Mark, NoMark, Id
  <2>3. AssignedInv'
    BY <2>1, <2>2, <1>i DEF AssignedInv, process
  <2>4. \A p \in Poller : \A m \in todo[p] : ~(newest' <= m)
    BY <2>1, <2>2, <1>i DEF AssignedInv
  <2>5. ListInv'
    BY <2>1, <2>2, <2>4, <1>i DEF ListInv, process
  <2>6. SelectionInv'
    BY <2>1, <2>2, <2>4, <1>i DEF SelectionInv, Storing, Linked, process
  <2>7. HandInv'
    BY <2>1, <1>i DEF HandInv, Storing, Linked, Least, process
  <2>8. MarkEffect
    BY <1>11, <2>1 DEF MarkEffect
  <2> QED
    BY <2>3, <2>5, <2>6, <2>7, <2>8 DEF LocalInv
<1>12. ASSUME UNCHANGED <<newest, links, mark, floor, process>>,
              \A r \in Role : inbox'[r] \subseteq inbox[r]
       PROVE  LocalInv' /\ MarkEffect
  <2>1. \A p \in Poller : cur[p] \in Role
    BY <1>p DEF ProcessTypeOK
  <2>2. AssignedInv' /\ ListInv' /\ SelectionInv' /\ HandInv'
    BY <1>12, <2>1, <1>i DEF AssignedInv, ListInv, SelectionInv, HandInv, Storing,
       Linked, Least, process
  <2>3. MarkEffect
    BY <1>12 DEF MarkEffect
  <2> QED
    BY <2>2, <2>3 DEF LocalInv
<1>13. CASE Age \/ (\E r \in Role, i \in Archivable : Archive(r, i))
                \/ (\E i \in Id, b \in Body : Edit(i, b)) \/ UNCHANGED vars
  BY <1>12, <1>13 DEF Age, Archive, Edit, vars, wilma, db, TypeOK
<1>14. ASSUME NEW r \in Role, NEW i \in OperatorIds, SetLastID(r, i)
       PROVE  LocalInv' /\ MarkEffect
  <2>1. i \in Id \cup {0} /\ i \in Mark
    BY PollAssumption DEF Mark
  <2>2. i <= i /\ \A j \in inbox[r] : ~(i < j /\ j <= i)
    BY <2>1 DEF TypeOK, Id
  <2>3. MarkEffect
    BY <1>14, <1>i, <2>1, <2>2, MarkMove DEF SetLastID, wilma
  <2>4. LocalInv'
    BY <1>14, <1>i DEF SetLastID, LocalInv, AssignedInv, ListInv, SelectionInv,
       HandInv, Storing, Linked, Least, wilma, process
  <2> QED
    BY <2>3, <2>4
<1> QED
  BY <1>1, <1>2, <1>3, <1>4, <1>5, <1>6, <1>7, <1>8, <1>9, <1>10, <1>11, <1>13, <1>14
     DEF Next, PassStep, Environment, Operator

\* Marks that move so are not above what Wilma has assigned, but an operator's.
LEMMA EffectBounds ==
    ASSUME TypeOK, MarkInv, MarkEffect
    PROVE  MarkInv'
<1> USE DEF Mark, NoMark, Id
<1>1. /\ mark \in [Role -> Mark] /\ floor \in [Role -> Mark]
      /\ MaxId \in Nat /\ newest \in Nat
  BY PollAssumption DEF TypeOK
<1>2. \A r \in Role : mark[r] \in Int /\ floor[r] \in Int
  BY <1>1
<1>3. CASE newest' \in {newest, newest + 1} /\ UNCHANGED <<mark, floor>>
  BY <1>1, <1>2, <1>3 DEF MarkInv
<1>4. ASSUME NEW r \in Role, NEW i \in Id \cup {0}, NEW from \in Mark,
             SetHighWaterMark(r, i, from), UNCHANGED newest,
             i <= newest \/ i <= from
      PROVE  MarkInv'
  BY <1>1, <1>4 DEF SetHighWaterMark, MarkInv
<1> QED
  BY <1>3, <1>4 DEF MarkEffect

\* Marks that move so keep the history of every role gapless.
LEMMA EffectKeeps ==
    ASSUME TypeOK, MarkInv, Contiguous, MarkEffect
    PROVE  Contiguous'
<1> USE DEF Mark, NoMark, Id
<1>1. /\ mark \in [Role -> Mark] /\ floor \in [Role -> Mark]
      /\ MaxId \in Nat /\ newest \in Nat
      /\ inbox \in [Role -> SUBSET Id]
  BY PollAssumption DEF TypeOK
<1>2. CASE /\ UNCHANGED <<newest, mark, floor>>
           /\ links \subseteq links'
           /\ \A r \in Role : inbox'[r] \subseteq inbox[r]
  BY <1>2 DEF Contiguous, Linked
<1>3. CASE /\ UNCHANGED <<links, mark, floor>>
           /\ newest' = newest + 1
           /\ \A r \in Role : inbox'[r] \subseteq inbox[r] \cup {newest'}
  <2>1. \A r \in Role : mark[r] \in Int /\ floor[r] \in Int
    BY <1>1
  <2> QED
    BY <1>1, <1>3, <2>1 DEF MarkInv, Contiguous, Linked
<1>4. ASSUME NEW r \in Role, NEW i \in Id \cup {0}, NEW from \in Mark,
             SetHighWaterMark(r, i, from),
             UNCHANGED <<inbox, newest, links>>,
             \A j \in inbox[r] : from < j /\ j <= i => Linked(j, r)
      PROVE  Contiguous'
  <2>2. /\ mark'[r] = IF i > mark[r] THEN i ELSE mark[r]
        /\ floor'[r] = IF from > mark[r] THEN from ELSE floor[r]
        /\ \A s \in Role \ {r} : mark'[s] = mark[s] /\ floor'[s] = floor[s]
    BY <1>1, <1>4 DEF SetHighWaterMark
  <2>3. \A j \in inbox[r] : floor'[r] < j /\ j <= mark'[r] => Linked(j, r)
    <3> SUFFICES ASSUME NEW j \in inbox[r], floor'[r] < j, j <= mark'[r]
                 PROVE  Linked(j, r)
      OBVIOUS
    <3>1. j \in Id
      BY <1>1
    <3>2. CASE from > mark[r]
      BY <1>1, <1>4, <2>2, <3>1, <3>2
    <3>3. CASE ~(from > mark[r]) /\ j <= mark[r]
      BY <2>2, <3>3 DEF Contiguous
    <3>4. CASE ~(from > mark[r]) /\ ~(j <= mark[r])
      <4>1. from < j /\ j <= i
        BY <1>1, <2>2, <3>1, <3>4
      <4> QED
        BY <1>4, <4>1
    <3> QED
      BY <3>2, <3>3, <3>4
  <2>4. \A s \in Role \ {r} : \A j \in inbox[s] :
           floor'[s] < j /\ j <= mark'[s] => Linked(j, s)
    BY <2>2 DEF Contiguous
  <2> QED
    BY <1>4, <2>3, <2>4 DEF Contiguous, Linked
<1> QED
  BY <1>2, <1>3, <1>4 DEF MarkEffect

\* Every step keeps GapInv.
LEMMA GapStep == TypeOK /\ GapInv /\ [Next]_vars => GapInv'
<1>1. GapInv <=> LocalInv /\ MarkInv /\ Contiguous
  BY DEF GapInv, LocalInv
<1>2. GapInv' <=> LocalInv' /\ MarkInv' /\ Contiguous'
  BY DEF GapInv, LocalInv
<1> QED
  BY <1>1, <1>2, LocalStep, EffectBounds, EffectKeeps

LEMMA GapInit == Init => GapInv
BY DEF Init, GapInv, AssignedInv, MarkInv, ListInv, SelectionInv, HandInv,
       Contiguous, Storing, NoMark

\* "Never skipping a gap": below a role's mark, down to where its history
\* starts, every message in the inbox is stored and linked to the role.
THEOREM Contiguity == Spec => []Contiguous
<1>1. GapInv => Contiguous
  BY DEF GapInv
<1> QED
  BY <1>1, GapInit, GapStep, TypeCorrect, PTL DEF Spec

-----------------------------------------------------------------------------
(* No message is emitted twice.                                             *)

\* Steps that store nothing, emit nothing and make no row fresh.
LEMMA EmitQuiet ==
    ASSUME EmitInv, UNCHANGED <<rows, out>>,
           \A p \in Poller :
              \/ ~fresh'[p] /\ pc'[p] # "emit"
              \/ fresh'[p] = fresh[p] /\ pc'[p] = pc[p] /\ row'[p] = row[p]
    PROVE  EmitInv'
BY DEF EmitInv, FreshInv, EmittedOnce

\* Every step keeps EmitInv.
LEMMA EmitStep == TypeOK /\ EmitInv /\ [Next]_vars => EmitInv'
<1> SUFFICES ASSUME TypeOK, EmitInv, [Next]_vars
             PROVE  EmitInv'
  OBVIOUS
<1> USE DEF GoTo
<1>p. ProcessTypeOK
  BY DEF TypeOK, ProcessTypeOK
<1>i. /\ FreshInv /\ EmittedOnce
      /\ \A p \in Poller : pc[p] \notin {"link", "emit", "advance"} => ~fresh[p]
  BY DEF EmitInv, FreshInv
<1>1. ASSUME NEW p \in Poller,
             StartPass(p) \/ ReadMark(p) \/ List(p) \/ TakeBody(p) \/ Advance(p)
      PROVE  EmitInv'
  BY <1>1, <1>i, <1>p, EmitQuiet
     DEF StartPass, ReadMark, List, TakeBody, Advance, ProcessTypeOK, db
<1>2. ASSUME NEW p \in Poller, Left(p), UNCHANGED <<rows, out>>
      PROVE  EmitInv'
  BY <1>2, <1>i, EmitQuiet DEF Left
<1>3. ASSUME NEW p \in Poller, MarkPolled(p)
      PROVE  EmitInv'
  <2>1. pc[p] = "select" /\ Select(p) /\ UNCHANGED <<rows, out>>
    BY <1>3 DEF MarkPolled
  <2>2. CASE EndRole(p)
    BY <2>1, <2>2, <1>2, <1>p, EndRoleLeaves
  <2>3. CASE pc'[p] \in {"fromnow", "body"} /\ UNCHANGED <<row, fresh>>
             /\ \A q \in Poller \ {p} : pc'[q] = pc[q]
    BY <2>1, <2>3, <1>i, EmitQuiet
  <2> QED
    BY <2>1, <2>2, <2>3, <1>p DEF Select, ProcessTypeOK
<1>4. ASSUME NEW p \in Poller,
             AdoptNewest(p) \/ RoleDone(p) \/ RoleError(p) \/ PassError(p) \/ Crash(p)
      PROVE  EmitInv'
  <2>1. Left(p)
    BY <1>4, <1>p, EndRoleLeaves, EndPassLeaves
       DEF AdoptNewest, RoleDone, RoleError, PassError, Crash
  <2>2. UNCHANGED <<rows, out>>
    BY <1>4 DEF AdoptNewest, RoleDone, RoleError, PassError, Crash, db
  <2> QED
    BY <2>1, <2>2, <1>2
<1>5. ASSUME NEW p \in Poller, InsertMessage(p)
      PROVE  EmitInv'
  <2>1. /\ pc'[p] = "link" /\ fresh'[p] = (row[p] \notin rows)
        /\ \A q \in Poller \ {p} : pc'[q] = pc[q] /\ fresh'[q] = fresh[q]
        /\ rows' = rows \cup {row[p]} /\ UNCHANGED <<row, out>>
    BY <1>5, <1>p DEF InsertMessage, ProcessTypeOK
  <2> QED
    BY <2>1, <1>i DEF EmitInv, FreshInv, EmittedOnce
<1>6. ASSUME NEW p \in Poller, LinkChild(p)
      PROVE  EmitInv'
  <2>1. /\ pc[p] = "link" /\ pc'[p] \in {"emit", "advance"}
        /\ pc'[p] = "emit" => fresh[p]
        /\ \A q \in Poller \ {p} : pc'[q] = pc[q]
        /\ UNCHANGED <<rows, row, fresh, out>>
    BY <1>6, <1>p DEF LinkChild, ProcessTypeOK
  <2> QED
    BY <2>1, <1>i DEF EmitInv, FreshInv, EmittedOnce
<1>7. ASSUME NEW p \in Poller, Emit(p)
      PROVE  EmitInv'
  <2>1. /\ pc[p] = "emit" /\ pc'[p] = "advance" /\ ~fresh'[p]
        /\ \A q \in Poller \ {p} : pc'[q] = pc[q] /\ fresh'[q] = fresh[q]
        /\ out' = Append(out, row[p]) /\ UNCHANGED <<rows, row>>
    BY <1>7, <1>p DEF Emit, ProcessTypeOK, db
  <2>2. /\ fresh[p] /\ row[p] \in rows
        /\ \A j \in DOMAIN out : out[j] # row[p]
        /\ \A q \in Poller \ {p} : fresh[q] => row[q] # row[p]
    BY <2>1, <1>i DEF FreshInv
  <2>3. /\ Len(out) \in Nat /\ DOMAIN out = 1 .. Len(out)
        /\ DOMAIN out' = 1 .. Len(out) + 1
        /\ \A j \in DOMAIN out : out'[j] = out[j]
        /\ out'[Len(out) + 1] = row[p]
    BY <2>1 DEF TypeOK, Storing
  <2>4. EmittedOnce'
    BY <2>2, <2>3, <1>i DEF EmittedOnce
  <2>5. \A j \in DOMAIN out' : out'[j] = row[p] \/ \E k \in DOMAIN out : out'[j] = out[k]
    BY <2>3
  <2>6. FreshInv'
    BY <2>1, <2>2, <2>5, <1>i DEF FreshInv
  <2> QED
    BY <2>4, <2>6 DEF EmitInv
<1>8. CASE Environment \/ Operator \/ UNCHANGED vars
  <2>1. UNCHANGED <<rows, out, pc, fresh, row>>
    BY <1>8 DEF Environment, Arrive, Age, Archive, Edit, Operator, SetLastID, vars,
                db, process
  <2> QED
    BY <2>1, EmitQuiet
<1> QED
  BY <1>1, <1>3, <1>4, <1>5, <1>6, <1>7, <1>8 DEF Next, PassStep

\* No message row is written to --emit-new's stream twice, over any number of
\* passes, roles, processes, failures and restarts.
THEOREM EmitsOnce == Spec => []EmittedOnce
<1>1. Init => EmitInv
  BY DEF Init, EmitInv, FreshInv, EmittedOnce
<1>2. EmitInv => EmittedOnce
  BY DEF EmitInv
<1>3. QED
  BY <1>1, <1>2, EmitStep, TypeCorrect, PTL DEF Spec

-----------------------------------------------------------------------------
(* Poll implements Feed.                                                    *)

Held == [r \in Role |-> {i \in Id : Linked(i, r)}]

\* A step Feed cannot see.
LEMMA FeedStays ==
    ASSUME UNCHANGED <<inbox, links, mark, floor>>
    PROVE  UNCHANGED PolledFeed!feedVars
BY DEF PolledFeed!feedVars, Linked

\* A move of the mark, as MarkMove has it, is a move that Feed allows.
LEMMA FeedMark ==
    ASSUME TypeOK,
           NEW r \in Role, NEW i \in Id \cup {0}, NEW from \in Mark,
           SetHighWaterMark(r, i, from), UNCHANGED <<inbox, links>>,
           from <= i, i \in Id \/ from = i,
           \A j \in inbox[r] : from < j /\ j <= i => Linked(j, r)
    PROVE  [PolledFeed!FeedNext]_(PolledFeed!feedVars)
<1> USE DEF Mark, NoMark, Id
<1>1. /\ mark \in [Role -> Mark] /\ floor \in [Role -> Mark] /\ MaxId \in Nat
      /\ inbox \in [Role -> SUBSET Id]
  BY PollAssumption DEF TypeOK
<1>2. Held' = Held
  BY DEF Held, Linked
<1>3. \A j \in inbox[r] : Linked(j, r) => j \in Held[r]
  BY <1>1 DEF Held
<1>4. CASE from > mark[r]
  <2>1. from \in Id \cup {0}
    BY <1>1, <1>4
  <2>2. mark' = [mark EXCEPT ![r] = i] /\ floor' = [floor EXCEPT ![r] = from]
    <3>1. i > mark[r]
      BY <1>1, <1>4
    <3> QED
      BY <1>4, <3>1 DEF SetHighWaterMark
  <2>3. PolledFeed!StartFrom(r, from, i)
    BY <1>2, <1>3, <1>4, <2>2 DEF PolledFeed!StartFrom, Held
  <2> QED
    BY <2>1, <2>3 DEF PolledFeed!FeedNext
<1>5. CASE ~(from > mark[r]) /\ i > mark[r]
  <2>1. i \in Id
    BY <1>5
  <2>2. mark' = [mark EXCEPT ![r] = i] /\ floor' = floor
    BY <1>1, <1>5 DEF SetHighWaterMark
  <2>3. \A j \in inbox[r] : mark[r] < j /\ j <= i => j \in Held[r]
    BY <1>1, <1>3, <1>5
  <2>4. PolledFeed!MoveUp(r, i)
    BY <1>2, <1>5, <2>2, <2>3 DEF PolledFeed!MoveUp, Held
  <2> QED
    BY <2>1, <2>4 DEF PolledFeed!FeedNext
<1>6. CASE ~(from > mark[r]) /\ ~(i > mark[r])
  BY <1>1, <1>6, FeedStays DEF SetHighWaterMark
<1> QED
  BY <1>4, <1>5, <1>6

\* Every step of polling is a step of Feed, or invisible to it.
LEMMA FeedStep ==
    ASSUME TypeOK, GapInv, [Next]_vars
    PROVE  [PolledFeed!FeedNext]_(PolledFeed!feedVars)
<1>p. ProcessTypeOK
  BY DEF TypeOK, ProcessTypeOK
<1>i. AssignedInv /\ MarkInv /\ SelectionInv /\ HandInv
  BY DEF GapInv
<1>1. ASSUME NEW p \in Poller,
             \/ StartPass(p) \/ ReadMark(p) \/ List(p) \/ MarkPolled(p) \/ TakeBody(p)
             \/ RoleDone(p) \/ InsertMessage(p) \/ Emit(p)
             \/ RoleError(p) \/ PassError(p) \/ Crash(p)
      PROVE  UNCHANGED PolledFeed!feedVars
  <2>1. UNCHANGED <<inbox, links, mark, floor>>
    BY <1>1 DEF StartPass, ReadMark, List, MarkPolled, TakeBody, RoleDone,
       InsertMessage, Emit, RoleError, PassError, Crash, wilma, db
  <2> QED
    BY <2>1, FeedStays
<1>2. ASSUME NEW p \in Poller, AdoptNewest(p)
      PROVE  [PolledFeed!FeedNext]_(PolledFeed!feedVars)
  <2>1. PICK i \in todo[p] : SetHighWaterMark(cur[p], i, i)
    BY <1>2 DEF AdoptNewest
  <2>2. i \in Id /\ i \in Mark /\ cur[p] \in Role /\ i <= i
    BY <1>p DEF ProcessTypeOK, Mark, Id
  <2>3. \A j \in inbox[cur[p]] : ~(i < j /\ j <= i)
    BY <2>2 DEF TypeOK, Id
  <2>4. UNCHANGED <<inbox, links>>
    BY <1>2 DEF AdoptNewest, wilma
  <2> QED
    BY <2>1, <2>2, <2>3, <2>4, FeedMark
<1>3. ASSUME NEW p \in Poller, LinkChild(p)
      PROVE  [PolledFeed!FeedNext]_(PolledFeed!feedVars)
  <2> DEFINE i == row[p].id
             r == cur[p]
  <2>1. /\ links' = links \cup {<<row[p], r>>}
        /\ UNCHANGED <<inbox, mark, floor>> /\ row[p] \in Row /\ r \in Role
    BY <1>3, <1>p DEF LinkChild, ProcessTypeOK, Storing, wilma
  <2>2. i \in Id
    BY <2>1 DEF Row
  <2>3. \A j \in Id, s \in Role : Linked(j, s)' <=> Linked(j, s) \/ (j = i /\ s = r)
    <3> DEFINE new == <<row[p], r>>
    <3>1. new[1] = row[p] /\ new[2] = r
      OBVIOUS
    <3>2. links' = links \cup {new}
      BY <2>1
    <3> HIDE DEF new
    <3> QED
      BY <3>1, <3>2 DEF Linked
  <2>4. Held' = [Held EXCEPT ![r] = @ \cup {i}]
    <3> HIDE DEF i, r
    <3>1. \A s \in Role : {j \in Id : Linked(j, s)'} =
                IF s = r THEN {j \in Id : Linked(j, s)} \cup {i}
                         ELSE {j \in Id : Linked(j, s)}
      BY <2>2, <2>3
    <3>2. Held' = [s \in Role |-> {j \in Id : Linked(j, s)'}]
      BY DEF Held
    <3> QED
      BY <2>1, <3>1, <3>2 DEF Held
  <2>5. PolledFeed!Hold(r, i)
    BY <2>1, <2>4 DEF PolledFeed!Hold, Held
  <2> QED
    BY <2>1, <2>2, <2>5 DEF PolledFeed!FeedNext
<1>4. ASSUME NEW p \in Poller, Advance(p)
      PROVE  [PolledFeed!FeedNext]_(PolledFeed!feedVars)
  <2> DEFINE i == row[p].id
             r == cur[p]
  <2>1. /\ pc[p] = "advance" /\ SetHighWaterMark(r, i, base[p])
        /\ UNCHANGED <<inbox, links>>
    BY <1>4 DEF Advance, wilma
  <2>2. i \in todo[p] /\ (\A j \in todo[p] : i <= j) /\ Linked(i, r)
    BY <2>1, <1>i DEF HandInv, Storing, Least
  <2>3. i \in Id /\ r \in Role /\ base[p] \in Mark
    BY <2>2, <1>p DEF ProcessTypeOK
  <2>4. base[p] < i
    BY <2>1, <2>2, <1>i DEF SelectionInv, Storing
  <2>5. base[p] <= i
    BY <2>3, <2>4 DEF Mark, NoMark, Id
  <2>6. \A j \in inbox[r] : base[p] < j /\ j <= i => Linked(j, r)
    <3> HIDE DEF i
    <3> SUFFICES ASSUME NEW j \in inbox[r], base[p] < j, j <= i
                 PROVE  Linked(j, r)
      OBVIOUS
    <3>1. j \in todo[p] \/ Linked(j, r)
      BY <2>1, <2>2, <1>i DEF SelectionInv, Storing
    <3>2. j \in todo[p] => j = i
      BY <2>2, <2>3 DEF TypeOK, Id
    <3> QED
      BY <2>2, <3>1, <3>2
  <2> HIDE DEF i, r
  <2> QED
    BY <2>1, <2>3, <2>5, <2>6, FeedMark
<1>5. ASSUME UNCHANGED <<links, mark, floor>>, inbox' \in [Role -> SUBSET Id],
             \A r \in Role : \A i \in inbox'[r] \ inbox[r] : i <= floor[r] \/ i > mark[r]
      PROVE  [PolledFeed!FeedNext]_(PolledFeed!feedVars)
  BY <1>5 DEF PolledFeed!FeedNext, PolledFeed!Deliver, Linked
<1>6. CASE Arrive
  <2>1. TypeOK'
    BY TypeStep
  <2>2. /\ newest' = newest + 1 /\ UNCHANGED <<links, mark, floor>>
        /\ \A r \in Role : \A i \in inbox'[r] \ inbox[r] : i = newest'
    <3>1. PICK to \in (SUBSET Role) \ {{}} :
             inbox' = [r \in Role |-> IF r \in to THEN inbox[r] \cup {newest'}
                                                 ELSE inbox[r]]
      BY <1>6 DEF Arrive
    <3>2. \A r \in Role : inbox'[r] \subseteq inbox[r] \cup {newest'}
      BY <3>1
    <3> QED
      BY <1>6, <3>2 DEF Arrive, db
  <2>3. newest \in Nat /\ \A r \in Role : mark[r] \in Int /\ floor[r] \in Int
    <3>1. Mark \subseteq Int
      BY DEF Mark, NoMark, Id
    <3>2. newest \in Nat
      BY PollAssumption DEF TypeOK
    <3>3. \A r \in Role : mark[r] \in Mark /\ floor[r] \in Mark
      BY DEF TypeOK
    <3> QED
      BY <3>1, <3>2, <3>3
  <2>4. \A r \in Role : newest' <= floor[r] \/ newest' > mark[r]
    BY <2>2, <2>3, <1>i DEF MarkInv
  <2>5. inbox' \in [Role -> SUBSET Id]
    BY <2>1 DEF TypeOK
  <2> QED
    BY <2>2, <2>4, <2>5, <1>5
<1>7. ASSUME NEW r \in Role, NEW i \in Archivable, Archive(r, i)
      PROVE  [PolledFeed!FeedNext]_(PolledFeed!feedVars)
  <2>1. /\ UNCHANGED <<links, mark, floor>> /\ inbox' \in [Role -> SUBSET Id]
        /\ \A s \in Role : inbox'[s] \ inbox[s] = {}
    BY <1>7 DEF Archive, db, TypeOK
  <2> QED
    BY <2>1, <1>5
<1>8. CASE Age \/ (\E i \in Id, b \in Body : Edit(i, b)) \/ UNCHANGED vars
  BY <1>8, FeedStays DEF Age, Edit, vars, wilma, db
<1>9. ASSUME NEW r \in Role, NEW i \in OperatorIds, SetLastID(r, i)
      PROVE  [PolledFeed!FeedNext]_(PolledFeed!feedVars)
  <2>1. i \in Id \cup {0} /\ i \in Mark /\ i <= i
    BY PollAssumption DEF Mark, Id
  <2>2. \A j \in inbox[r] : ~(i < j /\ j <= i)
    BY <2>1 DEF TypeOK, Id
  <2>3. SetHighWaterMark(r, i, i) /\ UNCHANGED <<inbox, links>>
    BY <1>9 DEF SetLastID, wilma
  <2> QED
    BY <2>1, <2>2, <2>3, FeedMark
<1> QED
  BY <1>1, <1>2, <1>3, <1>4, <1>6, <1>7, <1>8, <1>9
     DEF Next, PassStep, Environment, Operator

\* Polling implements Feed: the mark moves only over messages that are held,
\* and only a start from above it may leave messages behind.
THEOREM PollImplementsFeed == Spec => ImplementsFeed
<1>1. Init => PolledFeed!FeedInit
  BY DEF Init, PolledFeed!FeedInit, Linked, NoMark
<1>2. Init => GapInv
  BY DEF Init, GapInv, AssignedInv, MarkInv, ListInv, SelectionInv, HandInv,
         Contiguous, Storing, NoMark
<1>3. QED
  BY <1>1, <1>2, GapStep, FeedStep, TypeCorrect, PTL
     DEF Spec, ImplementsFeed, PolledFeed!FeedSpec

-----------------------------------------------------------------------------
(* A single poller never restarts a role's history.                         *)

\* Nobody but the one process moves the marks.
Alone == OperatorIds = {} /\ \A p, q \in Poller : p = q

\* The mark read at the start of the role is still the recorded one when the
\* role's branch is taken, and the selection then starts at or below the mark,
\* or there is no mark yet.
HistoryInv ==
    \A p \in Poller :
        /\ pc[p] \in {"list", "select", "fromnow"} => seen[p] = mark[cur[p]]
        /\ pc[p] = "fromnow" => seen[p] = NoMark
        /\ pc[p] \in {"body"} \cup Storing =>
              mark[cur[p]] = NoMark \/ base[p] <= mark[cur[p]]

HistoryStays ==
    \A r \in Role : mark[r] # NoMark => floor'[r] = floor[r] /\ mark'[r] >= mark[r]

LEMMA MarksAreNumbers ==
    ASSUME TypeOK
    PROVE  \A r \in Role : mark[r] \in Int /\ mark[r] >= NoMark
BY PollAssumption DEF TypeOK, Mark, NoMark, Id

LEMMA HistoryStep ==
    Alone /\ TypeOK /\ GapInv /\ HistoryInv /\ [Next]_vars => HistoryInv' /\ HistoryStays
<1> SUFFICES ASSUME Alone, TypeOK, GapInv, HistoryInv, [Next]_vars
             PROVE  HistoryInv' /\ HistoryStays
  OBVIOUS
<1> USE DEF GoTo
<1>p. ProcessTypeOK
  BY DEF TypeOK, ProcessTypeOK
<1>m. UNCHANGED <<mark, floor>> => HistoryStays
  BY MarksAreNumbers DEF HistoryStays
<1>a. \A p, q \in Poller : p = q
  BY DEF Alone
<1>1. ASSUME NEW p \in Poller, StartPass(p) \/ ReadMark(p) \/ List(p) \/ TakeBody(p)
      PROVE  HistoryInv' /\ HistoryStays
  <2>1. UNCHANGED <<mark, floor, cur, base>>
    BY <1>1 DEF StartPass, ReadMark, List, TakeBody, db
  <2>2. \/ pc'[p] = "mark"
        \/ pc'[p] = "list" /\ seen'[p] = mark[cur[p]]
        \/ pc[p] = "list" /\ pc'[p] = "select" /\ seen'[p] = seen[p]
        \/ pc[p] = "body" /\ pc'[p] = "insert"
    BY <1>1, <1>p DEF StartPass, ReadMark, List, TakeBody, ProcessTypeOK
  <2>3. HistoryInv'
    BY <2>1, <2>2, <1>a DEF HistoryInv, Storing
  <2> QED
    BY <2>1, <2>3, <1>m
<1>2. ASSUME NEW p \in Poller, EndRole(p) \/ EndPass(p)
      PROVE  HistoryInv'
  <2>1. pc'[p] \in {"idle", "mark"}
    BY <1>2, <1>p, EndRoleLeaves, EndPassLeaves DEF Left
  <2> QED
    BY <2>1, <1>a DEF HistoryInv, Storing
<1>3. ASSUME NEW p \in Poller, MarkPolled(p)
      PROVE  HistoryInv' /\ HistoryStays
  <2>1. pc[p] = "select" /\ Select(p) /\ UNCHANGED <<mark, floor>>
    BY <1>3 DEF MarkPolled
  <2>2. \/ EndRole(p)
        \/ pc'[p] = "fromnow" /\ seen[p] = NoMark /\ UNCHANGED <<cur, seen>>
        \/ /\ pc'[p] = "body" /\ UNCHANGED cur
           /\ seen[p] # NoMark => base'[p] = seen[p]
    BY <2>1, <1>p DEF Select, ProcessTypeOK
  <2>3. seen[p] = mark[cur[p]] /\ mark[cur[p]] \in Int
    BY <2>1, <1>p, MarksAreNumbers DEF HistoryInv, ProcessTypeOK
  <2>4. CASE pc'[p] = "fromnow" /\ seen[p] = NoMark /\ UNCHANGED <<cur, seen>>
    BY <2>1, <2>3, <2>4, <1>a, <1>m DEF HistoryInv, Storing
  <2>5. CASE /\ pc'[p] = "body" /\ UNCHANGED cur
             /\ seen[p] # NoMark => base'[p] = seen[p]
    <3>1. mark'[cur'[p]] = NoMark \/ base'[p] <= mark'[cur'[p]]
      BY <2>1, <2>3, <2>5
    <3> QED
      BY <2>1, <2>5, <3>1, <1>a, <1>m DEF HistoryInv, Storing
  <2> QED
    BY <2>1, <2>2, <2>4, <2>5, <1>2, <1>m
<1>4. ASSUME NEW p \in Poller, AdoptNewest(p)
      PROVE  HistoryInv' /\ HistoryStays
  <2>1. mark[cur[p]] = NoMark
    BY <1>4 DEF AdoptNewest, HistoryInv
  <2>2. PICK i \in todo[p] : SetHighWaterMark(cur[p], i, i)
    BY <1>4 DEF AdoptNewest
  <2>3. \A r \in Role : r # cur[p] => mark'[r] = mark[r] /\ floor'[r] = floor[r]
    BY <2>2 DEF SetHighWaterMark, TypeOK
  <2>4. HistoryStays
    BY <2>1, <2>3, MarksAreNumbers DEF HistoryStays
  <2> QED
    BY <1>4, <2>4, <1>2 DEF AdoptNewest
<1>5. ASSUME NEW p \in Poller, RoleDone(p) \/ RoleError(p) \/ PassError(p) \/ Crash(p)
      PROVE  HistoryInv' /\ HistoryStays
  <2>1. UNCHANGED <<mark, floor>>
    BY <1>5 DEF RoleDone, RoleError, PassError, Crash, db
  <2> QED
    BY <1>5, <2>1, <1>2, <1>m DEF RoleDone, RoleError, PassError, Crash
<1>6. ASSUME NEW p \in Poller, InsertMessage(p) \/ LinkChild(p) \/ Emit(p)
      PROVE  HistoryInv' /\ HistoryStays
  <2>1. /\ UNCHANGED <<mark, floor, cur, base>>
        /\ pc[p] \in Storing /\ pc'[p] \in Storing
    BY <1>6, <1>p DEF InsertMessage, LinkChild, Emit, ProcessTypeOK, Storing, db
  <2>2. HistoryInv'
    BY <2>1, <1>a DEF HistoryInv, Storing
  <2> QED
    BY <2>1, <2>2, <1>m
<1>7. ASSUME NEW p \in Poller, Advance(p)
      PROVE  HistoryInv' /\ HistoryStays
  <2> DEFINE r == cur[p]
             i == row[p].id
  <2>1. /\ pc[p] = "advance" /\ SetHighWaterMark(r, i, base[p])
        /\ pc'[p] = "body" /\ UNCHANGED <<cur, base>>
    BY <1>7, <1>p DEF Advance, ProcessTypeOK
  <2>2. r \in Role /\ i \in Id /\ base[p] \in Mark
    BY <2>1, <1>p DEF ProcessTypeOK, Storing, Row
  <2>3. base[p] < i
    BY <2>1 DEF GapInv, SelectionInv, HandInv, Storing, Least
  <2>4. mark[r] = NoMark \/ base[p] <= mark[r]
    BY <2>1 DEF HistoryInv, Storing
  <2> HIDE DEF i
  <2>5. i \in Int /\ base[p] \in Int /\ i > NoMark /\ mark[r] \in Int
    BY <2>2, MarksAreNumbers DEF Mark, Id, NoMark
  <2>6. /\ mark'[r] = IF i > mark[r] THEN i ELSE mark[r]
        /\ floor'[r] = IF base[p] > mark[r] THEN base[p] ELSE floor[r]
        /\ \A s \in Role : s # r => mark'[s] = mark[s] /\ floor'[s] = floor[s]
    BY <2>1, <2>2 DEF SetHighWaterMark, TypeOK
  <2>7. base[p] <= mark'[r]
    BY <2>3, <2>4, <2>5, <2>6
  <2>8. mark[r] # NoMark => floor'[r] = floor[r] /\ mark'[r] >= mark[r]
    BY <2>4, <2>5, <2>6
  <2>9. HistoryInv'
    BY <2>1, <2>7, <1>a DEF HistoryInv, Storing
  <2>10. HistoryStays
    BY <2>6, <2>8, MarksAreNumbers DEF HistoryStays
  <2> QED
    BY <2>9, <2>10
<1>8. CASE Environment \/ UNCHANGED vars
  <2>1. UNCHANGED <<mark, floor, pc, cur, seen, base>>
    BY <1>8 DEF Environment, Arrive, Age, Archive, Edit, vars, db, process
  <2>2. HistoryInv'
    BY <2>1 DEF HistoryInv
  <2> QED
    BY <2>1, <2>2, <1>m
<1>9. ~Operator
  BY DEF Alone, Operator
<1> QED
  BY <1>1, <1>3, <1>4, <1>5, <1>6, <1>7, <1>8, <1>9 DEF Next, PassStep

\* The bootstrap window and --from-now count only for a role's first ever poll:
\* where one process polls and the operator moves no mark, no pass, however it
\* was started or ended, restarts a role's history or lowers its mark.
THEOREM HistoryKept == Alone /\ Spec => HistoryNeverRestarted
<1> SUFFICES ASSUME Alone
             PROVE  Spec => HistoryNeverRestarted
  OBVIOUS
<1>1. Init => GapInv /\ HistoryInv
  BY DEF Init, GapInv, AssignedInv, MarkInv, ListInv, SelectionInv, HandInv,
         Contiguous, HistoryInv, Storing, NoMark
<1>2. TypeOK /\ GapInv /\ HistoryInv /\ [Next]_vars =>
        /\ HistoryInv'
        /\ \A r \in Role : mark[r] # NoMark => floor'[r] = floor[r] /\ mark'[r] >= mark[r]
  BY HistoryStep DEF HistoryStays
<1>3. QED
  BY <1>1, <1>2, GapStep, TypeCorrect, PTL DEF Spec, HistoryNeverRestarted
-----------------------------------------------------------------------------
(* What a pass hands to --emit-new, and the bodies it stores.               *)

\* The cache holds one page per message, and what is stored comes from it.
CacheInv ==
    /\ OneBodyPerPass
    /\ \A p \in Poller : \A k \in cache[p] : k.body \in Body

\* Rows come before links, links before the stream and the mark.
StoredInv ==
    /\ \A l \in links : l[1] \in rows
    /\ \A p \in Poller :
          /\ pc[p] \in {"link", "emit", "advance"} => row[p] \in rows
          /\ pc[p] \in {"emit", "advance"} => <<row[p], cur[p]>> \in links
    /\ EmittedIsStored

Emitted(w) == \E j \in DOMAIN out : out[j] = w
InHand(w) == \E p \in Poller : fresh[p] /\ row[p] = w

\* While nothing has failed, a process that is past Emit has emitted, and every
\* row is in the stream or in the hands of the process that made it.
MissedInv ==
    faults = 0 /\ (\A f \in Flags : f.emit) =>
        /\ \A p \in Poller : pc[p] = "advance" => ~fresh[p]
        /\ \A w \in rows : Emitted(w) \/ InHand(w)

-----------------------------------------------------------------------------
(* Steps that change little.                                                *)

LEMMA CacheQuiet ==
    ASSUME CacheInv,
           \A q \in Poller :
              /\ cache'[q] \subseteq cache[q]
              /\ \/ pc'[q] \notin Storing
                 \/ /\ pc[q] \in Storing
                    /\ cache'[q] = cache[q] /\ row'[q] = row[q] /\ opt'[q] = opt[q]
    PROVE  CacheInv'
<1>1. \A q \in Poller : \A k, l \in cache'[q] : k.id = l.id => k = l
  BY DEF CacheInv, OneBodyPerPass
<1>2. \A q \in Poller : pc'[q] \in Storing /\ opt'[q].bodies => row'[q] \in cache'[q]
  BY DEF CacheInv, OneBodyPerPass
<1> QED
  BY <1>1, <1>2 DEF CacheInv, OneBodyPerPass

LEMMA StoredQuiet ==
    ASSUME StoredInv, UNCHANGED <<rows, links, out>>,
           \A q \in Poller :
              \/ pc'[q] \notin {"link", "emit", "advance"}
              \/ pc'[q] = pc[q] /\ row'[q] = row[q] /\ cur'[q] = cur[q]
    PROVE  StoredInv'
BY DEF StoredInv, EmittedIsStored

LEMMA MissedQuiet ==
    ASSUME MissedInv, UNCHANGED <<rows, out>>, faults' = 0 => faults = 0,
           \A q \in Poller :
              \/ ~fresh[q] /\ ~fresh'[q]
              \/ fresh'[q] = fresh[q] /\ pc'[q] = pc[q] /\ row'[q] = row[q]
    PROVE  MissedInv'
<1> SUFFICES ASSUME faults = 0, \A f \in Flags : f.emit
             PROVE  /\ \A p \in Poller : pc'[p] = "advance" => ~fresh'[p]
                    /\ \A w \in rows : Emitted(w)' \/ InHand(w)'
  BY DEF MissedInv
<1>1. \A w : Emitted(w) => Emitted(w)'
  BY DEF Emitted
<1>2. \A w : InHand(w) => InHand(w)'
  BY DEF InHand
<1> QED
  BY <1>1, <1>2 DEF MissedInv

\* A process that leaves its role holds no message, and drops its cache or
\* keeps it.
LEMMA LeavesStream ==
    ASSUME ProcessTypeOK, NEW p \in Poller, EndRole(p) \/ EndPass(p)
    PROVE  /\ Left(p)
           /\ \A q \in Poller : cache'[q] \subseteq cache[q]
           /\ \A q \in Poller \ {p} : cache'[q] = cache[q] /\ opt'[q] = opt[q]
<1>1. Left(p)
  BY EndRoleLeaves, EndPassLeaves
<1>2. \/ UNCHANGED <<cache, opt>>
      \/ /\ cache' = [cache EXCEPT ![p] = {}]
         /\ opt' = [opt EXCEPT ![p] = AnyFlags]
  BY DEF EndRole, EndPass
<1> QED
  BY <1>1, <1>2 DEF ProcessTypeOK

-----------------------------------------------------------------------------
(* One body per message and pass.                                           *)

LEMMA CacheStep == TypeOK /\ CacheInv /\ [Next]_vars => CacheInv'
<1> SUFFICES ASSUME TypeOK, CacheInv, [Next]_vars
             PROVE  CacheInv'
  OBVIOUS
<1> USE DEF GoTo
<1>p. ProcessTypeOK
  BY DEF TypeOK, ProcessTypeOK
<1>1. ASSUME NEW p \in Poller, StartPass(p) \/ ReadMark(p) \/ List(p)
      PROVE  CacheInv'
  BY <1>1, <1>p, CacheQuiet DEF StartPass, ReadMark, List, ProcessTypeOK, Storing
<1>2. ASSUME NEW p \in Poller, EndRole(p) \/ EndPass(p)
      PROVE  CacheInv'
  BY <1>2, <1>p, CacheQuiet, LeavesStream DEF Left, ProcessTypeOK, Storing
<1>3. ASSUME NEW p \in Poller, MarkPolled(p)
      PROVE  CacheInv'
  <2>1. CASE EndRole(p)
    BY <2>1, <1>2
  <2>2. CASE ~EndRole(p)
    <3>1. /\ pc' = [pc EXCEPT ![p] = "fromnow"] \/ pc' = [pc EXCEPT ![p] = "body"]
          /\ UNCHANGED <<cache, row, opt>>
      BY <1>3, <2>2 DEF MarkPolled, Select
    <3> QED
      BY <3>1, <1>p, CacheQuiet DEF ProcessTypeOK, Storing
  <2> QED
    BY <2>1, <2>2
<1>4. ASSUME NEW p \in Poller,
             AdoptNewest(p) \/ RoleDone(p) \/ RoleError(p) \/ PassError(p) \/ Crash(p)
      PROVE  CacheInv'
  BY <1>4, <1>2 DEF AdoptNewest, RoleDone, RoleError, PassError, Crash
<1>5. ASSUME NEW p \in Poller, TakeBody(p)
      PROVE  CacheInv'
  <2>1. /\ pc' = [pc EXCEPT ![p] = "insert"] /\ opt' = opt
        /\ \A q \in Poller \ {p} : pc'[q] = pc[q]
    BY <1>5, <1>p DEF TakeBody, ProcessTypeOK
  <2>2. PICK i \in todo[p] :
          \/ ~opt[p].bodies /\ UNCHANGED cache
             /\ row' = [row EXCEPT ![p] = [id |-> i, body |-> NoBody]]
          \/ \E b \in Body : /\ [id |-> i, body |-> b] \in cache[p]
                             /\ row' = [row EXCEPT ![p] = [id |-> i, body |-> b]]
                             /\ UNCHANGED cache
          \/ /\ ~Cached(p, i)
             /\ row' = [row EXCEPT ![p] = [id |-> i, body |-> shown[i]]]
             /\ cache' = [cache EXCEPT ![p] = @ \cup {row'[p]}]
    BY <1>5 DEF TakeBody
  <2>3. i \in Id /\ shown[i] \in Body
    BY <1>p DEF TypeOK, ProcessTypeOK
  <2>4. \A q \in Poller \ {p} : cache'[q] = cache[q] /\ row'[q] = row[q]
    BY <2>2, <1>p DEF ProcessTypeOK
  <2>5. opt[p].bodies => row'[p] \in cache'[p]
    BY <2>2, <1>p DEF ProcessTypeOK
  <2>6. (\A k, l \in cache'[p] : k.id = l.id => k = l) /\ \A k \in cache'[p] : k.body \in Body
    <3>1. CASE UNCHANGED cache
      BY <3>1 DEF CacheInv, OneBodyPerPass
    <3>2. ASSUME ~Cached(p, i), cache' = [cache EXCEPT ![p] = @ \cup {row'[p]}],
                 row' = [row EXCEPT ![p] = [id |-> i, body |-> shown[i]]]
          PROVE  /\ \A k, l \in cache'[p] : k.id = l.id => k = l
                 /\ \A k \in cache'[p] : k.body \in Body
      <4> DEFINE w == [id |-> i, body |-> shown[i]]
      <4>1. cache'[p] = cache[p] \cup {w} /\ w.id = i /\ w.body \in Body
        BY <3>2, <2>3, <1>p DEF ProcessTypeOK
      <4>2. \A k \in cache[p] : k = [id |-> k.id, body |-> k.body] /\ k.body \in Body
        BY <1>p DEF ProcessTypeOK, Row, CacheInv
      <4>3. \A k \in cache[p] : k.id # i
        BY <3>2, <4>2 DEF Cached
      <4>4. \A k, l \in cache[p] : k.id = l.id => k = l
        BY DEF CacheInv, OneBodyPerPass
      <4> HIDE DEF w
      <4> QED
        BY <4>1, <4>2, <4>3, <4>4
    <3> QED
      BY <2>2, <3>1, <3>2
  <2>7. \A q \in Poller : \A k, l \in cache'[q] : k.id = l.id => k = l
    BY <2>4, <2>6 DEF CacheInv, OneBodyPerPass
  <2>8. \A q \in Poller : pc'[q] \in Storing /\ opt'[q].bodies => row'[q] \in cache'[q]
    BY <2>1, <2>4, <2>5 DEF CacheInv, OneBodyPerPass
  <2>9. \A q \in Poller : \A k \in cache'[q] : k.body \in Body
    BY <2>4, <2>6 DEF CacheInv
  <2> QED
    BY <2>7, <2>8, <2>9 DEF CacheInv, OneBodyPerPass
<1>6. ASSUME NEW p \in Poller, InsertMessage(p) \/ LinkChild(p) \/ Emit(p)
      PROVE  CacheInv'
  BY <1>6, <1>p, CacheQuiet DEF InsertMessage, LinkChild, Emit, ProcessTypeOK, Storing
<1>7. ASSUME NEW p \in Poller, Advance(p)
      PROVE  CacheInv'
  BY <1>7, <1>p, CacheQuiet DEF Advance, ProcessTypeOK, Storing
<1>8. CASE Environment \/ Operator \/ UNCHANGED vars
  <2>1. UNCHANGED process
    BY <1>8 DEF Environment, Arrive, Age, Archive, Edit, Operator, SetLastID, vars
  <2> QED
    BY <2>1, CacheQuiet DEF process
<1> QED
  BY <1>1, <1>3, <1>4, <1>5, <1>6, <1>7, <1>8 DEF Next, PassStep

\* A message two children share is stored under one body by a pass, even if its
\* page changes between the roles.
THEOREM OneBody == Spec => []OneBodyPerPass
<1>1. Init => CacheInv
  BY DEF Init, CacheInv, OneBodyPerPass, Storing
<1>2. CacheInv => OneBodyPerPass
  BY DEF CacheInv
<1>3. QED
  BY <1>1, <1>2, CacheStep, TypeCorrect, PTL DEF Spec

-----------------------------------------------------------------------------
(* What is in the stream is stored, and what is stored is in the stream.    *)

StreamInv == StoredInv /\ MissedInv

LEMMA StreamStep == TypeOK /\ EmitInv /\ StreamInv /\ [Next]_vars => StreamInv'
<1> SUFFICES ASSUME TypeOK, EmitInv, StreamInv, [Next]_vars
             PROVE  StreamInv'
  OBVIOUS
<1> USE DEF GoTo
<1>p. ProcessTypeOK
  BY DEF TypeOK, ProcessTypeOK
<1>i. /\ StoredInv /\ MissedInv
      /\ \A p \in Poller : pc[p] \notin {"link", "emit", "advance"} => ~fresh[p]
  BY DEF StreamInv, EmitInv, FreshInv
<1>f. faults \in Nat
  BY PollAssumption DEF TypeOK
<1>1. ASSUME NEW p \in Poller, StartPass(p) \/ ReadMark(p) \/ List(p) \/ TakeBody(p)
      PROVE  StreamInv'
  <2>1. /\ UNCHANGED <<rows, links, out, faults, fresh, cur>>
        /\ pc[p] \notin {"link", "emit", "advance"}
        /\ pc'[p] \notin {"link", "emit", "advance"}
        /\ \A q \in Poller \ {p} : pc'[q] = pc[q] /\ row'[q] = row[q]
    <3>1. CASE StartPass(p) \/ ReadMark(p) \/ List(p)
      BY <3>1, <1>p DEF StartPass, ReadMark, List, ProcessTypeOK, db
    <3>2. CASE TakeBody(p)
      BY <3>2, <1>p DEF TakeBody, ProcessTypeOK, db
    <3> QED
      BY <1>1, <3>1, <3>2
  <2>2. StoredInv'
    BY <2>1, <1>i, StoredQuiet
  <2>3. MissedInv'
    BY <2>1, <1>i, MissedQuiet
  <2> QED
    BY <2>2, <2>3 DEF StreamInv
<1>2. ASSUME NEW p \in Poller, Left(p), UNCHANGED <<rows, links, out>>,
             \/ faults' = faults /\ pc[p] \notin {"link", "emit", "advance"}
             \/ faults' = faults + 1
      PROVE  StreamInv'
  <2>1. StoredInv'
    BY <1>2, <1>i, StoredQuiet DEF Left
  <2>2. CASE faults' = faults /\ pc[p] \notin {"link", "emit", "advance"}
    BY <2>1, <2>2, <1>2, <1>i, MissedQuiet DEF Left, StreamInv
  <2>3. CASE faults' = faults + 1
    BY <2>1, <2>3, <1>f DEF StreamInv, MissedInv
  <2> QED
    BY <1>2, <2>2, <2>3
<1>3. ASSUME NEW p \in Poller, MarkPolled(p)
      PROVE  StreamInv'
  <2>1. /\ pc[p] = "select" /\ Select(p) /\ UNCHANGED <<rows, links, out>>
        /\ faults' = faults \/ faults' = faults + 1
    BY <1>3 DEF MarkPolled
  <2>2. CASE EndRole(p)
    BY <2>1, <2>2, <1>2, <1>p, EndRoleLeaves
  <2>3. CASE ~EndRole(p)
    <3>1. /\ pc'[p] \in {"fromnow", "body"} /\ UNCHANGED <<row, fresh, cur>>
          /\ \A q \in Poller \ {p} : pc'[q] = pc[q]
      BY <2>1, <2>3, <1>p DEF Select, ProcessTypeOK
    <3>2. StoredInv'
      BY <2>1, <3>1, <1>i, StoredQuiet
    <3>3. faults' = 0 => faults = 0
      BY <2>1, <1>f
    <3>4. MissedInv'
      BY <2>1, <3>1, <3>3, <1>i, MissedQuiet
    <3> QED
      BY <3>2, <3>4 DEF StreamInv
  <2> QED
    BY <2>2, <2>3
<1>4. ASSUME NEW p \in Poller,
             AdoptNewest(p) \/ RoleDone(p) \/ RoleError(p) \/ PassError(p) \/ Crash(p)
      PROVE  StreamInv'
  <2>1. Left(p) /\ UNCHANGED <<rows, links, out>>
    BY <1>4, <1>p, EndRoleLeaves, EndPassLeaves
       DEF AdoptNewest, RoleDone, RoleError, PassError, Crash, db
  <2>2. \/ faults' = faults /\ pc[p] \notin {"link", "emit", "advance"}
        \/ faults' = faults + 1
    BY <1>4 DEF AdoptNewest, RoleDone, RoleError, PassError, Crash
  <2> QED
    BY <2>1, <2>2, <1>2
<1>5. ASSUME NEW p \in Poller, InsertMessage(p)
      PROVE  StreamInv'
  <2>1. /\ pc[p] = "insert" /\ pc'[p] = "link" /\ fresh'[p] = (row[p] \notin rows)
        /\ \A q \in Poller \ {p} : pc'[q] = pc[q] /\ fresh'[q] = fresh[q]
        /\ rows' = rows \cup {row[p]} /\ UNCHANGED <<links, row, cur, out, faults>>
    BY <1>5, <1>p DEF InsertMessage, ProcessTypeOK
  <2>2. StoredInv'
    BY <2>1, <1>i DEF StoredInv, EmittedIsStored
  <2>3. ~fresh[p]
    BY <2>1, <1>i
  <2>4. ASSUME faults = 0, \A f \in Flags : f.emit
        PROVE  /\ \A q \in Poller : pc'[q] = "advance" => ~fresh'[q]
               /\ \A w \in rows' : Emitted(w)' \/ InHand(w)'
    <3>1. \A w : Emitted(w) => Emitted(w)'
      BY <2>1 DEF Emitted
    <3>2. \A w : InHand(w) => InHand(w)'
      BY <2>1, <2>3 DEF InHand
    <3>3. row[p] \in rows \/ InHand(row[p])'
      BY <2>1 DEF InHand
    <3> QED
      BY <2>1, <2>4, <3>1, <3>2, <3>3, <1>i DEF MissedInv
  <2>5. MissedInv'
    BY <2>1, <2>4 DEF MissedInv
  <2> QED
    BY <2>2, <2>5 DEF StreamInv
<1>6. ASSUME NEW p \in Poller, LinkChild(p)
      PROVE  StreamInv'
  <2>1. /\ pc[p] = "link" /\ pc'[p] \in {"emit", "advance"}
        /\ pc'[p] = "advance" => ~fresh[p] \/ ~opt[p].emit
        /\ \A q \in Poller \ {p} : pc'[q] = pc[q]
        /\ links' = links \cup {<<row[p], cur[p]>>}
        /\ UNCHANGED <<rows, row, cur, fresh, out, faults>>
    BY <1>6, <1>p DEF LinkChild, ProcessTypeOK
  <2>2. row[p] \in rows
    BY <2>1, <1>i DEF StoredInv
  <2>3. StoredInv'
    <3>1. \A l \in links' : l[1] \in rows
      BY <2>1, <2>2, <1>i DEF StoredInv
    <3>2. links \subseteq links' /\ <<row[p], cur[p]>> \in links'
      BY <2>1
    <3>3. \A q \in Poller :
             /\ pc'[q] \in {"link", "emit", "advance"} => row[q] \in rows
             /\ pc'[q] \in {"emit", "advance"} => <<row[q], cur[q]>> \in links'
      BY <2>1, <2>2, <3>2, <1>i DEF StoredInv
    <3>4. EmittedIsStored'
      BY <2>1, <3>2, <1>i DEF StoredInv, EmittedIsStored
    <3> QED
      BY <2>1, <3>1, <3>3, <3>4 DEF StoredInv
  <2>4. (\A f \in Flags : f.emit) => opt[p].emit
    BY <1>p DEF ProcessTypeOK
  <2>5. MissedInv'
    BY <2>1, <2>4, <1>i DEF MissedInv, Emitted, InHand
  <2> QED
    BY <2>3, <2>5 DEF StreamInv
<1>7. ASSUME NEW p \in Poller, Emit(p)
      PROVE  StreamInv'
  <2>1. /\ pc[p] = "emit" /\ pc'[p] = "advance" /\ ~fresh'[p]
        /\ \A q \in Poller \ {p} : pc'[q] = pc[q] /\ fresh'[q] = fresh[q]
        /\ out' = Append(out, row[p]) /\ UNCHANGED <<rows, links, row, cur, faults>>
    BY <1>7, <1>p DEF Emit, ProcessTypeOK, db
  <2>2. row[p] \in rows /\ <<row[p], cur[p]>> \in links /\ cur[p] \in Role
    BY <2>1, <1>i, <1>p DEF StoredInv, ProcessTypeOK
  <2>3. /\ Len(out) \in Nat /\ DOMAIN out = 1 .. Len(out)
        /\ DOMAIN out' = 1 .. Len(out) + 1
        /\ \A j \in DOMAIN out : out'[j] = out[j]
        /\ out'[Len(out) + 1] = row[p]
    BY <2>1 DEF TypeOK, Storing
  <2>4. \A j \in DOMAIN out' : out'[j] = row[p] \/ \E k \in DOMAIN out : out'[j] = out[k]
    BY <2>3
  <2>5. EmittedIsStored'
    BY <2>1, <2>2, <2>4, <1>i DEF StoredInv, EmittedIsStored
  <2>6. StoredInv'
    BY <2>1, <2>2, <2>5, <1>i DEF StoredInv
  <2>7. \E j \in DOMAIN out' : out'[j] = row[p]
    <3>1. Len(out) + 1 \in DOMAIN out'
      BY <2>3
    <3> QED
      BY <2>3, <3>1
  <2>8. \A w : Emitted(w) => Emitted(w)'
    BY <2>3 DEF Emitted
  <2>9. \A w : InHand(w) => InHand(w)' \/ w = row[p]
    BY <2>1 DEF InHand
  <2>10. MissedInv'
    BY <2>1, <2>7, <2>8, <2>9, <1>i DEF MissedInv, Emitted
  <2> QED
    BY <2>6, <2>10 DEF StreamInv
<1>8. ASSUME NEW p \in Poller, Advance(p)
      PROVE  StreamInv'
  <2>1. /\ pc[p] = "advance" /\ pc'[p] = "body" /\ ~fresh'[p]
        /\ \A q \in Poller \ {p} :
              pc'[q] = pc[q] /\ fresh'[q] = fresh[q] /\ row'[q] = row[q]
        /\ UNCHANGED <<rows, links, out, cur, faults>>
    BY <1>8, <1>p DEF Advance, ProcessTypeOK
  <2>2. StoredInv'
    BY <2>1, <1>i, StoredQuiet
  <2>3. CASE fresh[p]
    <3>1. ~(faults = 0 /\ \A f \in Flags : f.emit)
      BY <2>1, <2>3, <1>i DEF MissedInv
    <3>2. MissedInv'
      BY <2>1, <3>1 DEF MissedInv
    <3> QED
      BY <2>2, <3>2 DEF StreamInv
  <2>4. CASE ~fresh[p]
    BY <2>1, <2>2, <2>4, <1>i, MissedQuiet DEF StreamInv
  <2> QED
    BY <2>3, <2>4
<1>9. CASE Environment \/ Operator \/ UNCHANGED vars
  <2>1. UNCHANGED <<rows, links, out, faults, pc, fresh, row, cur>>
    BY <1>9 DEF Environment, Arrive, Age, Archive, Edit, Operator, SetLastID, vars,
                db, process
  <2>2. StoredInv'
    BY <2>1, <1>i, StoredQuiet
  <2>3. MissedInv'
    BY <2>1, <1>i, MissedQuiet
  <2> QED
    BY <2>2, <2>3 DEF StreamInv
<1> QED
  BY <1>1, <1>3, <1>4, <1>5, <1>6, <1>7, <1>8, <1>9 DEF Next, PassStep

LEMMA StreamInit == Init => EmitInv /\ StreamInv
BY DEF Init, EmitInv, FreshInv, EmittedOnce, StreamInv, StoredInv, MissedInv,
       EmittedIsStored

\* Nothing is streamed that the database would not show, linked to a child,
\* after a crash right there.
THEOREM StreamIsStored == Spec => []EmittedIsStored
<1>1. StreamInv => EmittedIsStored
  BY DEF StreamInv, StoredInv
<1>2. QED
  BY <1>1, StreamInit, StreamStep, EmitStep, TypeCorrect, PTL DEF Spec

\* As long as nothing fails, no stored message misses the stream.
THEOREM NothingMissed == Spec => []StreamedUnlessFault
<1>1. StreamInv => StreamedUnlessFault
  BY DEF StreamInv, StoredInv, MissedInv, StreamedUnlessFault, Emitted, InHand
<1>2. QED
  BY <1>1, StreamInit, StreamStep, EmitStep, TypeCorrect, PTL DEF Spec

-----------------------------------------------------------------------------
(* That a pass comes to its end.                                            *)

LEMMA IdsFinite ==
    ASSUME NEW S \in SUBSET Id
    PROVE  IsFiniteSet(S) /\ Cardinality(S) \in 0 .. MaxId
<1>1. 1 \in Int /\ MaxId \in Int
  BY PollAssumption
<1>2. IsFiniteSet(Id) /\ Cardinality(Id) = IF 1 > MaxId THEN 0 ELSE MaxId - 1 + 1
  BY <1>1, FS_Interval DEF Id
<1>3. IsFiniteSet(S) /\ Cardinality(S) <= Cardinality(Id) /\ Cardinality(S) \in Nat
  BY <1>2, FS_Subset, FS_CardinalityType
<1>4. Cardinality(Id) = MaxId
  BY <1>2, PollAssumption
<1> QED
  BY <1>3, <1>4, PollAssumption

LEMMA OneIdLess ==
    ASSUME NEW S \in SUBSET Id, NEW i \in S
    PROVE  Cardinality(S \ {i}) = Cardinality(S) - 1 /\ Cardinality(S) # 0
BY IdsFinite, FS_RemoveElement, FS_EmptySet

\* Steps that a pass still has to go in a role, from step s on with t messages
\* left to store: at most five for each, and three to see what there is to do.
StepsFrom(s, t) ==
    CASE s = "mark"    -> 5 * MaxId + 3
      [] s = "list"    -> 5 * MaxId + 2
      [] s = "select"  -> 5 * MaxId + 1
      [] s = "body"    -> 5 * t
      [] s = "insert"  -> 5 * t - 1
      [] s = "link"    -> 5 * t - 2
      [] s = "emit"    -> 5 * t - 3
      [] s = "advance" -> 5 * t - 4
      [] OTHER         -> 0

StepsInRole(p) == StepsFrom(pc[p], Cardinality(todo[p]))

\* The pass is over, or at its next role, or nearer to the end of its role.
Forward(p) ==
    \/ pc'[p] = "idle"
    \/ cur'[p] > cur[p]
    \/ cur'[p] = cur[p] /\ StepsInRole(p)' < StepsInRole(p)

LEMMA EndRoleForward ==
    ASSUME TypeOK, NEW p \in Poller, EndRole(p) \/ EndPass(p)
    PROVE  Forward(p)
<1>1. pc \in [Poller -> Step] /\ cur \in [Poller -> Role] /\ cur[p] \in Nat
  BY PollAssumption DEF TypeOK, Role
<1>2. CASE EndPass(p)
  BY <1>1, <1>2 DEF EndPass, Forward
<1>3. CASE cur' = [cur EXCEPT ![p] = @ + 1]
  <2>1. cur'[p] = cur[p] + 1 /\ cur[p] + 1 > cur[p]
    BY <1>1, <1>3
  <2> QED
    BY <2>1 DEF Forward
<1> QED
  BY <1>2, <1>3 DEF EndRole

\* A step within the role.
LEMMA StepForward ==
    ASSUME TypeOK, TypeOK', HandInv, NEW p \in Poller, cur'[p] = cur[p],
           \/ <<pc[p], pc'[p]>> \in {<<"mark", "list">>, <<"list", "select">>,
                                     <<"select", "fromnow">>, <<"select", "body">>}
           \/ /\ todo'[p] = todo[p]
              /\ <<pc[p], pc'[p]>> \in {<<"body", "insert">>, <<"insert", "link">>,
                     <<"link", "emit">>, <<"link", "advance">>, <<"emit", "advance">>}
           \/ /\ todo'[p] = todo[p] \ {row[p].id}
              /\ <<pc[p], pc'[p]>> = <<"advance", "body">>
    PROVE  StepsInRole(p)' < StepsInRole(p)
<1> DEFINE t == Cardinality(todo[p])
           u == Cardinality(todo'[p])
<1>1. t \in 0 .. MaxId /\ u \in 0 .. MaxId /\ MaxId \in Nat
  BY IdsFinite, PollAssumption DEF TypeOK
<1>2. todo'[p] = todo[p] => u = t
  OBVIOUS
<1>3. pc[p] \in Storing => row[p].id \in todo[p]
  BY DEF HandInv, Least
<1>4. pc[p] \in Storing => t # 0 /\ (todo'[p] = todo[p] \ {row[p].id} => u = t - 1)
  BY <1>3, OneIdLess DEF TypeOK
<1> HIDE DEF t, u
<1>5. StepsFrom(pc'[p], u) < StepsFrom(pc[p], t)
  BY <1>1, <1>2, <1>4 DEF StepsFrom, Storing
<1> QED
  BY <1>5 DEF StepsInRole, t, u

LEMMA PassMovesOn ==
    ASSUME TypeOK, TypeOK', HandInv, NEW p \in Poller, pc[p] # "idle", [Next]_vars
    PROVE  Forward(p) \/ (~PassStep(p) /\ UNCHANGED <<pc[p], cur[p], todo[p]>>)
<1> USE DEF GoTo
<1>t. /\ pc \in [Poller -> Step] /\ cur \in [Poller -> Role] /\ todo \in [Poller -> SUBSET Id]
  BY DEF TypeOK
<1>1. CASE ReadMark(p) \/ List(p) \/ InsertMessage(p) \/ LinkChild(p) \/ Emit(p)
  <2>1. /\ cur'[p] = cur[p]
        /\ \/ <<pc[p], pc'[p]>> \in {<<"mark", "list">>, <<"list", "select">>}
           \/ /\ todo'[p] = todo[p]
              /\ <<pc[p], pc'[p]>> \in {<<"body", "insert">>, <<"insert", "link">>,
                     <<"link", "emit">>, <<"link", "advance">>, <<"emit", "advance">>}
    BY <1>1, <1>t DEF ReadMark, List, InsertMessage, LinkChild, Emit
  <2> QED
    BY <2>1, StepForward DEF Forward
<1>2. CASE MarkPolled(p)
  <2>1. CASE EndRole(p)
    BY <2>1, EndRoleForward
  <2>2. CASE cur' = cur /\ <<pc[p], pc'[p]>> \in {<<"select", "fromnow">>, <<"select", "body">>}
    BY <2>2, StepForward DEF Forward
  <2> QED
    BY <1>2, <1>t, <2>1, <2>2 DEF MarkPolled, Select
<1>3. CASE AdoptNewest(p) \/ RoleDone(p) \/ RoleError(p) \/ PassError(p) \/ Crash(p)
  BY <1>3, EndRoleForward DEF AdoptNewest, RoleDone, RoleError, PassError, Crash
<1>4. CASE TakeBody(p)
  <2>1. cur'[p] = cur[p] /\ todo'[p] = todo[p] /\ <<pc[p], pc'[p]>> = <<"body", "insert">>
    BY <1>4, <1>t DEF TakeBody
  <2> QED
    BY <2>1, StepForward DEF Forward
<1>5. CASE Advance(p)
  <2>1. /\ cur'[p] = cur[p] /\ todo'[p] = todo[p] \ {row[p].id}
        /\ <<pc[p], pc'[p]>> = <<"advance", "body">>
    BY <1>5, <1>t DEF Advance
  <2> QED
    BY <2>1, StepForward DEF Forward
<1>6. ~StartPass(p)
  BY DEF StartPass
<1>7. ASSUME NEW q \in Poller, q # p,
             PassStep(q) \/ RoleError(q) \/ PassError(q) \/ Crash(q)
      PROVE  UNCHANGED <<pc[p], cur[p], todo[p]>>
  <2>1. EndRole(q) \/ EndPass(q) => UNCHANGED <<pc[p], cur[p], todo[p]>>
    BY <1>7, <1>t DEF EndRole, EndPass, ResetRole
  <2>2. CASE StartPass(q) \/ ReadMark(q) \/ List(q) \/ TakeBody(q)
    BY <2>2, <1>7, <1>t DEF StartPass, ReadMark, List, TakeBody
  <2>3. CASE InsertMessage(q) \/ LinkChild(q) \/ Emit(q) \/ Advance(q)
    BY <2>3, <1>7, <1>t DEF InsertMessage, LinkChild, Emit, Advance
  <2>4. CASE MarkPolled(q)
    BY <2>1, <2>4, <1>7, <1>t DEF MarkPolled, Select
  <2>5. CASE AdoptNewest(q) \/ RoleDone(q) \/ RoleError(q) \/ PassError(q) \/ Crash(q)
    BY <2>1, <2>5 DEF AdoptNewest, RoleDone, RoleError, PassError, Crash
  <2> QED
    BY <1>7, <2>2, <2>3, <2>4, <2>5 DEF PassStep
<1>8. Environment \/ Operator \/ UNCHANGED vars => UNCHANGED <<pc, cur, todo>>
  BY DEF Environment, Arrive, Age, Archive, Edit, Operator, SetLastID, process, vars
<1>9. CASE PassStep(p) \/ RoleError(p) \/ PassError(p) \/ Crash(p)
  BY <1>1, <1>2, <1>3, <1>4, <1>5, <1>6, <1>9 DEF PassStep
<1>10. CASE ~(PassStep(p) \/ RoleError(p) \/ PassError(p) \/ Crash(p))
  BY <1>7, <1>8, <1>10 DEF Next
<1> QED
  BY <1>9, <1>10

\* A pass comes to its end: each step of it, whatever fails on the way, ends it,
\* or takes it to its next role, or brings it nearer to the end of the role it is
\* at, by what is left of at most 5 * MaxId + 3 steps; and no other process,
\* Wilma or operator throws it back.  It is a part of EventuallyStored that
\* needs no fairness.
THEOREM PollEnds ==
    Spec => /\ [](\A p \in Poller : cur[p] <= NumRoles /\ StepsInRole(p) \in 0 .. 5 * MaxId + 3)
            /\ [][\A p \in Poller : pc[p] # "idle" =>
                      \/ Forward(p)
                      \/ ~PassStep(p) /\ UNCHANGED <<pc[p], cur[p], todo[p]>>]_vars
<1>1. ASSUME TypeOK, HandInv, NEW p \in Poller
      PROVE  cur[p] <= NumRoles /\ StepsInRole(p) \in 0 .. 5 * MaxId + 3
  <2> DEFINE t == Cardinality(todo[p])
  <2>1. t \in 0 .. MaxId /\ MaxId \in Nat /\ pc[p] \in Step /\ cur[p] <= NumRoles
    BY <1>1, IdsFinite, PollAssumption DEF TypeOK, Role
  <2>2. pc[p] \in Storing => t # 0
    BY <1>1, OneIdLess DEF HandInv, Least, TypeOK
  <2> HIDE DEF t
  <2>3. StepsFrom(pc[p], t) \in 0 .. 5 * MaxId + 3
    BY <2>1, <2>2 DEF StepsFrom, Step, Storing
  <2> QED
    BY <2>1, <2>3 DEF StepsInRole, t
<1>2. TypeOK /\ HandInv =>
          \A p \in Poller : cur[p] <= NumRoles /\ StepsInRole(p) \in 0 .. 5 * MaxId + 3
  BY <1>1
<1>3. TypeOK /\ TypeOK' /\ HandInv /\ [Next]_vars =>
          \A p \in Poller : pc[p] # "idle" =>
              \/ Forward(p)
              \/ ~PassStep(p) /\ UNCHANGED <<pc[p], cur[p], todo[p]>>
  BY PassMovesOn
<1>4. Spec => []GapInv
  BY GapInit, GapStep, TypeCorrect, PTL DEF Spec
<1>5. GapInv => HandInv
  BY DEF GapInv
<1> QED
  BY <1>2, <1>3, <1>4, <1>5, TypeCorrect, PTL DEF Spec
=============================================================================
