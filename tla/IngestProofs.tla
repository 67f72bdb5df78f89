---------------------------- MODULE IngestProofs ----------------------------
(***************************************************************************)
(* Theorems about Ingest: what `sync | ingest` leaves of the promises of    *)
(* polling, for any number of ingests, pollers, roles and messages.  What   *)
(* polls do is taken from PollProofs (LocalStep).                          *)
(***************************************************************************)
EXTENDS Ingest, PollProofs

InputTypeOK ==
    /\ ipc \in [Ingester -> IngestStep]
    /\ args \in [Ingester -> [after : Id \cup {0}, cutoff : Id \cup {0}, bodies : BodyOption]]
    /\ unlisted \in [Ingester -> SUBSET Role]
    /\ listed \in [Ingester -> SUBSET (Id \X Role)]
    /\ lines \in [Ingester -> SUBSET Line]
    /\ hand \in [Ingester -> Line \cup {NoLine}]
    /\ \A q \in Ingester : ipc[q] \in {"insert", "link"} => hand[q] \in Line
    /\ high \in [Ingester -> [Role -> Id \cup {0}]]
    /\ lost \in [Ingester -> SUBSET (Id \X Role)]
    /\ missed \in SUBSET (Id \X Role)

\* Message i of role r is listed, on the stdin of q, or in its hands.
Pending(q, i, r) ==
    \/ <<i, r>> \in listed[q]
    \/ \E l \in lines[q] : l.row.id = i /\ l.role = r
    \/ ipc[q] \in {"insert", "link"} /\ hand[q].row.id = i /\ hand[q].role = r

\* There is nothing more to come.
Drained(q) == unlisted[q] = {} /\ listed[q] = {} /\ lines[q] = {}

\* Up to the newest line of a role, what is not stored is lost or still to
\* come; and what highWater holds is stored.
InputInv ==
    \A q \in Ingester :
        /\ ipc[q] \in {"idle", "marks"} => Drained(q)
        /\ ipc[q] = "idle" => high[q] = NoneStored
        /\ \A r \in Role :
              /\ high[q][r] > 0 => Linked(high[q][r], r)
              /\ \A m \in Id : Pending(q, m, r) \/ m = high[q][r] =>
                    /\ m <= newest
                    /\ \A i \in inbox[r] : ListedFrom(args[q]) < i /\ i <= m =>
                          Pending(q, i, r) \/ Linked(i, r) \/ <<i, r>> \in lost[q]

IngestInv == TypeOK /\ InputTypeOK /\ LocalInv /\ MarkInv /\ InputInv
                /\ GapsAreLostLines /\ MarkIsStored

-----------------------------------------------------------------------------
(* Types.                                                                   *)

LEMMA ListedFromType ==
    ASSUME NEW arg \in [after : Id \cup {0}, cutoff : Id \cup {0}, bodies : BodyOption]
    PROVE  ListedFrom(arg) \in Id \cup {0}
BY DEF ListedFrom

LEMMA ExitType ==
    ASSUME InputTypeOK, NEW q \in Ingester, Exit(q), UNCHANGED missed
    PROVE  InputTypeOK'
BY DEF InputTypeOK, Exit, IngestStep, NoneStored, NoArgs, BodyOption

LEMMA FaultType ==
    ASSUME TypeOK, faults < MaxFaults, faults' = faults + 1
    PROVE  faults' \in 0 .. MaxFaults
BY PollAssumption DEF TypeOK

\* Steps of ingest leave Wilma and the pollers alone.
LEMMA StoreType ==
    ASSUME TypeOK, UNCHANGED <<wilma, out, process, polled>>,
           rows' \in SUBSET Row, links' \in SUBSET (Row \X Role),
           mark' \in [Role -> Mark], floor' \in [Role -> Mark],
           faults' \in 0 .. MaxFaults
    PROVE  TypeOK'
BY DEF TypeOK, wilma, process

LEMMA InputTypeStep ==
    ASSUME TypeOK, InputTypeOK, NEW q \in Ingester, IngestAction(q)
    PROVE  TypeOK' /\ InputTypeOK'
<1>s. TypeOK /\ UNCHANGED vars => TypeOK'
  BY DEF TypeOK, vars, wilma, db, process
<1>h. /\ rows \in SUBSET Row /\ links \in SUBSET (Row \X Role)
      /\ mark \in [Role -> Mark] /\ floor \in [Role -> Mark] /\ faults \in 0 .. MaxFaults
  BY DEF TypeOK
<1>l. \A l \in Line : l.row \in Row /\ l.role \in Role /\ l.row.id \in Id
  BY DEF Line, Row
<1>1. CASE Sync(q)
  <2>1. 0 .. newest \subseteq Id \cup {0} /\ {0, aged} \subseteq Id \cup {0}
    BY PollAssumption DEF TypeOK, Id
  <2>2. args' \in [Ingester -> [after : Id \cup {0}, cutoff : Id \cup {0}, bodies : BodyOption]]
    <3>1. PICK after \in 0 .. newest, cutoff \in {0, aged}, bodies \in SyncBodies :
             args' = [args EXCEPT ![q] =
                        [after |-> after, cutoff |-> cutoff, bodies |-> bodies]]
      BY <1>1 DEF Sync
    <3>2. [after |-> after, cutoff |-> cutoff, bodies |-> bodies]
             \in [after : Id \cup {0}, cutoff : Id \cup {0}, bodies : BodyOption]
      BY <2>1, IngestAssumption
    <3> QED
      BY <3>1, <3>2 DEF InputTypeOK
  <2> QED
    BY <1>1, <1>s, <2>2 DEF Sync, InputTypeOK, IngestStep
<1>a. CASE ListRole(q)
  <2>1. PICK r \in unlisted[q] :
          /\ unlisted' = [unlisted EXCEPT ![q] = @ \ {r}]
          /\ \/ listed' = [listed EXCEPT ![q] = Listed(args[q], r) \X {r}]
             \/ UNCHANGED listed
    BY <1>a DEF ListRole
  <2>2. r \in Role /\ Listed(args[q], r) \subseteq Id
    BY DEF InputTypeOK, TypeOK, Listed
  <2>a. Listed(args[q], r) \X {r} \in SUBSET (Id \X Role)
    BY <2>2
  <2>b. unlisted' \in [Ingester -> SUBSET Role]
    BY <2>1 DEF InputTypeOK
  <2>3. unlisted' \in [Ingester -> SUBSET Role] /\ listed' \in [Ingester -> SUBSET (Id \X Role)]
    BY <2>1, <2>a, <2>b DEF InputTypeOK
  <2>4. UNCHANGED <<vars, ipc, args, lines, hand, high, lost, missed>>
    BY <1>a DEF ListRole
  <2> QED
    BY <1>s, <2>3, <2>4 DEF InputTypeOK
<1>b. CASE PrintLine(q)
  <2>1. PICK m \in listed[q] :
          /\ listed' = [listed EXCEPT ![q] = @ \ {m}]
          /\ \E body \in {shown[m[1]], NoBody} :
                lines' = [lines EXCEPT ![q] =
                             @ \cup {[row |-> [id |-> m[1], body |-> body], role |-> m[2]]}]
    BY <1>b DEF PrintLine
  <2>f. faults' = faults \/ (faults < MaxFaults /\ faults' = faults + 1)
    BY <1>b DEF PrintLine
  <2>2. m[1] \in Id /\ m[2] \in Role /\ shown[m[1]] \in Body
    BY DEF InputTypeOK, TypeOK
  <2>3. \A body \in {shown[m[1]], NoBody} :
           [row |-> [id |-> m[1], body |-> body], role |-> m[2]] \in Line
    BY <2>2 DEF Line, Row
  <2>4. lines' \in [Ingester -> SUBSET Line] /\ listed' \in [Ingester -> SUBSET (Id \X Role)]
    BY <2>1, <2>3 DEF InputTypeOK
  <2>5. TypeOK'
    BY <1>b, <1>h, <2>f, FaultType, StoreType DEF PrintLine, db
  <2> QED
    BY <1>b, <2>4, <2>5 DEF PrintLine, InputTypeOK
<1>c. CASE SyncDies(q)
  <2>1. PICK kept \in SUBSET lines[q] :
          /\ lines' = [lines EXCEPT ![q] = kept]
          /\ lost' = [lost EXCEPT ![q] =
                         @ \cup listed[q] \cup {<<l.row.id, l.role>> : l \in lines[q] \ kept}]
    BY <1>c DEF SyncDies
  <2>2. /\ kept \subseteq Line /\ listed[q] \subseteq Id \X Role /\ lost[q] \subseteq Id \X Role
        /\ {<<l.row.id, l.role>> : l \in lines[q] \ kept} \subseteq Id \X Role
    BY <1>l DEF InputTypeOK
  <2>3. lines' \in [Ingester -> SUBSET Line] /\ lost' \in [Ingester -> SUBSET (Id \X Role)]
    BY <2>1, <2>2 DEF InputTypeOK
  <2>4. TypeOK'
    BY <1>c, <1>h, FaultType, StoreType DEF SyncDies, db
  <2> QED
    BY <1>c, <2>3, <2>4 DEF SyncDies, InputTypeOK
<1>2. CASE TakeLine(q)
  <2>1. PICK l \in lines[q] : /\ hand' = [hand EXCEPT ![q] = l]
                              /\ lines' = [lines EXCEPT ![q] = @ \ {l}]
    BY <1>2 DEF TakeLine
  <2>2. l \in Line
    BY DEF InputTypeOK
  <2> QED
    BY <1>2, <1>s, <2>1, <2>2 DEF TakeLine, sync, InputTypeOK, IngestStep
<1>3. CASE IngestInsert(q)
  <2>1. hand[q].row \in Row
    BY <1>3, <1>l DEF IngestInsert, InputTypeOK
  <2>2. TypeOK'
    BY <1>3, <1>h, <2>1, StoreType DEF IngestInsert
  <2> QED
    BY <1>3, <2>2 DEF IngestInsert, sync, InputTypeOK, IngestStep
<1>4. CASE IngestLink(q)
  <2>1. hand[q].row \in Row /\ hand[q].role \in Role /\ hand[q].row.id \in Id
    BY <1>4, <1>l DEF IngestLink, InputTypeOK
  <2>2. TypeOK'
    BY <1>4, <1>h, <2>1, StoreType DEF IngestLink
  <2>3. high' \in [Ingester -> [Role -> Id \cup {0}]]
    BY <1>4, <2>1 DEF IngestLink, InputTypeOK
  <2> QED
    BY <1>4, <2>2, <2>3 DEF IngestLink, sync, InputTypeOK, IngestStep
<1>5. CASE LineError(q)
  <2>1. hand[q].role \in Role /\ hand[q].row.id \in Id
    BY <1>5, <1>l DEF LineError, InputTypeOK
  <2>2. TypeOK'
    BY <1>5, <1>h, FaultType, StoreType DEF LineError, db
  <2> QED
    BY <1>5, <2>1, <2>2 DEF LineError, sync, InputTypeOK, IngestStep
<1>6. CASE EndOfInput(q)
  BY <1>6, <1>s DEF EndOfInput, sync, InputTypeOK, IngestStep
<1>7. ASSUME NEW r \in Role, RecordMark(q, r)
      PROVE  TypeOK' /\ InputTypeOK'
  <2>1. high[q][r] \in Id \cup {0} /\ ListedFrom(args[q]) \in Mark
    BY ListedFromType DEF InputTypeOK, Mark
  <2>2. mark' \in [Role -> Mark] /\ floor' \in [Role -> Mark] /\ faults' \in 0 .. MaxFaults
    BY <1>7, <1>h, <2>1, SetHighWaterMarkType, FaultType DEF RecordMark
  <2>3. TypeOK'
    BY <1>7, <1>h, <2>2, StoreType DEF RecordMark
  <2>4. high' \in [Ingester -> [Role -> Id \cup {0}]]
    BY <1>7 DEF RecordMark, sync, InputTypeOK
  <2>5. missed' \in SUBSET (Id \X Role)
    BY <1>7 DEF RecordMark, sync, InputTypeOK
  <2> QED
    BY <1>7, <2>3, <2>4, <2>5 DEF RecordMark, sync, InputTypeOK
<1>8. CASE IngestDone(q)
  BY <1>8, <1>s, ExitType DEF IngestDone
<1>9. CASE IngestStops(q)
  <2>1. TypeOK'
    BY <1>9, <1>h, FaultType, StoreType DEF IngestStops, db
  <2> QED
    BY <1>9, <2>1, ExitType DEF IngestStops
<1> QED
  BY <1>1, <1>a, <1>b, <1>c, <1>2, <1>3, <1>4, <1>5, <1>6, <1>7, <1>8, <1>9 DEF IngestAction

-----------------------------------------------------------------------------
(* Steps of pollers, Wilma and the operator.                                *)

\* What a poll does to the marks keeps the two promises.
LEMMA PollKeepsMarks ==
    ASSUME TypeOK, MarkInv, GapsAreLostLines, MarkIsStored, MarkEffect, UNCHANGED missed
    PROVE  GapsAreLostLines' /\ MarkIsStored'
<1> USE DEF Mark, NoMark, Id
<1>1. /\ mark \in [Role -> Mark] /\ floor \in [Role -> Mark]
      /\ MaxId \in Nat /\ newest \in Nat
      /\ inbox \in [Role -> SUBSET Id]
  BY PollAssumption DEF TypeOK
<1>2. CASE /\ UNCHANGED <<newest, mark, floor>>
           /\ links \subseteq links'
           /\ \A r \in Role : inbox'[r] \subseteq inbox[r]
  BY <1>2 DEF GapsAreLostLines, MarkIsStored, Linked
<1>3. CASE /\ UNCHANGED <<links, mark, floor>>
           /\ newest' = newest + 1
           /\ \A r \in Role : inbox'[r] \subseteq inbox[r] \cup {newest'}
  <2>1. \A r \in Role : mark[r] \in Int /\ floor[r] \in Int
    BY <1>1
  <2>2. GapsAreLostLines'
    BY <1>1, <1>3, <2>1 DEF MarkInv, GapsAreLostLines, Linked
  <2>3. MarkIsStored'
    BY <1>3 DEF MarkIsStored, Linked
  <2> QED
    BY <2>2, <2>3
<1>4. ASSUME NEW r \in Role, NEW i \in Id \cup {0}, NEW f \in Mark,
             SetHighWaterMark(r, i, f),
             UNCHANGED <<inbox, newest, links>>,
             i <= f \/ Linked(i, r),
             \A j \in inbox[r] : f < j /\ j <= i => Linked(j, r)
      PROVE  GapsAreLostLines' /\ MarkIsStored'
  <2>1. /\ mark'[r] = IF i > mark[r] THEN i ELSE mark[r]
        /\ floor'[r] = IF f > mark[r] THEN f ELSE floor[r]
        /\ \A s \in Role \ {r} : mark'[s] = mark[s] /\ floor'[s] = floor[s]
        /\ mark[r] \in Int /\ floor[r] \in Int /\ i \in Int /\ f \in Int
    BY <1>1, <1>4 DEF SetHighWaterMark
  <2>2. \A j \in inbox[r] : floor'[r] < j /\ j <= mark'[r] => Linked(j, r) \/ <<j, r>> \in missed
    BY <1>1, <1>4, <2>1 DEF GapsAreLostLines
  <2>3. mark'[r] > floor'[r] => Linked(mark'[r], r)
    BY <1>4, <2>1 DEF MarkIsStored
  <2> QED
    BY <1>4, <2>1, <2>2, <2>3 DEF GapsAreLostLines, MarkIsStored, Linked
<1> QED
  BY <1>2, <1>3, <1>4 DEF MarkEffect

\* A poll step adds nothing to what an ingest has yet to do.
LEMMA PollKeepsInput ==
    ASSUME TypeOK, InputTypeOK, InputInv, MarkEffect, UNCHANGED input
    PROVE  InputInv'
<1>1. \A i, r : Linked(i, r) => Linked(i, r)'
  BY LinkedGrows DEF MarkEffect
<1>2. newest \in Nat /\ newest' \in {newest, newest + 1}
      /\ \A r \in Role : \A i \in inbox'[r] : i \in inbox[r] \/ i = newest + 1
  BY PollAssumption DEF MarkEffect, TypeOK
<1>3. \A q \in Ingester : \A i, r : Pending(q, i, r)' <=> Pending(q, i, r)
  BY DEF Pending, input, sync
<1>4. \A m \in Id : m <= newest => m <= newest' /\ ~(newest + 1 <= m)
  BY <1>2 DEF Id
<1> SUFFICES ASSUME NEW q \in Ingester, NEW r \in Role
             PROVE  /\ ipc[q] \in {"idle", "marks"} => Drained(q)
                    /\ ipc[q] = "idle" => high[q] = NoneStored
                    /\ high[q][r] > 0 => Linked(high[q][r], r)'
                    /\ \A m \in Id : Pending(q, m, r) \/ m = high[q][r] =>
                          /\ m <= newest'
                          /\ \A i \in inbox'[r] : ListedFrom(args[q]) < i /\ i <= m =>
                                Pending(q, i, r) \/ Linked(i, r)' \/ <<i, r>> \in lost[q]
  BY <1>3, Zenon DEF InputInv, Drained, input, sync
<1>5. ASSUME NEW m \in Id, Pending(q, m, r) \/ m = high[q][r]
      PROVE  /\ m <= newest'
             /\ \A i \in inbox'[r] : ListedFrom(args[q]) < i /\ i <= m =>
                   Pending(q, i, r) \/ Linked(i, r)' \/ <<i, r>> \in lost[q]
  <2>1. /\ m <= newest
        /\ \A i \in inbox[r] : ListedFrom(args[q]) < i /\ i <= m =>
              Pending(q, i, r) \/ Linked(i, r) \/ <<i, r>> \in lost[q]
    BY <1>5 DEF InputInv
  <2> QED
    BY <1>1, <1>2, <1>4, <2>1
<1>6. /\ ipc[q] \in {"idle", "marks"} => Drained(q)
      /\ ipc[q] = "idle" => high[q] = NoneStored
      /\ high[q][r] > 0 => Linked(high[q][r], r)'
  BY <1>1 DEF InputInv, input
<1> QED
  BY <1>5, <1>6

-----------------------------------------------------------------------------
(* Steps of ingest.                                                         *)

\* Those that record no mark keep the promises, as links only grow.
LEMMA MarksLeft ==
    ASSUME MarkInv, GapsAreLostLines, MarkIsStored,
           UNCHANGED <<inbox, newest, mark, floor, missed>>, links \subseteq links'
    PROVE  MarkInv' /\ GapsAreLostLines' /\ MarkIsStored'
<1>1. \A i, r : Linked(i, r) => Linked(i, r)'
  BY LinkedGrows
<1>2. \A r \in Role : Linked(mark[r], r) => Linked(mark[r], r)'
  BY DEF Linked
<1> QED
  BY <1>1, <1>2 DEF MarkInv, GapsAreLostLines, MarkIsStored

\* Ingest tells pollers nothing.
LEMMA PollersLeft ==
    ASSUME LocalInv, UNCHANGED <<newest, inbox, process>>, links \subseteq links'
    PROVE  LocalInv'
<1>1. \A i, r : Linked(i, r) => Linked(i, r)'
  BY LinkedGrows
<1>2. AssignedInv' /\ ListInv'
  BY DEF LocalInv, AssignedInv, ListInv, process
<1>3. SelectionInv'
  BY <1>1 DEF LocalInv, SelectionInv, Storing, process
<1>4. HandInv'
  BY DEF LocalInv, HandInv, Storing, Least, Linked, process
<1> QED
  BY <1>2, <1>3, <1>4 DEF LocalInv

\* What the other ingests know, as links only grow.
OthersLeft(q) ==
    /\ UNCHANGED <<newest, inbox>> /\ links \subseteq links'
    /\ \A s \in Ingester \ {q} :
          /\ ipc'[s] = ipc[s] /\ lines'[s] = lines[s] /\ hand'[s] = hand[s]
          /\ high'[s] = high[s] /\ args'[s] = args[s]
          /\ unlisted'[s] = unlisted[s] /\ listed'[s] = listed[s] /\ lost'[s] = lost[s]

\* InputInv of one ingest.
Known(q) ==
    /\ ipc[q] \in {"idle", "marks"} => Drained(q)
    /\ ipc[q] = "idle" => high[q] = NoneStored
    /\ \A r \in Role :
          /\ high[q][r] > 0 => Linked(high[q][r], r)
          /\ \A m \in Id : Pending(q, m, r) \/ m = high[q][r] =>
                /\ m <= newest
                /\ \A i \in inbox[r] : ListedFrom(args[q]) < i /\ i <= m =>
                      Pending(q, i, r) \/ Linked(i, r) \/ <<i, r>> \in lost[q]

LEMMA OthersKnow ==
    ASSUME InputInv, NEW q \in Ingester, OthersLeft(q), Known(q)'
    PROVE  InputInv'
<1>1. \A i, r : Linked(i, r) => Linked(i, r)'
  BY LinkedGrows DEF OthersLeft
<1>2. ASSUME NEW s \in Ingester \ {q}
      PROVE  Known(s)'
  <2>1. Known(s)
    BY DEF InputInv, Known
  <2>2. \A i, r : Pending(s, i, r)' <=> Pending(s, i, r)
    BY DEF Pending, OthersLeft
  <2>3. \A r \in Role : Linked(high[s][r], r) => Linked(high[s][r], r)'
    BY DEF OthersLeft, Linked
  <2>4. ASSUME NEW r \in Role, NEW m \in Id, Pending(s, m, r)' \/ m = high'[s][r]
        PROVE  /\ m <= newest'
               /\ \A i \in inbox'[r] : ListedFrom(args[s])' < i /\ i <= m =>
                     Pending(s, i, r)' \/ Linked(i, r)' \/ <<i, r>> \in lost'[s]
    <3>1. /\ m <= newest
          /\ \A i \in inbox[r] : ListedFrom(args[s]) < i /\ i <= m =>
                Pending(s, i, r) \/ Linked(i, r) \/ <<i, r>> \in lost[s]
      BY <2>1, <2>2, <2>4 DEF Known, OthersLeft
    <3> QED
      BY <1>1, <2>2, <3>1 DEF OthersLeft
  <2> QED
    BY <2>1, <2>3, <2>4 DEF Known, OthersLeft, Drained
<1> QED
  BY <1>2 DEF InputInv, Known

\* A step of an ingest that leaves no message of its roles out.
LEMMA StillKnown ==
    ASSUME TypeOK, InputTypeOK, NEW q \in Ingester, Known(q),
           UNCHANGED <<newest, inbox>>, links \subseteq links', args'[q] = args[q],
           ipc'[q] \in {"idle", "marks"} => Drained(q)',
           ipc'[q] = "idle" => high'[q] = NoneStored,
           \A r \in Role : high'[q][r] > 0 => Linked(high[q][r], r)',
           \A r \in Role, m \in Id :
              Pending(q, m, r)' \/ m = high'[q][r] => Pending(q, m, r) \/ m = high[q][r],
           \A r \in Role, i \in Id :
              Pending(q, i, r) => Pending(q, i, r)' \/ Linked(i, r)' \/ <<i, r>> \in lost'[q],
           lost[q] \subseteq lost'[q]
    PROVE  Known(q)'
<1>1. \A i, r : Linked(i, r) => Linked(i, r)'
  BY LinkedGrows
<1>2. \A r \in Role : inbox[r] \subseteq Id
  BY DEF TypeOK
<1>3. ASSUME NEW r \in Role, NEW m \in Id, Pending(q, m, r)' \/ m = high'[q][r]
      PROVE  /\ m <= newest'
             /\ \A i \in inbox'[r] : ListedFrom(args[q])' < i /\ i <= m =>
                   Pending(q, i, r)' \/ Linked(i, r)' \/ <<i, r>> \in lost'[q]
  <2>1. /\ m <= newest
        /\ \A i \in inbox[r] : ListedFrom(args[q]) < i /\ i <= m =>
              Pending(q, i, r) \/ Linked(i, r) \/ <<i, r>> \in lost[q]
    BY <1>3 DEF Known
  <2> QED
    BY <1>1, <1>2, <2>1
<1> QED
  BY <1>3 DEF Known

\* A step at the end of which nothing is in the hands of an ingest.
LEMMA ExitKnows ==
    ASSUME InputTypeOK, NEW q \in Ingester, Exit(q)
    PROVE  Known(q)'
<1>1. /\ ipc'[q] = "idle" /\ high'[q] = NoneStored
      /\ unlisted'[q] = {} /\ listed'[q] = {} /\ lines'[q] = {}
  BY DEF Exit, InputTypeOK
<1>2. \A r \in Role, m \in Id : ~Pending(q, m, r)' /\ m # high'[q][r]
  BY <1>1 DEF Pending, NoneStored, Id
<1>3. \A r \in Role : ~(high'[q][r] > 0)
  BY <1>1 DEF NoneStored
<1> QED
  BY <1>1, <1>2, <1>3 DEF Known, Drained

\* Every step of an ingest keeps what it knows.
LEMMA InputStep ==
    ASSUME TypeOK, InputTypeOK, LocalInv, InputInv, NEW q \in Ingester, IngestAction(q)
    PROVE  InputInv'
<1>k. Known(q)
  BY DEF InputInv, Known
<1>l. \A l \in Line : l.row \in Row /\ l.role \in Role /\ l.row.id \in Id
  BY DEF Line, Row
<1>t. InputTypeOK'
  BY InputTypeStep
<1>1. CASE Sync(q)
  <2>1. /\ ipc[q] = "idle" /\ Drained(q) /\ high[q] = NoneStored
    BY <1>1, <1>k DEF Sync, Known
  <2>2. /\ ipc'[q] = "line" /\ listed'[q] = {} /\ lines'[q] = {} /\ high'[q] = NoneStored
        /\ UNCHANGED <<inbox, newest, links>> /\ OthersLeft(q)
    BY <1>1, <2>1 DEF Sync, InputTypeOK, Drained, OthersLeft, vars, wilma, db
  <2>3. \A r \in Role, m \in Id : ~Pending(q, m, r)' /\ m # high'[q][r]
    BY <2>2 DEF Pending, NoneStored, Id
  <2>4. \A r \in Role : ~(high'[q][r] > 0)
    BY <2>2 DEF NoneStored
  <2>5. Known(q)'
    BY <2>2, <2>3, <2>4 DEF Known
  <2> QED
    BY <2>2, <2>5, OthersKnow
<1>a. CASE ListRole(q)
  <2>1. PICK r \in unlisted[q] :
          /\ unlisted' = [unlisted EXCEPT ![q] = @ \ {r}]
          /\ \/ listed' = [listed EXCEPT ![q] = Listed(args[q], r) \X {r}]
             \/ UNCHANGED listed
    BY <1>a DEF ListRole
  <2>2. /\ listed[q] = {} /\ UNCHANGED <<ipc, lines, hand, high>>
        /\ args' = args /\ lost' = lost /\ UNCHANGED <<inbox, newest, links>> /\ OthersLeft(q)
        /\ ipc[q] \notin {"idle", "marks"}
    BY <1>a, <1>k, <2>1 DEF ListRole, Known, Drained, InputTypeOK, OthersLeft, vars, wilma, db
  <2>3. CASE UNCHANGED listed
    <3>1. \A s \in Role, i \in Id : Pending(q, i, s)' <=> Pending(q, i, s)
      BY <2>2, <2>3 DEF Pending
    <3>2. \A s \in Role : high'[q][s] > 0 => Linked(high[q][s], s)'
      BY <1>k, <2>2 DEF Known, Linked
    <3>3. Known(q)'
      BY <1>k, <2>2, <3>1, <3>2, StillKnown
    <3> QED
      BY <2>2, <3>3, OthersKnow
  <2>4. CASE listed' = [listed EXCEPT ![q] = Listed(args[q], r) \X {r}]
    <3>1. listed'[q] = Listed(args[q], r) \X {r}
      BY <2>4 DEF InputTypeOK
    <3>2. \A s \in Role, i \in Id :
             Pending(q, i, s)' <=> Pending(q, i, s) \/ (s = r /\ i \in Listed(args[q], r))
      BY <2>2, <3>1 DEF Pending
    <3>3. \A i \in inbox[r] : i \in Id /\ i <= newest
      BY DEF LocalInv, AssignedInv, TypeOK, InputTypeOK
    <3>4. \A i \in inbox[r] : ListedFrom(args[q]) < i => i \in Listed(args[q], r)
      BY <3>3 DEF InputTypeOK, Listed, ListedFrom, Id
    <3>5. ASSUME NEW s \in Role, NEW m \in Id, Pending(q, m, s)' \/ m = high'[q][s]
          PROVE  /\ m <= newest'
                 /\ \A i \in inbox'[s] : ListedFrom(args[q])' < i /\ i <= m =>
                       Pending(q, i, s)' \/ Linked(i, s)' \/ <<i, s>> \in lost'[q]
      <4>1. CASE s = r /\ m \in Listed(args[q], r)
        <5>1. m \in inbox[r]
          BY <4>1 DEF Listed
        <5> QED
          BY <2>2, <3>2, <3>3, <3>4, <4>1, <5>1
      <4>2. CASE Pending(q, m, s) \/ m = high[q][s]
        <5>1. /\ m <= newest
              /\ \A i \in inbox[s] : ListedFrom(args[q]) < i /\ i <= m =>
                    Pending(q, i, s) \/ Linked(i, s) \/ <<i, s>> \in lost[q]
          BY <1>k, <4>2 DEF Known
        <5>2. inbox[s] \subseteq Id
          BY DEF TypeOK
        <5> QED
          BY <2>2, <3>2, <5>1, <5>2 DEF Linked
      <4> QED
        BY <2>2, <3>2, <3>5, <4>1, <4>2
    <3>6. \A s \in Role : high'[q][s] > 0 => Linked(high[q][s], s)'
      BY <1>k, <2>2 DEF Known, Linked
    <3>7. Known(q)'
      BY <2>2, <3>5, <3>6 DEF Known
    <3> QED
      BY <2>2, <3>7, OthersKnow
  <2> QED
    BY <2>1, <2>3, <2>4
<1>b. CASE PrintLine(q)
  <2>p. PICK m \in listed[q] :
          /\ listed' = [listed EXCEPT ![q] = @ \ {m}]
          /\ \E body \in {shown[m[1]], NoBody} :
                lines' = [lines EXCEPT ![q] =
                             @ \cup {[row |-> [id |-> m[1], body |-> body], role |-> m[2]]}]
    BY <1>b DEF PrintLine
  <2>1. PICK body \in {shown[m[1]], NoBody} :
          lines' = [lines EXCEPT ![q] =
                       @ \cup {[row |-> [id |-> m[1], body |-> body], role |-> m[2]]}]
    BY <2>p
  <2>2. /\ m \in Id \X Role
        /\ listed'[q] = listed[q] \ {m}
        /\ lines'[q] = lines[q] \cup {[row |-> [id |-> m[1], body |-> body], role |-> m[2]]}
    BY <2>p, <2>1 DEF InputTypeOK
  <2>3. /\ UNCHANGED <<ipc, hand, high, args, lost>>
        /\ UNCHANGED <<inbox, newest, links>> /\ OthersLeft(q)
        /\ ipc[q] \notin {"idle", "marks"}
    BY <1>b, <1>k, <2>p, <2>1 DEF PrintLine, Known, Drained, InputTypeOK, OthersLeft, vars, wilma, db
  <2> DEFINE new == [row |-> [id |-> m[1], body |-> body], role |-> m[2]]
  <2>4. PICK n \in Id, r \in Role : m = <<n, r>>
    BY <2>2
  <2>a. new.row.id = n /\ new.role = r /\ new \in lines'[q]
    BY <2>2, <2>4
  <2>5. \A s \in Role, i \in Id : Pending(q, i, s)' <=> Pending(q, i, s)
    <3>1. \A s \in Role, i \in Id : <<i, s>> = m <=> i = n /\ s = r
      BY <2>4
    <3> HIDE DEF new
    <3>2. lines'[q] = lines[q] \cup {new}
      BY <2>2 DEF new
    <3> QED
      BY <2>2, <2>3, <2>a, <3>1, <3>2 DEF Pending
  <2>6. \A s \in Role : high'[q][s] > 0 => Linked(high[q][s], s)'
    BY <1>k, <2>3 DEF Known, Linked
  <2>7. Known(q)'
    BY <1>k, <2>3, <2>5, <2>6, StillKnown
  <2> QED
    BY <2>3, <2>7, OthersKnow
<1>c. CASE SyncDies(q)
  <2>1. PICK kept \in SUBSET lines[q] :
          /\ lines' = [lines EXCEPT ![q] = kept]
          /\ lost' = [lost EXCEPT ![q] =
                         @ \cup listed[q] \cup {<<l.row.id, l.role>> : l \in lines[q] \ kept}]
    BY <1>c DEF SyncDies
  <2>2. /\ lines'[q] = kept /\ listed'[q] = {}
        /\ lost'[q] = lost[q] \cup listed[q]
                         \cup {<<l.row.id, l.role>> : l \in lines[q] \ kept}
    BY <1>c, <2>1 DEF SyncDies, InputTypeOK
  <2>3. /\ UNCHANGED <<ipc, hand, high, args>>
        /\ UNCHANGED <<inbox, newest, links>> /\ OthersLeft(q)
        /\ ipc[q] \notin {"idle", "marks"}
    BY <1>c, <2>1 DEF SyncDies, InputTypeOK, OthersLeft, wilma, db
  <2>4. \A s \in Role, i \in Id : Pending(q, i, s)' => Pending(q, i, s)
    BY <2>2, <2>3 DEF Pending
  <2>5. \A s \in Role, i \in Id : Pending(q, i, s) => Pending(q, i, s)' \/ <<i, s>> \in lost'[q]
    BY <2>2, <2>3 DEF Pending
  <2>6. \A s \in Role : high'[q][s] > 0 => Linked(high[q][s], s)'
    BY <1>k, <2>3 DEF Known, Linked
  <2>7. Known(q)'
    BY <1>k, <2>2, <2>3, <2>4, <2>5, <2>6, StillKnown
  <2> QED
    BY <2>3, <2>7, OthersKnow
<1>2. CASE TakeLine(q)
  <2>1. PICK l \in lines[q] : /\ hand' = [hand EXCEPT ![q] = l]
                              /\ lines' = [lines EXCEPT ![q] = @ \ {l}]
    BY <1>2 DEF TakeLine
  <2>2. /\ ipc[q] = "line" /\ ipc'[q] = "insert" /\ hand'[q] = l /\ lines'[q] = lines[q] \ {l}
        /\ UNCHANGED <<inbox, newest, links>> /\ OthersLeft(q)
        /\ UNCHANGED <<high, args, unlisted, listed, lost>>
    BY <1>2, <2>1 DEF TakeLine, sync, InputTypeOK, OthersLeft, vars, wilma, db
  <2>3. \A r \in Role, i \in Id : Pending(q, i, r)' <=> Pending(q, i, r)
    BY <2>2 DEF Pending
  <2>4. \A r \in Role : high'[q][r] > 0 => Linked(high[q][r], r)'
    BY <1>k, <2>2 DEF Known, Linked
  <2>5. Known(q)'
    BY <1>k, <2>2, <2>3, <2>4, StillKnown
  <2> QED
    BY <2>2, <2>5, OthersKnow
<1>3. CASE IngestInsert(q)
  <2>1. /\ ipc[q] = "insert" /\ ipc'[q] = "link"
        /\ UNCHANGED <<inbox, newest, links>> /\ OthersLeft(q)
        /\ UNCHANGED <<high, args, unlisted, listed, lost, lines, hand>>
    BY <1>3 DEF IngestInsert, sync, InputTypeOK, OthersLeft, wilma
  <2>2. \A r \in Role, i \in Id : Pending(q, i, r)' <=> Pending(q, i, r)
    BY <2>1 DEF Pending
  <2>3. \A r \in Role : high'[q][r] > 0 => Linked(high[q][r], r)'
    BY <1>k, <2>1 DEF Known, Linked
  <2>4. Known(q)'
    BY <1>k, <2>1, <2>2, <2>3, StillKnown
  <2> QED
    BY <2>1, <2>4, OthersKnow
<1>4. CASE IngestLink(q)
  <2> DEFINE h == hand[q].row.id
             s == hand[q].role
  <2>1. h \in Id /\ s \in Role /\ hand[q] \in Line
    BY <1>4, <1>l DEF IngestLink, InputTypeOK
  <2>2. /\ ipc[q] = "link" /\ ipc'[q] = "line"
        /\ UNCHANGED <<inbox, newest>> /\ OthersLeft(q)
        /\ links' = links \cup {<<hand[q].row, hand[q].role>>}
        /\ UNCHANGED <<args, unlisted, listed, lost, lines>>
        /\ high' = [high EXCEPT ![q][s] = IF h > @ THEN h ELSE @]
    BY <1>4, <2>1 DEF IngestLink, sync, InputTypeOK, OthersLeft, wilma
  <2>a. \A r \in Role : high'[q][r] = high[q][r] \/ (r = s /\ high'[q][r] = h)
    BY <2>1, <2>2 DEF InputTypeOK
  <2>3. \A i \in Id, r \in Role : i = h /\ r = s => Linked(i, r)'
    BY <2>2 DEF Linked
  <2>4. Pending(q, h, s)
    BY <2>2 DEF Pending
  <2>5. \A r \in Role, i \in Id : Pending(q, i, r)' => Pending(q, i, r)
    BY <2>2 DEF Pending
  <2>6. \A r \in Role, i \in Id : Pending(q, i, r) => Pending(q, i, r)' \/ (i = h /\ r = s)
    BY <2>2 DEF Pending
  <2>7. \A r \in Role : high'[q][r] > 0 => Linked(high[q][r], r)'
    <3>1. \A i, r : Linked(i, r) => Linked(i, r)'
      BY <2>2, LinkedGrows
    <3>2. ASSUME NEW r \in Role, high'[q][r] > 0
          PROVE  Linked(high[q][r], r)'
      <4>1. CASE high'[q][r] = high[q][r]
        <5>1. \E l \in links : l[1].id = high[q][r] /\ l[2] = r
          BY <1>k, <3>2, <4>1 DEF Known, Linked
        <5>2. \E l \in links' : l[1].id = high'[q][r] /\ l[2] = r
          BY <2>2, <4>1, <5>1
        <5> QED
          BY <5>2 DEF Linked
      <4>2. CASE r = s /\ high'[q][r] = h
        <5> DEFINE new == <<hand[q].row, hand[q].role>>
        <5>0. new \in links' /\ new[1].id = high'[q][r] /\ new[2] = r
          BY <2>2, <4>2
        <5>1. \E l \in links' : l[1].id = high'[q][r] /\ l[2] = r
          BY <5>0
        <5> QED
          BY <5>1 DEF Linked
      <4> QED
        BY <2>a, <4>1, <4>2
    <3> QED
      BY <3>2
  <2> HIDE DEF h, s
  <2>8. \A r \in Role, m \in Id :
           Pending(q, m, r)' \/ m = high'[q][r] => Pending(q, m, r) \/ m = high[q][r]
    BY <2>a, <2>4, <2>5
  <2>9. \A r \in Role, i \in Id :
           Pending(q, i, r) => Pending(q, i, r)' \/ Linked(i, r)' \/ <<i, r>> \in lost'[q]
    BY <2>3, <2>6
  <2>10. Known(q)'
    BY <1>k, <2>2, <2>7, <2>8, <2>9, StillKnown
  <2> QED
    BY <2>2, <2>10, OthersKnow
<1>5. CASE LineError(q)
  <2>1. /\ ipc[q] \in {"insert", "link"} /\ ipc'[q] = "line"
        /\ UNCHANGED <<inbox, newest, links>> /\ OthersLeft(q)
        /\ UNCHANGED <<args, unlisted, listed, lines, high>>
        /\ lost'[q] = lost[q] \cup {<<hand[q].row.id, hand[q].role>>}
    BY <1>5 DEF LineError, sync, InputTypeOK, OthersLeft, wilma, db
  <2>2. \A r \in Role, i \in Id : Pending(q, i, r)' => Pending(q, i, r)
    BY <2>1 DEF Pending
  <2>3. \A r \in Role, i \in Id : Pending(q, i, r) => Pending(q, i, r)' \/ <<i, r>> \in lost'[q]
    BY <2>1 DEF Pending
  <2>4. \A r \in Role : high'[q][r] > 0 => Linked(high[q][r], r)'
    BY <1>k, <2>1 DEF Known, Linked
  <2>5. Known(q)'
    BY <1>k, <2>1, <2>2, <2>3, <2>4, StillKnown
  <2> QED
    BY <2>1, <2>5, OthersKnow
<1>6. CASE EndOfInput(q)
  <2>1. /\ ipc[q] = "line" /\ ipc'[q] = "marks" /\ Drained(q)'
        /\ UNCHANGED <<inbox, newest, links>> /\ OthersLeft(q)
        /\ UNCHANGED <<high, args, unlisted, listed, lost, lines, hand>>
    BY <1>6 DEF EndOfInput, Drained, InputTypeOK, OthersLeft, sync, vars, wilma, db
  <2>2. \A r \in Role, i \in Id : Pending(q, i, r)' <=> Pending(q, i, r)
    BY <2>1 DEF Pending
  <2>3. \A r \in Role : high'[q][r] > 0 => Linked(high[q][r], r)'
    BY <1>k, <2>1 DEF Known, Linked
  <2>4. Known(q)'
    BY <1>k, <2>1, <2>2, <2>3, StillKnown
  <2> QED
    BY <2>1, <2>4, OthersKnow
<1>7. ASSUME NEW r \in Role, RecordMark(q, r)
      PROVE  InputInv'
  <2>1. /\ ipc[q] = "marks" /\ listed[q] = {} /\ lines[q] = {} /\ Drained(q)'
        /\ UNCHANGED <<inbox, newest, links>> /\ OthersLeft(q)
        /\ UNCHANGED <<ipc, args, unlisted, listed, lost, lines, hand>>
        /\ \A s \in Role : high'[q][s] = IF s = r THEN 0 ELSE high[q][s]
    BY <1>7, <1>k DEF RecordMark, InputTypeOK, OthersLeft, Known, Drained, sync, wilma
  <2>2. \A s \in Role, i \in Id : ~Pending(q, i, s) /\ ~Pending(q, i, s)'
    BY <2>1 DEF Pending
  <2>3. \A s \in Role : high'[q][s] > 0 => Linked(high[q][s], s)'
    BY <1>k, <2>1 DEF Known, Linked
  <2>4. \A s \in Role, m \in Id :
           Pending(q, m, s)' \/ m = high'[q][s] => Pending(q, m, s) \/ m = high[q][s]
    BY <2>1, <2>2 DEF Id
  <2>5. Known(q)'
    BY <1>k, <2>1, <2>2, <2>3, <2>4, StillKnown
  <2> QED
    BY <2>1, <2>5, OthersKnow
<1>8. CASE IngestDone(q) \/ IngestStops(q)
  <2>1. Exit(q) /\ UNCHANGED <<inbox, newest, links>>
    BY <1>8 DEF IngestDone, IngestStops, vars, wilma, db
  <2>2. OthersLeft(q)
    BY <2>1 DEF OthersLeft, Exit, InputTypeOK
  <2> QED
    BY <2>1, <2>2, ExitKnows, OthersKnow
<1> QED
  BY <1>1, <1>a, <1>b, <1>c, <1>2, <1>3, <1>4, <1>5, <1>6, <1>7, <1>8 DEF IngestAction

\* A mark recorded at the end of the input passes nothing but lost messages.
LEMMA RecordMarkKeeps ==
    ASSUME TypeOK, InputTypeOK, MarkInv, InputInv, GapsAreLostLines, MarkIsStored,
           NEW q \in Ingester, NEW r \in Role, RecordMark(q, r)
    PROVE  MarkInv' /\ GapsAreLostLines' /\ MarkIsStored'
<1> USE DEF Mark, NoMark, Id
<1> DEFINE i == high[q][r]
           f == ListedFrom(args[q])
<1>1. /\ mark \in [Role -> Mark] /\ floor \in [Role -> Mark]
      /\ MaxId \in Nat /\ newest \in Nat
      /\ inbox \in [Role -> SUBSET Id]
      /\ i \in Id /\ f \in Int
      /\ UNCHANGED <<inbox, newest, links>>
  BY PollAssumption, ListedFromType DEF TypeOK, InputTypeOK, RecordMark, wilma
<1>2. CASE UNCHANGED <<mark, floor, missed>>
  BY <1>1, <1>2, MarksLeft
<1>3. CASE /\ SetHighWaterMark(r, i, f)
           /\ missed' = IF i > mark[r] THEN missed \cup {m \in lost[q] : m[2] = r} ELSE missed
  <2>1. /\ mark'[r] = IF i > mark[r] THEN i ELSE mark[r]
        /\ floor'[r] = IF f > mark[r] THEN f ELSE floor[r]
        /\ \A s \in Role \ {r} : mark'[s] = mark[s] /\ floor'[s] = floor[s]
        /\ mark[r] \in Int /\ floor[r] \in Int
    BY <1>1, <1>3 DEF SetHighWaterMark
  <2>2. \A j \in inbox[r] : ~Pending(q, j, r)
    BY DEF Pending, RecordMark, InputInv, Drained
  <2>3. /\ Linked(i, r) /\ i <= newest
        /\ \A j \in inbox[r] : f < j /\ j <= i => Linked(j, r) \/ <<j, r>> \in lost[q]
    BY <1>1, <2>2 DEF RecordMark, InputInv
  <2> HIDE DEF i, f
  <2>4. MarkInv'
    BY <1>1, <2>1, <2>3 DEF MarkInv
  <2>5. missed \subseteq missed'
    BY <1>3
  <2>6. ASSUME NEW j \in inbox[r], floor'[r] < j, j <= mark'[r]
        PROVE  Linked(j, r) \/ <<j, r>> \in missed'
    <3>1. j \in Int
      BY <1>1
    <3>2. CASE floor'[r] = floor[r] /\ j <= mark[r]
      BY <2>5, <2>6, <3>2 DEF GapsAreLostLines
    <3>3. CASE i > mark[r] /\ j <= i /\ f < j
      BY <1>3, <2>3, <3>3
    <3> QED
      BY <1>1, <2>1, <2>6, <3>1, <3>2, <3>3
  <2>7. GapsAreLostLines'
    BY <1>1, <2>1, <2>5, <2>6 DEF GapsAreLostLines, Linked
  <2>8. mark'[r] > floor'[r] => Linked(mark'[r], r)
    BY <1>1, <2>1, <2>3 DEF MarkIsStored
  <2>9. MarkIsStored'
    BY <1>1, <2>1, <2>8 DEF MarkIsStored, Linked
  <2> QED
    BY <2>4, <2>7, <2>9
<1> QED
  BY <1>2, <1>3 DEF RecordMark

LEMMA IngestInit_Inv == IngestInit => IngestInv
<1> SUFFICES ASSUME IngestInit
             PROVE  IngestInv
  OBVIOUS
<1>1. TypeOK /\ LocalInv /\ MarkInv
  BY PollAssumption, AnyFlagsType, FirstRole
     DEF IngestInit, Init, TypeOK, Step, Storing, Mark, NoRow, AnyBody,
         LocalInv, AssignedInv, ListInv, SelectionInv, HandInv, MarkInv, NoMark
<1>2. InputTypeOK
  BY DEF IngestInit, InputTypeOK, IngestStep, NoneStored, NoArgs, BodyOption
<1>3. \A q \in Ingester : /\ Drained(q) /\ listed[q] = {} /\ lines[q] = {}
                           /\ ipc[q] = "idle" /\ high[q] = NoneStored
  BY DEF IngestInit, Drained
<1>4. InputInv
  <2> SUFFICES ASSUME NEW q \in Ingester, NEW r \in Role
               PROVE  ~(high[q][r] > 0) /\ \A m \in Id : ~Pending(q, m, r) /\ m # high[q][r]
    BY <1>3 DEF InputInv
  <2>1. high[q][r] = 0
    BY <1>3 DEF NoneStored
  <2>2. \A m \in Id : m # 0
    BY DEF Id
  <2>3. \A m \in Id : ~Pending(q, m, r)
    BY <1>3 DEF Pending
  <2> QED
    BY <2>1, <2>2, <2>3
<1>5. GapsAreLostLines /\ MarkIsStored
  BY DEF IngestInit, Init, GapsAreLostLines, MarkIsStored, NoMark
<1> QED
  BY <1>1, <1>2, <1>4, <1>5 DEF IngestInv

\* Every step, of a poll or of an ingest, keeps the invariant.
LEMMA IngestInvStep == IngestInv /\ [IngestNext]_ingestVars => IngestInv'
<1> SUFFICES ASSUME IngestInv, [IngestNext]_ingestVars
             PROVE  IngestInv'
  OBVIOUS
<1>i. /\ TypeOK /\ InputTypeOK /\ LocalInv /\ MarkInv /\ InputInv
      /\ GapsAreLostLines /\ MarkIsStored
  BY DEF IngestInv
<1>1. CASE [Next]_vars /\ UNCHANGED <<input, missed>>
  <2>1. TypeOK' /\ LocalInv' /\ MarkEffect
    BY <1>1, <1>i, TypeStep, LocalStep
  <2>2. InputTypeOK'
    BY <1>1, <1>i DEF InputTypeOK, input, sync
  <2>3. MarkInv' /\ GapsAreLostLines' /\ MarkIsStored'
    BY <1>1, <1>i, <2>1, EffectBounds, PollKeepsMarks
  <2>4. InputInv'
    BY <1>1, <1>i, <2>1, PollKeepsInput
  <2> QED
    BY <2>1, <2>2, <2>3, <2>4 DEF IngestInv
<1>2. ASSUME NEW q \in Ingester, IngestAction(q)
      PROVE  IngestInv'
  <2>1. TypeOK' /\ InputTypeOK'
    BY <1>2, <1>i, InputTypeStep
  <2>2. InputInv'
    BY <1>2, <1>i, InputStep
  <2>3. UNCHANGED <<newest, inbox, process>> /\ links \subseteq links'
    BY <1>2 DEF IngestAction, Sync, ListRole, PrintLine, SyncDies, TakeLine,
       IngestInsert, IngestLink, LineError, EndOfInput, RecordMark, IngestDone, IngestStops, vars, wilma, db
  <2>4. LocalInv'
    BY <1>i, <2>3, PollersLeft
  <2>5. CASE UNCHANGED <<mark, floor, missed>>
    BY <1>i, <2>1, <2>2, <2>3, <2>4, <2>5, MarksLeft DEF IngestInv
  <2>6. ASSUME NEW r \in Role, RecordMark(q, r)
        PROVE  IngestInv'
    BY <1>i, <2>1, <2>2, <2>4, <2>6, RecordMarkKeeps DEF IngestInv
  <2>7. (\E r \in Role : RecordMark(q, r)) \/ UNCHANGED <<mark, floor, missed>>
    BY <1>2 DEF IngestAction, Sync, ListRole, PrintLine, SyncDies, TakeLine,
       IngestInsert, IngestLink, LineError, EndOfInput, IngestDone, IngestStops, vars, db
  <2> QED
    BY <2>5, <2>6, <2>7
<1>3. CASE UNCHANGED ingestVars
  BY <1>1, <1>3 DEF ingestVars
<1> QED
  BY <1>1, <1>2, <1>3 DEF IngestNext

LEMMA IngestInvHolds == IngestSpec => []IngestInv
BY IngestInit_Inv, IngestInvStep, PTL DEF IngestSpec

\* Beside any number of ingests and polls, a message between the start of a
\* role's history and its mark is missing only if its line failed in an ingest
\* that recorded a mark above it, or never reached that ingest because the sync
\* that had listed it died: ingest takes its end of input for a regular one.
THEOREM GapsExplained == IngestSpec => []GapsAreLostLines
<1>1. IngestInv => GapsAreLostLines
  BY DEF IngestInv
<1> QED
  BY <1>1, IngestInvHolds, PTL

\* A mark above the start of its role's history is the id of a message that is
\* stored for the role, whoever recorded it and whatever failed or was killed.
THEOREM MarksStored == IngestSpec => []MarkIsStored
<1>1. IngestInv => MarkIsStored
  BY DEF IngestInv
<1> QED
  BY <1>1, IngestInvHolds, PTL
=============================================================================
