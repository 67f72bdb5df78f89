------------------------------- MODULE Ingest -------------------------------
(***************************************************************************)
(* `wilmabridge sync | wilmabridge ingest` beside any number of polls on    *)
(* the same database (cmdSync and cmdIngest of cmd/wilmabridge/main.go).    *)
(* Unlike a poll, ingest takes lines newest first, goes on after a line     *)
(* that fails, and records the marks only when its input has ended -- which *)
(* it also has when sync died before it had printed everything.             *)
(***************************************************************************)
EXTENDS Poll

CONSTANTS
    Ingester,   \* the processes that may run sync | ingest
    SyncBodies  \* what --bodies may be when a sync is started

BodyOption == {"fetched", "omitted"}

ASSUME IngestAssumption == SyncBodies \subseteq BodyOption

VARIABLES
    ipc,        \* next step of each ingest
    args,       \* --after, the cutoff that --since stands for, --bodies
    unlisted,   \* roles its sync has yet to list
    listed,     \* messages its sync has yet to print
    lines,      \* lines printed and not yet read
    hand,       \* the line in hand
    high,       \* highWater: highest id stored so far, per role
    lost,       \* auxiliary: messages listed whose line failed or never came
    missed      \* auxiliary: lost messages that a mark has passed

sync       == <<args, unlisted, listed>>
input      == <<ipc, sync, lines, hand, high, lost>>
ingestVars == <<vars, input, missed>>

Line == [row : Row, role : Role]
NoLine == [row |-> NoRow, role |-> 1]
NoArgs == [after |-> 0, cutoff |-> 0, bodies |-> "omitted"]
NoneStored == [r \in Role |-> 0]

IngestStep == {"idle", "line", "insert", "link", "marks"}

IngestInit ==
    /\ Init
    /\ ipc = [q \in Ingester |-> "idle"]
    /\ args = [q \in Ingester |-> NoArgs]
    /\ unlisted = [q \in Ingester |-> {}]
    /\ listed = [q \in Ingester |-> {}]
    /\ lines = [q \in Ingester |-> {}]
    /\ hand = [q \in Ingester |-> NoLine]
    /\ high = [q \in Ingester |-> NoneStored]
    /\ lost = [q \in Ingester |-> {}]
    /\ missed = {}

-----------------------------------------------------------------------------
(* sync.                                                                    *)

\* --after and --since: the cutoff drops messages by their time, not by id.
Listed(arg, r) ==
    {i \in inbox[r] : i > arg.after /\ ~(i \in dated /\ i <= arg.cutoff)}

\* Below this id the command line asks for nothing complete.
ListedFrom(arg) == IF arg.cutoff > arg.after THEN arg.cutoff ELSE arg.after

\* Role by role, and in each role the newest first.
Before(k, l) == k.role < l.role \/ (k.role = l.role /\ k.row.id > l.row.id)

\* The pipeline is started; the cutoff is taken once, for all roles.  One that is
\* not above --after drops nothing more, like none.
Sync(q) ==
    /\ ipc[q] = "idle"
    /\ \E after \in 0 .. newest, cutoff \in {0, aged}, bodies \in SyncBodies :
          /\ cutoff = 0 \/ cutoff > after
          /\ args' = [args EXCEPT ![q] =
                         [after |-> after, cutoff |-> cutoff, bodies |-> bodies]]
    /\ unlisted' = [unlisted EXCEPT ![q] = Role]
    /\ ipc' = [ipc EXCEPT ![q] = "line"]
    /\ UNCHANGED <<vars, listed, lines, hand, high, lost, missed>>

\* The next role, once the last one is printed: it is listed, or it is left out
\* (--role, or a list request that fails).
ListRole(q) ==
    /\ listed[q] = {}
    /\ \E r \in unlisted[q] :
          /\ \A s \in unlisted[q] : r <= s
          /\ unlisted' = [unlisted EXCEPT ![q] = @ \ {r}]
          /\ \/ listed' = [listed EXCEPT ![q] = Listed(args[q], r) \X {r}]
             \/ UNCHANGED listed
    /\ UNCHANGED <<vars, ipc, args, lines, hand, high, lost, missed>>

\* A message is printed, with its page of now, or without a body: under
\* --bodies=false, or when the page fails to fetch.
PrintLine(q) ==
    /\ \E m \in listed[q] :
          /\ \A n \in listed[q] : n[1] <= m[1]
          /\ listed' = [listed EXCEPT ![q] = @ \ {m}]
          /\ \E body \in {shown[m[1]], NoBody} :
                /\ lines' = [lines EXCEPT ![q] =
                                @ \cup {[row |-> [id |-> m[1], body |-> body], role |-> m[2]]}]
                /\ \/ body # NoBody /\ args[q].bodies = "fetched" /\ UNCHANGED faults
                   \/ body = NoBody /\ args[q].bodies = "omitted" /\ UNCHANGED faults
                   \/ body = NoBody /\ args[q].bodies = "fetched"
                      /\ faults < MaxFaults /\ faults' = faults + 1
    /\ UNCHANGED <<wilma, db, out, process, ipc, args, unlisted, hand, high, lost, missed>>

\* Sync is killed, or cannot write on: what it has not printed, and what its
\* buffer still holds, never comes.
SyncDies(q) ==
    /\ ipc[q] \in {"line", "insert", "link"}
    /\ faults < MaxFaults /\ faults' = faults + 1
    /\ \E kept \in SUBSET lines[q] :
          /\ \A k \in kept, l \in lines[q] \ kept : Before(k, l)
          /\ lines' = [lines EXCEPT ![q] = kept]
          /\ lost' = [lost EXCEPT ![q] =
                         @ \cup listed[q] \cup {<<l.row.id, l.role>> : l \in lines[q] \ kept}]
    /\ listed' = [listed EXCEPT ![q] = {}]
    /\ unlisted' = [unlisted EXCEPT ![q] = {}]
    /\ UNCHANGED <<wilma, db, out, process, ipc, args, hand, high, missed>>

-----------------------------------------------------------------------------
(* ingest.                                                                  *)

TakeLine(q) ==
    /\ ipc[q] = "line"
    /\ \E l \in lines[q] :
          /\ \A k \in lines[q] : k = l \/ Before(l, k)
          /\ hand' = [hand EXCEPT ![q] = l]
          /\ lines' = [lines EXCEPT ![q] = @ \ {l}]
    /\ ipc' = [ipc EXCEPT ![q] = "insert"]
    /\ UNCHANGED <<vars, sync, high, lost, missed>>

\* IngestMessage, first statement.
IngestInsert(q) ==
    /\ ipc[q] = "insert"
    /\ rows' = rows \cup {hand[q].row}
    /\ ipc' = [ipc EXCEPT ![q] = "link"]
    /\ UNCHANGED <<wilma, links, mark, floor, polled, out, process, faults,
                   sync, lines, hand, high, lost, missed>>

\* Bug: the mark is recorded line by line, as a poll does.
IngestLinkAndMark(q) ==
    /\ ipc[q] = "link"
    /\ links' = links \cup {<<hand[q].row, hand[q].role>>}
    /\ SetHighWaterMark(hand[q].role, hand[q].row.id, ListedFrom(args[q]))
    /\ hand' = [hand EXCEPT ![q] = NoLine]
    /\ ipc' = [ipc EXCEPT ![q] = "line"]
    /\ UNCHANGED <<wilma, rows, polled, out, process, faults,
                   sync, lines, high, lost, missed>>

\* IngestMessage, second statement, and the local highWater.
IngestLink(q) ==
    /\ ipc[q] = "link"
    /\ links' = links \cup {<<hand[q].row, hand[q].role>>}
    /\ high' = [high EXCEPT ![q][hand[q].role] =
                   IF hand[q].row.id > @ THEN hand[q].row.id ELSE @]
    /\ hand' = [hand EXCEPT ![q] = NoLine]
    /\ ipc' = [ipc EXCEPT ![q] = "line"]
    /\ UNCHANGED <<wilma, rows, mark, floor, polled, out, process, faults,
                   sync, lines, lost, missed>>

\* Bug: highWater is raised although the line has failed.
LineErrorRaises(q) ==
    /\ ipc[q] \in {"insert", "link"}
    /\ faults < MaxFaults /\ faults' = faults + 1
    /\ lost' = [lost EXCEPT ![q] = @ \cup {<<hand[q].row.id, hand[q].role>>}]
    /\ high' = [high EXCEPT ![q][hand[q].role] =
                   IF hand[q].row.id > @ THEN hand[q].row.id ELSE @]
    /\ hand' = [hand EXCEPT ![q] = NoLine]
    /\ ipc' = [ipc EXCEPT ![q] = "line"]
    /\ UNCHANGED <<wilma, db, out, process, sync, lines, missed>>

\* The line is not JSON, or IngestMessage fails: the next line is taken.
LineError(q) ==
    /\ ipc[q] \in {"insert", "link"}
    /\ faults < MaxFaults /\ faults' = faults + 1
    /\ lost' = [lost EXCEPT ![q] = @ \cup {<<hand[q].row.id, hand[q].role>>}]
    /\ hand' = [hand EXCEPT ![q] = NoLine]
    /\ ipc' = [ipc EXCEPT ![q] = "line"]
    /\ UNCHANGED <<wilma, db, out, process, sync, lines, high, missed>>

\* A sync that has ended and one that has died look the same.
EndOfInput(q) ==
    /\ ipc[q] = "line"
    /\ unlisted[q] = {} /\ listed[q] = {} /\ lines[q] = {}
    /\ ipc' = [ipc EXCEPT ![q] = "marks"]
    /\ UNCHANGED <<vars, sync, lines, hand, high, lost, missed>>

\* The roles of highWater, in any order; one whose statement fails is left out.
RecordMark(q, r) ==
    /\ ipc[q] = "marks"
    /\ high[q][r] > 0
    /\ \/ /\ SetHighWaterMark(r, high[q][r], ListedFrom(args[q]))
          /\ missed' = IF high[q][r] > mark[r]
                          THEN missed \cup {m \in lost[q] : m[2] = r}
                          ELSE missed
          /\ UNCHANGED faults
       \/ /\ faults < MaxFaults /\ faults' = faults + 1
          /\ UNCHANGED <<mark, floor, missed>>
    /\ high' = [high EXCEPT ![q][r] = 0]
    /\ UNCHANGED <<wilma, rows, links, polled, out, process, ipc, sync, lines, hand, lost>>

Exit(q) ==
    /\ ipc' = [ipc EXCEPT ![q] = "idle"]
    /\ args' = [args EXCEPT ![q] = NoArgs]
    /\ unlisted' = [unlisted EXCEPT ![q] = {}]
    /\ listed' = [listed EXCEPT ![q] = {}]
    /\ lines' = [lines EXCEPT ![q] = {}]
    /\ hand' = [hand EXCEPT ![q] = NoLine]
    /\ high' = [high EXCEPT ![q] = NoneStored]
    /\ lost' = [lost EXCEPT ![q] = {}]

IngestDone(q) ==
    /\ ipc[q] = "marks"
    /\ high[q] = NoneStored
    /\ Exit(q)
    /\ UNCHANGED <<vars, missed>>

\* Killed at any point, or stdin cannot be read on: no mark is recorded.
IngestStops(q) ==
    /\ ipc[q] # "idle"
    /\ faults < MaxFaults /\ faults' = faults + 1
    /\ Exit(q)
    /\ UNCHANGED <<wilma, db, out, process, missed>>

-----------------------------------------------------------------------------
IngestAction(q) ==
    \/ Sync(q) \/ ListRole(q) \/ PrintLine(q) \/ SyncDies(q)
    \/ TakeLine(q) \/ IngestInsert(q) \/ IngestLink(q) \/ LineError(q)
    \/ EndOfInput(q) \/ (\E r \in Role : RecordMark(q, r)) \/ IngestDone(q)
    \/ IngestStops(q)

IngestNext ==
    \/ Next /\ UNCHANGED <<input, missed>>
    \/ \E q \in Ingester : IngestAction(q)

IngestSpec == IngestInit /\ [][IngestNext]_ingestVars

-----------------------------------------------------------------------------
\* What ingest does to the promise of the mark: below it, only messages are
\* missing whose line failed, or that a sync which died had listed and not yet
\* delivered, in an ingest that stored a later one.
GapsAreLostLines ==
    \A r \in Role : \A i \in inbox[r] :
        floor[r] < i /\ i <= mark[r] => Linked(i, r) \/ <<i, r>> \in missed

\* A mark above the start of the role's history is the id of a message that is
\* stored for the role: a failed line, or a kill, never leaves a mark of its own.
MarkIsStored ==
    \A r \in Role : mark[r] > floor[r] => Linked(mark[r], r)
=============================================================================
