-------------------------------- MODULE Poll --------------------------------
(***************************************************************************)
(* `wilmabridge poll`: incremental passes that list every role's Wilma     *)
(* inbox, fetch what is above the role's high-water mark, store it, hand   *)
(* new messages to --emit-new and advance the mark message by message      *)
(* (internal/poll/poll.go over internal/store/store.go).                   *)
(*                                                                         *)
(* Every statement the code sends to SQLite, every HTTP request and every  *)
(* write to stdout is a step of its own: the process may be killed, and    *)
(* other processes on the same database may run, between any two of them.  *)
(***************************************************************************)
EXTENDS Integers, Sequences

CONSTANTS
    Poller,     \* the poll processes that share the database
    NumRoles,   \* roles of the account, polled in the order 1 .. NumRoles
    MaxId,      \* bound: number of messages Wilma ever holds
    Body,       \* bodies a message page can show
    NoBody,     \* the empty body of a message stored by --bodies=false
    Flags,      \* command lines a pass may be started with
    OperatorIds,\* ids the operator may pass to db set-last-id
    Archivable, \* ids the user may move out of the inbox
    MaxFaults   \* bound: failures, cancellations and crashes in a behaviour

Role == 1 .. NumRoles
Id == 1 .. MaxId

Flag == [fromNow : BOOLEAN,  \* --from-now
         window  : BOOLEAN,  \* --bootstrap > 0
         bodies  : BOOLEAN,  \* --bodies
         emit    : BOOLEAN]  \* --emit-new

ASSUME PollAssumption ==
    /\ NumRoles \in Nat \ {0}
    /\ MaxId \in Nat
    /\ MaxFaults \in Nat
    /\ OperatorIds \subseteq Id \cup {0}
    /\ Archivable \subseteq Id
    /\ NoBody \notin Body
    /\ Body # {}
    /\ Flags \subseteq Flag
    /\ Flags # {}

NoMark == -1                      \* no sync_state row for the role
Mark == Id \cup {NoMark, 0}
Row == [id : Id, body : Body \cup {NoBody}]  \* key (wilma_id, content_hash)
NoRow == [id |-> 0, body |-> NoBody]
AnyBody == CHOOSE b \in Body : TRUE
AnyFlags == CHOOSE f \in Flags : TRUE

VARIABLES
    \* Wilma, as its clients see it
    newest,     \* the last message id Wilma has assigned
    inbox,      \* inbox[r]: ids listed for role r
    shown,      \* shown[i]: the body message i's page shows now
    dated,      \* ids whose timestamp this program can parse
    aged,       \* ids up to this one are older than now - bootstrap
    \* the SQLite database
    rows,       \* messages
    links,      \* message_children: pairs of a row and a role
    mark,       \* sync_state
    floor,      \* auxiliary: the id above which the role's history is recorded
    polled,     \* poll_state: roles a pass has reached
    \* what --emit-new has written
    out,
    \* each process
    pc, cur,    \* next step, role being polled
    seen,       \* mark read at the start of the role
    todo,       \* listed ids, then the selected ids still to be ingested
    base,       \* auxiliary: the id just below the selection
    cache,      \* bodyCache of the pass
    row, fresh, \* message in hand, and whether its INSERT created a row
    opt,        \* flags of the pass
    faults      \* failures so far

wilma   == <<newest, inbox, shown, dated, aged>>
db      == <<rows, links, mark, floor, polled>>
process == <<pc, cur, seen, todo, base, cache, row, fresh, opt>>
vars    == <<wilma, db, out, process, faults>>

Step == {"idle", "mark", "list", "select", "fromnow",
         "body", "insert", "link", "emit", "advance"}
Storing == {"insert", "link", "emit", "advance"}  \* a message is in hand

(***************************************************************************)
(* Initially the account is empty, the database new and no pass runs.      *)
(***************************************************************************)
Init ==
    /\ newest = 0
    /\ inbox = [r \in Role |-> {}]
    /\ shown = [i \in Id |-> AnyBody]
    /\ dated = {}
    /\ aged = 0
    /\ rows = {} /\ links = {} /\ polled = {}
    /\ mark = [r \in Role |-> NoMark]
    /\ floor = [r \in Role |-> NoMark]
    /\ out = <<>>
    /\ pc = [p \in Poller |-> "idle"]
    /\ cur = [p \in Poller |-> 1]
    /\ seen = [p \in Poller |-> NoMark]
    /\ todo = [p \in Poller |-> {}]
    /\ base = [p \in Poller |-> NoMark]
    /\ cache = [p \in Poller |-> {}]
    /\ row = [p \in Poller |-> NoRow]
    /\ fresh = [p \in Poller |-> FALSE]
    /\ opt = [p \in Poller |-> AnyFlags]
    /\ faults = 0

-----------------------------------------------------------------------------
(* Wilma and time (external): ids grow, a message may reach several roles.  *)

Arrive ==
    /\ newest < MaxId
    /\ newest' = newest + 1
    /\ \E to \in (SUBSET Role) \ {{}} :
          inbox' = [r \in Role |-> IF r \in to THEN inbox[r] \cup {newest'}
                                              ELSE inbox[r]]
    /\ dated' \in {dated, dated \cup {newest'}}
    /\ UNCHANGED <<shown, aged, db, out, process, faults>>

Archive(r, i) ==
    /\ i \in inbox[r]
    /\ inbox' = [inbox EXCEPT ![r] = @ \ {i}]
    /\ UNCHANGED <<newest, shown, dated, aged, db, out, process, faults>>

Edit(i, b) ==
    /\ i <= newest
    /\ b # shown[i]
    /\ shown' = [shown EXCEPT ![i] = b]
    /\ UNCHANGED <<newest, inbox, dated, aged, db, out, process, faults>>

Age ==
    /\ aged < newest
    /\ aged' = aged + 1
    /\ UNCHANGED <<newest, inbox, shown, dated, db, out, process, faults>>

-----------------------------------------------------------------------------
(* Helpers of the passes.                                                   *)

Least(i, S) == i \in S /\ \A j \in S : i <= j

\* Bug: the window filters messages one by one instead of setting an id floor.
SelectInWindow(msgs, haveMark, m, window) ==
    CASE haveMark  -> {i \in msgs : i > m}
      [] ~haveMark /\ ~window -> msgs
      [] OTHER -> {i \in msgs : i \in dated /\ i > aged}

\* Bug: the first message above the mark is taken to be stored already.
SelectAfterNext(msgs, haveMark, m, window) ==
    CASE haveMark  -> {i \in msgs : i > m + 1}
      [] ~haveMark /\ ~window -> msgs
      [] OTHER -> {i \in msgs : \E f \in msgs : f \in dated /\ f > aged /\ f <= i}

\* Without a mark, a bootstrap window starts at the first message whose
\* timestamp parses and is not before the cutoff, and takes every id from there.
SelectNew(msgs, haveMark, m, window) ==
    CASE haveMark  -> {i \in msgs : i > m}
      [] ~haveMark /\ ~window -> msgs
      [] OTHER -> {i \in msgs : \E f \in msgs : f \in dated /\ f > aged /\ f <= i}

\* Bug: the mark is one too high.
SetMarkAfter(r, i, from) ==
    /\ mark' = [mark EXCEPT ![r] = IF i > @ THEN i + 1 ELSE @]
    /\ floor' = [floor EXCEPT ![r] = IF from > mark[r] THEN from ELSE @]

\* Bug: the last writer wins.
SetMarkUnordered(r, i, from) ==
    /\ mark' = [mark EXCEPT ![r] = i]
    /\ floor' = [floor EXCEPT ![r] = IF from > mark[r] THEN from ELSE @]

\* The mark never goes down.  `from` is where the caller's knowledge of the
\* role starts: a caller that starts above the recorded mark restarts history.
SetHighWaterMark(r, i, from) ==
    /\ mark' = [mark EXCEPT ![r] = IF i > @ THEN i ELSE @]
    /\ floor' = [floor EXCEPT ![r] = IF from > mark[r] THEN from ELSE @]

ResetRole(p) ==
    /\ seen' = [seen EXCEPT ![p] = NoMark]
    /\ todo' = [todo EXCEPT ![p] = {}]
    /\ base' = [base EXCEPT ![p] = NoMark]
    /\ row' = [row EXCEPT ![p] = NoRow]
    /\ fresh' = [fresh EXCEPT ![p] = FALSE]

\* The pass returns: its locals and its body cache are gone.
EndPass(p) ==
    /\ pc' = [pc EXCEPT ![p] = "idle"]
    /\ cur' = [cur EXCEPT ![p] = 1]
    /\ cache' = [cache EXCEPT ![p] = {}]
    /\ opt' = [opt EXCEPT ![p] = AnyFlags]
    /\ ResetRole(p)

\* pollRole returns without a pass-fatal error: Pass goes on to the next role.
EndRole(p) ==
    \/ /\ cur[p] < NumRoles
       /\ pc' = [pc EXCEPT ![p] = "mark"]
       /\ cur' = [cur EXCEPT ![p] = @ + 1]
       /\ ResetRole(p)
       /\ UNCHANGED <<cache, opt>>
    \/ cur[p] = NumRoles /\ EndPass(p)

\* pollRole goes to its next step.
GoTo(p, step) == pc' = [pc EXCEPT ![p] = step]

-----------------------------------------------------------------------------
(* A pass.                                                                  *)

StartPass(p) ==
    /\ pc[p] = "idle"
    /\ GoTo(p, "mark")
    /\ \E f \in Flags : opt' = [opt EXCEPT ![p] = f]
    /\ UNCHANGED <<wilma, db, out, cur, seen, todo, base, cache, row, fresh, faults>>

\* Bug: the recorded mark is not read.
ForgetMark(p) ==
    /\ pc[p] = "mark"
    /\ GoTo(p, "list")
    /\ seen' = [seen EXCEPT ![p] = NoMark]
    /\ UNCHANGED <<wilma, db, out, cur, todo, base, cache, row, fresh, opt, faults>>

ReadMark(p) ==
    /\ pc[p] = "mark"
    /\ GoTo(p, "list")
    /\ seen' = [seen EXCEPT ![p] = mark[cur[p]]]
    /\ UNCHANGED <<wilma, db, out, cur, todo, base, cache, row, fresh, opt, faults>>

List(p) ==
    /\ pc[p] = "list"
    /\ GoTo(p, "select")
    /\ todo' = [todo EXCEPT ![p] = inbox[cur[p]]]
    /\ UNCHANGED <<wilma, db, out, cur, seen, base, cache, row, fresh, opt, faults>>

\* selectNew and the branch on FromNow; a role with nothing to do is over.
Select(p) ==
    LET adopt == seen[p] = NoMark /\ opt[p].fromNow
        sel   == SelectNew(todo[p], seen[p] # NoMark, seen[p], opt[p].window)
    IN  \/ /\ adopt /\ todo[p] # {}
           /\ GoTo(p, "fromnow")
           /\ UNCHANGED <<cur, seen, todo, base, cache, row, fresh, opt>>
        \/ /\ ~adopt /\ sel # {}
           /\ GoTo(p, "body")
           /\ todo' = [todo EXCEPT ![p] = sel]
           /\ \E i \in sel : /\ Least(i, sel)
                             /\ base' = [base EXCEPT ![p] =
                                   IF seen[p] = NoMark THEN i - 1 ELSE seen[p]]
           /\ UNCHANGED <<cur, seen, cache, row, fresh, opt>>
        \/ /\ IF adopt THEN todo[p] = {} ELSE sel = {}
           /\ EndRole(p)

\* Recording the poll time may fail; the role goes on all the same.
MarkPolled(p) ==
    /\ pc[p] = "select"
    /\ Select(p)
    /\ \/ polled' = polled \cup {cur[p]} /\ UNCHANGED faults
       \/ faults < MaxFaults /\ faults' = faults + 1 /\ UNCHANGED polled
    /\ UNCHANGED <<wilma, rows, links, mark, floor, out>>

AdoptNewest(p) ==
    /\ pc[p] = "fromnow"
    /\ \E i \in todo[p] : /\ \A j \in todo[p] : j <= i
                          /\ SetHighWaterMark(cur[p], i, i)
    /\ EndRole(p)
    /\ UNCHANGED <<wilma, rows, links, polled, out, faults>>

\* Bug: every role fetches the body for itself.
NotCached(p, i) == FALSE

Cached(p, i) == \E b \in Body : [id |-> i, body |-> b] \in cache[p]

\* The loop head: the selection is exhausted, or the next message gets its
\* body, which a shared message takes from the pass's cache.
TakeBody(p) ==
    /\ pc[p] = "body"
    /\ \E i \in todo[p] :
          /\ Least(i, todo[p])
          /\ \/ /\ ~opt[p].bodies
                /\ row' = [row EXCEPT ![p] = [id |-> i, body |-> NoBody]]
                /\ UNCHANGED cache
             \/ /\ opt[p].bodies
                /\ \E b \in Body :
                      /\ [id |-> i, body |-> b] \in cache[p]
                      /\ row' = [row EXCEPT ![p] = [id |-> i, body |-> b]]
                /\ UNCHANGED cache
             \/ /\ opt[p].bodies /\ ~Cached(p, i)
                /\ row' = [row EXCEPT ![p] = [id |-> i, body |-> shown[i]]]
                /\ cache' = [cache EXCEPT ![p] = @ \cup {row'[p]}]
    /\ GoTo(p, "insert")
    /\ UNCHANGED <<wilma, db, out, cur, seen, todo, base, fresh, opt, faults>>

RoleDone(p) ==
    /\ pc[p] = "body"
    /\ todo[p] = {}
    /\ EndRole(p)
    /\ UNCHANGED <<wilma, db, out, faults>>

\* Bug: a row that exists already is taken to be linked already.
InsertOrSkip(p) ==
    /\ pc[p] = "insert"
    /\ GoTo(p, IF row[p] \in rows THEN "advance" ELSE "link")
    /\ rows' = rows \cup {row[p]}
    /\ fresh' = [fresh EXCEPT ![p] = row[p] \notin rows]
    /\ UNCHANGED <<wilma, links, mark, floor, polled, out,
                   cur, seen, todo, base, cache, row, opt, faults>>

\* Bug: a new message is emitted before IngestMessage has finished.
InsertThenEmit(p) ==
    /\ pc[p] = "insert"
    /\ GoTo(p, IF row[p] \in rows THEN "link" ELSE "emit")
    /\ rows' = rows \cup {row[p]}
    /\ fresh' = [fresh EXCEPT ![p] = row[p] \notin rows]
    /\ UNCHANGED <<wilma, links, mark, floor, polled, out,
                   cur, seen, todo, base, cache, row, opt, faults>>

\* IngestMessage, first statement: INSERT ... ON CONFLICT DO NOTHING.
InsertMessage(p) ==
    /\ pc[p] = "insert"
    /\ GoTo(p, "link")
    /\ rows' = rows \cup {row[p]}
    /\ fresh' = [fresh EXCEPT ![p] = row[p] \notin rows]
    /\ UNCHANGED <<wilma, links, mark, floor, polled, out,
                   cur, seen, todo, base, cache, row, opt, faults>>

\* Bug: every stored message is emitted, new or not.
LinkAndEmit(p) ==
    /\ pc[p] = "link"
    /\ GoTo(p, IF opt[p].emit THEN "emit" ELSE "advance")
    /\ links' = links \cup {<<row[p], cur[p]>>}
    /\ UNCHANGED <<wilma, rows, mark, floor, polled, out,
                   cur, seen, todo, base, cache, row, fresh, opt, faults>>

\* Bug: a message is taken for new if no child has it yet.
LinkFirst(p) ==
    /\ pc[p] = "link"
    /\ GoTo(p, IF opt[p].emit /\ fresh[p] /\ (\A l \in links : l[1] # row[p]) THEN "emit" ELSE "advance")
    /\ links' = links \cup {<<row[p], cur[p]>>}
    /\ UNCHANGED <<wilma, rows, mark, floor, polled, out,
                   cur, seen, todo, base, cache, row, fresh, opt, faults>>

\* IngestMessage, second statement: the link to the child, new row or not.
LinkChild(p) ==
    /\ pc[p] = "link"
    /\ GoTo(p, IF fresh[p] /\ opt[p].emit THEN "emit" ELSE "advance")
    /\ links' = links \cup {<<row[p], cur[p]>>}
    /\ UNCHANGED <<wilma, rows, mark, floor, polled, out,
                   cur, seen, todo, base, cache, row, fresh, opt, faults>>

Emit(p) ==
    /\ pc[p] = "emit"
    /\ GoTo(p, "advance")
    /\ out' = Append(out, row[p])
    /\ fresh' = [fresh EXCEPT ![p] = FALSE]
    /\ UNCHANGED <<wilma, db, cur, seen, todo, base, cache, row, opt, faults>>

Advance(p) ==
    /\ pc[p] = "advance"
    /\ GoTo(p, "body")
    /\ SetHighWaterMark(cur[p], row[p].id, base[p])
    /\ todo' = [todo EXCEPT ![p] = @ \ {row[p].id}]
    /\ row' = [row EXCEPT ![p] = NoRow]
    /\ fresh' = [fresh EXCEPT ![p] = FALSE]
    /\ UNCHANGED <<wilma, rows, links, polled, out,
                   cur, seen, base, cache, opt, faults>>

-----------------------------------------------------------------------------
(* What can go wrong in a pass, and the operator's escape hatch.            *)

\* The steps that send a request, run a statement or write the output.
Fallible(p) ==
    \/ pc[p] \in {"mark", "list", "fromnow", "insert", "link", "emit", "advance"}
    \/ pc[p] = "body" /\ opt[p].bodies /\ \E i \in todo[p] : Least(i, todo[p]) /\ ~Cached(p, i)

\* Role-fatal: the role stops here for this pass.
RoleError(p) ==
    /\ Fallible(p)
    /\ faults < MaxFaults /\ faults' = faults + 1
    /\ EndRole(p)
    /\ UNCHANGED <<wilma, db, out>>

\* Pass-fatal: the session has expired, or the context is cancelled.
PassError(p) ==
    /\ \/ pc[p] \in {"mark", "list"}
       \/ pc[p] = "body" /\ todo[p] # {}
    /\ faults < MaxFaults /\ faults' = faults + 1
    /\ EndPass(p)
    /\ UNCHANGED <<wilma, db, out>>

\* The process is killed at any point; the next one starts a fresh pass.
Crash(p) ==
    /\ pc[p] # "idle"
    /\ faults < MaxFaults /\ faults' = faults + 1
    /\ EndPass(p)
    /\ UNCHANGED <<wilma, db, out>>

\* wilmabridge db set-last-id.
SetLastID(r, i) ==
    /\ SetHighWaterMark(r, i, i)
    /\ UNCHANGED <<wilma, rows, links, polled, out, process, faults>>

-----------------------------------------------------------------------------
PassStep(p) ==
    \/ StartPass(p) \/ ReadMark(p) \/ List(p) \/ MarkPolled(p) \/ AdoptNewest(p)
    \/ TakeBody(p) \/ RoleDone(p) \/ InsertMessage(p) \/ LinkChild(p)
    \/ Emit(p) \/ Advance(p)

Environment ==
    \/ Arrive \/ Age
    \/ \E r \in Role, i \in Archivable : Archive(r, i)
    \/ \E i \in Id, b \in Body : Edit(i, b)

Operator == \E r \in Role, i \in OperatorIds : SetLastID(r, i)

Next ==
    \/ \E p \in Poller : PassStep(p) \/ RoleError(p) \/ PassError(p) \/ Crash(p)
    \/ Environment
    \/ Operator

\* A pass is started again and again (cron, or --interval) and is not stopped
\* for ever between two of its steps.
Fairness == \A p \in Poller : WF_vars(PassStep(p))

Spec == Init /\ [][Next]_vars
FairSpec == Spec /\ Fairness

-----------------------------------------------------------------------------
TypeOK ==
    /\ newest \in 0 .. MaxId
    /\ inbox \in [Role -> SUBSET Id]
    /\ shown \in [Id -> Body]
    /\ dated \in SUBSET Id
    /\ aged \in 0 .. MaxId
    /\ rows \in SUBSET Row
    /\ links \in SUBSET (Row \X Role)
    /\ mark \in [Role -> Mark]
    /\ floor \in [Role -> Mark]
    /\ polled \in SUBSET Role
    /\ out \in Seq(Row)
    /\ pc \in [Poller -> Step]
    /\ cur \in [Poller -> Role]
    /\ seen \in [Poller -> Mark]
    /\ todo \in [Poller -> SUBSET Id]
    /\ base \in [Poller -> Mark]
    /\ cache \in [Poller -> SUBSET Row]
    /\ row \in [Poller -> Row \cup {NoRow}]
    /\ fresh \in [Poller -> BOOLEAN]
    /\ opt \in [Poller -> Flags]
    /\ \A p \in Poller : pc[p] \in Storing => row[p] \in Row
    /\ faults \in 0 .. MaxFaults

Linked(i, r) == \E l \in links : l[1].id = i /\ l[2] = r

\* "Never skipping a gap": between the id where the role's recorded history
\* starts and its mark, every message in the inbox is stored and linked to the
\* role -- whatever failed, crashed or ran concurrently on the way.
Contiguous ==
    \A r \in Role : \A i \in inbox[r] :
        floor[r] < i /\ i <= mark[r] => Linked(i, r)

\* No message row is written to --emit-new's stream twice, over any number of
\* passes, roles, processes and restarts.
EmittedOnce == \A j, k \in DOMAIN out : out[j] = out[k] => j = k

\* Nothing is streamed to the delivery agent that the database would not also
\* show, linked to a child, after a crash right there.
EmittedIsStored ==
    \A j \in DOMAIN out : out[j] \in rows /\ \E r \in Role : <<out[j], r>> \in links

\* Within one pass a message has one body, so a message two children share is
\* stored under one content hash even if its page changes between the roles.
OneBodyPerPass ==
    \A p \in Poller :
        /\ \A k, l \in cache[p] : k.id = l.id => k = l
        /\ pc[p] \in Storing /\ opt[p].bodies
              => row[p] \in cache[p]

\* As long as nothing fails, no stored message misses the stream: each was
\* written to it, or is in the hands of the process whose INSERT made it.  Only
\* a failed step, or a kill, can drop one (it is then dropped for good).
StreamedUnlessFault ==
    faults = 0 /\ (\A f \in Flags : f.emit) =>
        \A l \in links : \/ \E j \in DOMAIN out : out[j] = l[1]
                         \/ \E p \in Poller : fresh[p] /\ row[p] = l[1]

\* Polling implements Feed: every step of every pass, interrupted or not, is a
\* step that keeps the promise of the mark, or changes nothing it can see.
PolledFeed == INSTANCE Feed WITH
    FeedRole <- Role,
    FeedId   <- Id,
    listed   <- inbox,
    held     <- [r \in Role |-> {i \in Id : Linked(i, r)}],
    high     <- mark,
    start    <- floor
ImplementsFeed == PolledFeed!FeedSpec

\* The bootstrap window and --from-now count only for a role's first ever poll:
\* once a role has a mark, no pass of the only poller restarts its history.
HistoryNeverRestarted ==
    [][\A r \in Role : mark[r] # NoMark => floor'[r] = floor[r] /\ mark'[r] >= mark[r]]_vars

\* A message above the mark's history reaches the role's stored messages in the
\* end, unless it is archived or the operator moves the mark past it.
EventuallyStored ==
    \A r \in Role, i \in Id :
        (i \in inbox[r] /\ mark[r] # NoMark /\ i > floor[r])
            ~> (Linked(i, r) \/ i \notin inbox[r] \/ i <= floor[r])

-----------------------------------------------------------------------------
(* Why Contiguous and EmittedOnce hold: the inductive invariant.            *)

\* No id is listed, or in a process's hands, before Wilma has assigned it.
AssignedInv ==
    /\ \A r \in Role : \A i \in inbox[r] : i <= newest
    /\ \A p \in Poller : \A i \in todo[p] : i <= newest

\* A mark above every assigned id was put there by the operator.
MarkInv == \A r \in Role : mark[r] <= newest \/ mark[r] <= floor[r]

\* What the process has listed is still the bottom of the inbox.
ListInv ==
    \A p \in Poller : pc[p] = "select" =>
        \A i \in inbox[cur[p]], m \in todo[p] : i <= m => i \in todo[p]

\* Up to the last selected message, what is not stored is still to be done.
SelectionInv ==
    \A p \in Poller : pc[p] \in {"body"} \cup Storing =>
        /\ \A i \in inbox[cur[p]], m \in todo[p] :
              base[p] < i /\ i <= m => i \in todo[p] \/ Linked(i, cur[p])
        /\ \A m \in todo[p] : base[p] < m

\* The message in hand is the least of the selection, and is linked before it
\* is emitted and the mark moves to it.
HandInv ==
    \A p \in Poller :
        /\ pc[p] \in Storing => Least(row[p].id, todo[p])
        /\ pc[p] \in {"emit", "advance"} => Linked(row[p].id, cur[p])

\* A row that an INSERT created has not been emitted, and is in the hands of
\* the one process that created it.
FreshInv ==
    /\ \A j \in DOMAIN out : out[j] \in rows
    /\ \A p \in Poller :
          /\ pc[p] = "emit" => fresh[p]
          /\ fresh[p] => /\ pc[p] \in {"link", "emit", "advance"}
                         /\ row[p] \in rows
                         /\ \A j \in DOMAIN out : out[j] # row[p]
    /\ \A p, q \in Poller : fresh[p] /\ fresh[q] /\ row[p] = row[q] => p = q

GapInv == AssignedInv /\ MarkInv /\ ListInv /\ SelectionInv /\ HandInv /\ Contiguous
EmitInv == FreshInv /\ EmittedOnce
=============================================================================
