------------------------------ MODULE Extraction ------------------------------
(***************************************************************************)
(* `wilmabridge extract --db` and `wilmabridge reextract`: passes that     *)
(* select a batch of stored messages, open an extraction run, have Gemini  *)
(* answer for each message, and record the answer as the message's newest  *)
(* generation of events (cmd/wilmabridge/main.go, extractPass, over        *)
(* internal/store/store.go).                                               *)
(*                                                                         *)
(* Each statement or transaction on the database and each Gemini call is a *)
(* step; kills, signals and the other processes come between any two.      *)
(***************************************************************************)
EXTENDS Integers, Sequences, FiniteSets

CONSTANTS
    Extractor,    \* processes that run extract --db
    Reextractor,  \* processes that run reextract
    NumMsgs,      \* bound: messages ever stored, in the order of their ids
    Child,        \* the account's children
    Event,        \* the events an answer may hold
    Guardian,     \* those of them whose audience is the guardians
    Poison,       \* messages Gemini may answer with a negative recurrence count
    MaxVer,       \* bound: the newest extract_ver ever deployed
    Limit,        \* --limit
    MaxAttempts,  \* --max-attempts
    AbortAfter,   \* consecutive failures that end a pass (3 in the code)
    MaxRuns,      \* bound: extraction runs ever started
    MaxFaults     \* bound: database errors, broken pipes, signals and kills

Process == Extractor \cup Reextractor
Msg == 1 .. NumMsgs
Ver == 1 .. MaxVer
Run == 1 .. MaxRuns

ASSUME ExtractionAssumption ==
    /\ Extractor \cap Reextractor = {}
    /\ NumMsgs \in Nat
    /\ MaxVer \in Nat \ {0}
    /\ MaxRuns \in Nat
    /\ MaxFaults \in Nat
    /\ Limit \in Nat \ {0}
    /\ MaxAttempts \in Nat \ {0}
    /\ AbortAfter \in Nat \ {0}
    /\ Guardian \subseteq Event
    /\ Poison \subseteq Msg

VARIABLES
    \* the messages table and message_children
    state,      \* extract_state, "absent" while there is no row
    attempts,   \* counted up to MaxAttempts: the code only asks whether it is reached
    ver,        \* extract_ver, 0 for NULL
    kids,       \* kids[m]: the children linked to m
    \* extraction_runs (with the children linked at its start, auxiliary),
    \* run_messages, events, event_children and extractions
    runs, coverage, events, audience, audits,
    version,    \* the extract_ver of the binary that is installed
    \* each process
    pc,
    bin,        \* extract_ver of the binary it runs
    todo,       \* rest of the batch, the message in hand included
    cur,        \* the message in hand
    run,        \* its run
    answer,     \* what Gemini answered, validated
    readers,    \* the children read for the events of the message in hand
    fails,      \* consecutive failures
    stop,       \* SIGINT or SIGTERM received
    faults      \* faults so far

store   == <<state, attempts, ver, kids>>
results == <<runs, coverage, events, audience, audits>>
locals  == <<bin, todo, cur, run, answer, readers, fails, stop>>
vars    == <<store, results, version, pc, locals, faults>>

Step == {"idle", "start", "next", "call", "failed", "children", "save", "done", "finish"}
Handling == {"call", "failed", "children", "save", "done"}  \* a message is in hand
Running == Handling \cup {"next", "finish"}                 \* a run is open

Init ==
    /\ state = [m \in Msg |-> "absent"]
    /\ attempts = [m \in Msg |-> 0]
    /\ ver = [m \in Msg |-> 0]
    /\ kids = [m \in Msg |-> {}]
    /\ runs = <<>>
    /\ coverage = {} /\ events = {} /\ audience = {} /\ audits = {}
    /\ version = 1
    /\ pc = [p \in Process |-> "idle"]
    /\ bin = [p \in Process |-> 1]
    /\ todo = [p \in Process |-> {}]
    /\ cur = [p \in Process |-> 0]
    /\ run = [p \in Process |-> 0]
    /\ answer = [p \in Process |-> {}]
    /\ readers = [p \in Process |-> {}]
    /\ fails = [p \in Process |-> 0]
    /\ stop = [p \in Process |-> FALSE]
    /\ faults = 0

-----------------------------------------------------------------------------
(* The processes around: poll or ingest store messages, an operator upgrades. *)

\* IngestMessage inserts a row, pending unless it has no body to extract from.
StoreMessage(m) ==
    /\ state[m] = "absent"
    /\ state' \in {[state EXCEPT ![m] = s] : s \in {"pending", "skipped"}}
    /\ UNCHANGED <<attempts, ver, kids, results, version, pc, locals, faults>>

\* IngestMessage links a row to a child: in its next statement, or much later,
\* when the message arrives through another child's role.
LinkChild(m, c) ==
    /\ state[m] # "absent"
    /\ c \notin kids[m]
    /\ kids' = [kids EXCEPT ![m] = @ \cup {c}]
    /\ UNCHANGED <<state, attempts, ver, results, version, pc, locals, faults>>

\* A binary with a new prompt, schema or validation is installed.
Upgrade ==
    /\ version < MaxVer
    /\ version' = version + 1
    /\ UNCHANGED <<store, results, pc, locals, faults>>

-----------------------------------------------------------------------------
(* Helpers.                                                                 *)

\* ORDER BY wilma_id LIMIT n
Oldest(n, S) == {m \in S : Cardinality({k \in S : k < m}) < n}

\* Bug: no limit to messages that still have a result to come.
SelectAnyState(wanted, force, v) ==
    {m \in wanted : /\ state[m] \in {"pending", "done", "failed"}
                    /\ force \/ ver[m] = 0 \/ ver[m] < v}

\* Bug: a message that failed once is not selected again.
UntriedMessages == {m \in Msg : state[m] = "pending" /\ attempts[m] = 0}

PendingMessages == {m \in Msg : state[m] = "pending"}

\* Messages that were worked off before and that an older version answered, or
\* none, or all of them with --force.
ReextractMessages(wanted, force, v) ==
    {m \in wanted : /\ state[m] \in {"done", "failed"}
                    /\ force \/ ver[m] = 0 \/ ver[m] < v}

Fault == faults < MaxFaults /\ faults' = faults + 1

GoTo(p, step) == pc' = [pc EXCEPT ![p] = step]

\* extractPass returns, or the process is killed: all its locals are gone.
EndPass(p) ==
    /\ GoTo(p, "idle")
    /\ todo' = [todo EXCEPT ![p] = {}]
    /\ cur' = [cur EXCEPT ![p] = 0]
    /\ run' = [run EXCEPT ![p] = 0]
    /\ answer' = [answer EXCEPT ![p] = {}]
    /\ readers' = [readers EXCEPT ![p] = {}]
    /\ fails' = [fails EXCEPT ![p] = 0]
    /\ stop' = [stop EXCEPT ![p] = FALSE]
    /\ UNCHANGED bin

\* The loop leaves the message in hand behind and goes on to `step`.
LeaveMessage(p, step) ==
    /\ GoTo(p, step)
    /\ todo' = [todo EXCEPT ![p] = @ \ {cur[p]}]
    /\ cur' = [cur EXCEPT ![p] = 0]
    /\ answer' = [answer EXCEPT ![p] = {}]
    /\ readers' = [readers EXCEPT ![p] = {}]

-----------------------------------------------------------------------------
(* One pass.                                                                *)

\* PendingMessages.  A loop may still be running an older binary.
SelectPending(p) ==
    /\ p \in Extractor
    /\ pc[p] = "idle"
    /\ \E v \in {bin[p], version} : bin' = [bin EXCEPT ![p] = v]
    /\ PendingMessages # {}
    /\ todo' = [todo EXCEPT ![p] = Oldest(Limit, PendingMessages)]
    /\ GoTo(p, "start")
    /\ UNCHANGED <<store, results, version, cur, run, answer, readers, fails, stop, faults>>

\* ReextractMessages, restricted by --id and --since to any set of messages.
SelectReextract(p) ==
    /\ p \in Reextractor
    /\ pc[p] = "idle"
    /\ bin' = [bin EXCEPT ![p] = version]
    /\ \E wanted \in SUBSET Msg, force \in BOOLEAN :
          LET batch == ReextractMessages(wanted, force, version)
          IN  /\ batch # {}
              /\ todo' = [todo EXCEPT ![p] = Oldest(Limit, batch)]
    /\ GoTo(p, "start")
    /\ UNCHANGED <<store, results, version, cur, run, answer, readers, fails, stop, faults>>

\* Bug: the run that a crash left unfinished is taken up again.
ResumeRun(p) ==
    /\ pc[p] = "start"
    /\ \/ /\ Len(runs) < MaxRuns
          /\ runs' = IF runs # <<>> /\ ~runs[Len(runs)].finished THEN runs
                     ELSE Append(runs, [ver |-> bin[p], finished |-> FALSE, linked |-> kids])
          /\ run' = [run EXCEPT ![p] = Len(runs')]
          /\ GoTo(p, "next")
          /\ UNCHANGED <<bin, todo, cur, answer, readers, fails, stop, faults>>
       \/ Fault /\ EndPass(p) /\ UNCHANGED runs
    /\ UNCHANGED <<store, coverage, events, audience, audits, version>>

\* AUTOINCREMENT gives every run a higher id than all before.
StartRun(p) ==
    /\ pc[p] = "start"
    /\ \/ /\ Len(runs) < MaxRuns
          /\ runs' = Append(runs, [ver |-> bin[p], finished |-> FALSE, linked |-> kids])
          /\ run' = [run EXCEPT ![p] = Len(runs')]
          /\ GoTo(p, "next")
          /\ UNCHANGED <<bin, todo, cur, answer, readers, fails, stop, faults>>
       \/ Fault /\ EndPass(p) /\ UNCHANGED runs
    /\ UNCHANGED <<store, coverage, events, audience, audits, version>>

NextMessage(p) ==
    /\ pc[p] = "next"
    /\ \/ /\ todo[p] = {} \/ stop[p]
          /\ GoTo(p, "finish")
          /\ UNCHANGED cur
       \/ /\ ~stop[p]
          /\ \E m \in todo[p] : /\ \A k \in todo[p] : m <= k
                                /\ cur' = [cur EXCEPT ![p] = m]
          /\ GoTo(p, "call")
    /\ UNCHANGED <<store, results, version, bin, todo, run, answer, readers, fails, stop, faults>>

\* SaveExtraction: the pass goes on even if the call cannot be recorded.
Audit(p) ==
    \/ audits' = audits \cup {<<run[p], cur[p]>>} /\ UNCHANGED faults
    \/ Fault /\ UNCHANGED audits

Answered(p) ==
    /\ pc[p] = "call"
    /\ \E a \in SUBSET Event : answer' = [answer EXCEPT ![p] = a]
    /\ Audit(p)
    /\ fails' = [fails EXCEPT ![p] = 0]
    /\ GoTo(p, "children")
    /\ UNCHANGED <<store, runs, coverage, events, audience, version,
                   bin, todo, cur, run, readers, stop>>

\* Gemini refused, answered what does not parse, or the shutdown cut the call.
CallFailed(p) ==
    /\ pc[p] = "call"
    /\ Audit(p)
    /\ GoTo(p, "failed")
    /\ UNCHANGED <<store, runs, coverage, events, audience, version, locals>>

\* BuildEvent allocates a negative number of events: the process panics.
Panic(p) ==
    /\ pc[p] = "call"
    /\ cur[p] \in Poison
    /\ EndPass(p)
    /\ UNCHANGED <<store, results, version, faults>>

\* A call cut by the shutdown is not charged: the pass ends.
Cancelled(p) ==
    /\ pc[p] = "failed"
    /\ stop[p]
    /\ GoTo(p, "finish")
    /\ UNCHANGED <<store, results, version, locals, faults>>

\* Bug: one attempt more than allowed.
RetryOnceMore(m) ==
    /\ attempts' = [attempts EXCEPT ![m] = IF @ < MaxAttempts THEN @ + 1 ELSE @]
    /\ state' = [state EXCEPT ![m] =
                    IF attempts[m] >= MaxAttempts THEN "failed" ELSE "pending"]
    /\ UNCHANGED <<ver, kids>>

\* MarkExtractFailed
ChargeAttempt(m) ==
    /\ attempts' = [attempts EXCEPT ![m] = IF @ < MaxAttempts THEN @ + 1 ELSE @]
    /\ state' = [state EXCEPT ![m] =
                    IF attempts[m] + 1 >= MaxAttempts THEN "failed" ELSE "pending"]
    /\ UNCHANGED <<ver, kids>>

\* Bug: the pass ends one failure late.
MarkFailedLate(p) ==
    /\ pc[p] = "failed"
    /\ ~stop[p]
    /\ \/ ChargeAttempt(cur[p]) /\ UNCHANGED faults
       \/ Fault /\ UNCHANGED store
    /\ fails' = [fails EXCEPT ![p] = @ + 1]
    /\ LeaveMessage(p, IF fails'[p] > AbortAfter THEN "finish" ELSE "next")
    /\ UNCHANGED <<results, version, bin, run, stop>>

MarkFailed(p) ==
    /\ pc[p] = "failed"
    /\ ~stop[p]
    /\ \/ ChargeAttempt(cur[p]) /\ UNCHANGED faults
       \/ Fault /\ UNCHANGED store
    /\ fails' = [fails EXCEPT ![p] = @ + 1]
    /\ LeaveMessage(p, IF fails'[p] >= AbortAfter THEN "finish" ELSE "next")
    /\ UNCHANGED <<results, version, bin, run, stop>>

\* SaveEvents reads the children before it opens its transaction.
ReadChildren(p) ==
    /\ pc[p] = "children"
    /\ \/ /\ readers' = [readers EXCEPT ![p] = kids[cur[p]]]
          /\ GoTo(p, "save")
          /\ UNCHANGED <<todo, cur, answer, faults>>
       \/ Fault /\ LeaveMessage(p, "next")
    /\ UNCHANGED <<store, results, version, bin, run, fails, stop>>

\* Bug: nothing is written for an empty answer.
PublishNonEmpty(r, m, a, cs) ==
    LET new == {[run |-> r, msg |-> m, event |-> e] : e \in a}
    IN  /\ coverage' = IF a = {} THEN coverage ELSE coverage \cup {<<r, m>>}
        /\ events' = events \cup new
        /\ audience' = audience \cup ({x \in new : x.event \notin Guardian} \X cs)

\* Bug: the guardians' events fan out to the children as well.
PublishToAll(r, m, a, cs) ==
    LET new == {[run |-> r, msg |-> m, event |-> e] : e \in a}
    IN  /\ coverage' = coverage \cup {<<r, m>>}
        /\ events' = events \cup new
        /\ audience' = audience \cup (new \X cs)

\* The transaction of SaveEvents: coverage, events and their audience.
Publish(r, m, a, cs) ==
    LET new == {[run |-> r, msg |-> m, event |-> e] : e \in a}
    IN  /\ coverage' = coverage \cup {<<r, m>>}
        /\ events' = events \cup new
        /\ audience' = audience \cup ({x \in new : x.event \notin Guardian} \X cs)

SaveEvents(p) ==
    /\ pc[p] = "save"
    /\ \/ /\ Publish(run[p], cur[p], answer[p], readers[p])
          /\ GoTo(p, "done")
          /\ UNCHANGED <<todo, cur, answer, readers, faults>>
       \/ Fault /\ LeaveMessage(p, "next") /\ UNCHANGED <<coverage, events, audience>>
    /\ UNCHANGED <<store, runs, audits, version, bin, run, fails, stop>>

\* Bug: the attempts of earlier failures are kept.
MarkDoneKeepAttempts(p) ==
    /\ pc[p] = "done"
    /\ state' = [state EXCEPT ![cur[p]] = "done"]
    /\ ver' = [ver EXCEPT ![cur[p]] = bin[p]]
    /\ LeaveMessage(p, "next")
    /\ UNCHANGED <<attempts, kids, results, version, bin, run, fails, stop, faults>>

\* MarkExtractDone, then the events go to stdout, which may be closed.
MarkDone(p) ==
    /\ pc[p] = "done"
    /\ \/ /\ state' = [state EXCEPT ![cur[p]] = "done"]
          /\ ver' = [ver EXCEPT ![cur[p]] = bin[p]]
          /\ attempts' = [attempts EXCEPT ![cur[p]] = 0]
          /\ \/ LeaveMessage(p, "next") /\ UNCHANGED faults
             \/ answer[p] # {} /\ Fault /\ LeaveMessage(p, "finish")
       \/ Fault /\ LeaveMessage(p, "next") /\ UNCHANGED <<state, ver, attempts>>
    /\ UNCHANGED <<kids, results, version, bin, run, fails, stop>>

FinishRun(p) ==
    /\ pc[p] = "finish"
    /\ \/ runs' = [runs EXCEPT ![run[p]].finished = TRUE] /\ UNCHANGED faults
       \/ Fault /\ UNCHANGED runs
    /\ EndPass(p)
    /\ UNCHANGED <<store, coverage, events, audience, audits, version>>

-----------------------------------------------------------------------------
\* SIGINT or SIGTERM to a loop; a one-shot command is killed by it instead.
Signal(p) ==
    /\ p \in Extractor
    /\ pc[p] # "idle"
    /\ ~stop[p]
    /\ Fault
    /\ stop' = [stop EXCEPT ![p] = TRUE]
    /\ UNCHANGED <<store, results, version, pc, bin, todo, cur, run, answer, readers, fails>>

Crash(p) ==
    /\ pc[p] # "idle"
    /\ Fault
    /\ EndPass(p)
    /\ UNCHANGED <<store, results, version>>

-----------------------------------------------------------------------------
PassStep(p) ==
    \/ SelectPending(p) \/ SelectReextract(p) \/ StartRun(p) \/ NextMessage(p)
    \/ Answered(p) \/ CallFailed(p) \/ Panic(p) \/ Cancelled(p) \/ MarkFailed(p)
    \/ ReadChildren(p) \/ SaveEvents(p) \/ MarkDone(p) \/ FinishRun(p)

Environment ==
    \/ \E m \in Msg : StoreMessage(m) \/ \E c \in Child : LinkChild(m, c)
    \/ Upgrade

Next ==
    \/ \E p \in Process : PassStep(p) \/ Signal(p) \/ Crash(p)
    \/ Environment

\* extract is started again and again (cron or --interval) and each pass runs on.
Fairness == \A p \in Extractor : WF_vars(PassStep(p))

Spec == Init /\ [][Next]_vars
FairSpec == Spec /\ Fairness

-----------------------------------------------------------------------------
(* What a reader of the event store sees (LatestEvents).                    *)

\* Bug: the newest run is looked up among the events.
NewestWithEvents(r, m) ==
    /\ \E x \in events : x.run = r /\ x.msg = m
    /\ \A x \in events : x.msg = m => x.run <= r

\* MAX(run_id) over run_messages
Newest(r, m) ==
    /\ <<r, m>> \in coverage
    /\ \A k \in coverage : k[2] = m => k[1] <= r

CurrentEvents(m) == {x \in events : x.msg = m /\ Newest(x.run, m)}

\* The run that answered m last, 0 for none.
NewestRun(m) == IF \E r \in Run : Newest(r, m) THEN CHOOSE r \in Run : Newest(r, m) ELSE 0

-----------------------------------------------------------------------------
EventRow == [run : Run, msg : Msg, event : Event]

TypeOK ==
    /\ state \in [Msg -> {"absent", "pending", "skipped", "done", "failed"}]
    /\ attempts \in [Msg -> 0 .. MaxAttempts]
    /\ ver \in [Msg -> Ver \cup {0}]
    /\ kids \in [Msg -> SUBSET Child]
    /\ runs \in Seq([ver : Ver, finished : BOOLEAN, linked : [Msg -> SUBSET Child]])
    /\ Len(runs) <= MaxRuns
    /\ coverage \subseteq Run \X Msg
    /\ events \subseteq EventRow
    /\ audience \subseteq EventRow \X Child
    /\ audits \subseteq Run \X Msg
    /\ version \in Ver
    /\ pc \in [Process -> Step]
    /\ bin \in [Process -> Ver]
    /\ todo \in [Process -> SUBSET Msg]
    /\ cur \in [Process -> Msg \cup {0}]
    /\ run \in [Process -> Run \cup {0}]
    /\ answer \in [Process -> SUBSET Event]
    /\ readers \in [Process -> SUBSET Child]
    /\ fails \in [Process -> 0 .. AbortAfter]
    /\ stop \in [Process -> BOOLEAN]
    /\ \A p \in Process :
          /\ pc[p] \in Handling => cur[p] \in todo[p]
          /\ pc[p] \in Running => run[p] \in 1 .. Len(runs)
          /\ fails[p] = AbortAfter => pc[p] = "finish"
    /\ faults \in 0 .. MaxFaults

\* The retry budget: a message waits in the queue only while it has attempts
\* left, is given up only when it has none, and starts afresh once answered.
RetryBudget ==
    \A m \in Msg :
        /\ state[m] = "pending" => attempts[m] < MaxAttempts
        /\ state[m] = "failed" => attempts[m] = MaxAttempts
        /\ state[m] \in {"done", "absent", "skipped"} => attempts[m] = 0

\* extract and reextract, running side by side, never hold the same message:
\* nothing is paid for twice.
NoDoubleExtraction ==
    \A p \in Extractor, q \in Reextractor : todo[p] \cap todo[q] = {}

\* An answer that was saved is what readers see, an empty one too, unless a
\* later run has answered since.
AnswerIsCurrent ==
    \A p \in Process : pc[p] = "done" =>
        \/ \E k \in coverage : k[2] = cur[p] /\ k[1] > run[p]
        \/ CurrentEvents(cur[p]) =
               {[run |-> run[p], msg |-> cur[p], event |-> e] : e \in answer[p]}

\* A message marked as answered by some version shows the answer of that
\* version or a newer one, so reextract passes over nothing that is stale.
VersionIsShown ==
    \A m \in Msg : state[m] = "done" =>
        \E r \in 1 .. Len(runs) : Newest(r, m) /\ ver[m] <= runs[r].ver

\* An event for the children reaches every child its message was linked to
\* when the run began, and no guardian event reaches a child.
ReachesLinkedChildren ==
    \A x \in events :
        IF x.event \in Guardian THEN \A c \in Child : <<x, c>> \notin audience
        ELSE \A c \in runs[x.run].linked[x.msg] : <<x, c>> \in audience

\* The retry budget is finite: one extractor has worked its queue off after at
\* most MaxAttempts runs for each message, and one more for each fault.
BudgetIsFinite ==
    (\E m \in Msg : state[m] = "pending") /\ (\A p \in Process : pc[p] = "idle")
        => Len(runs) < NumMsgs * MaxAttempts + faults

\* What readers see of a message changes only to the whole answer of a newer
\* run, whatever order concurrent, failed and killed runs save in.
Latest == INSTANCE Generations WITH
    GenMsg     <- Msg,
    GenEvent   <- Event,
    GenRun     <- Run,
    generation <- [m \in Msg |->
        [run    |-> NewestRun(m),
         events |-> {x.event : x \in CurrentEvents(m)}]]
ImplementsGenerations == Latest!GenSpec

\* No message waits for ever: it is answered or given up.
QueueDrains == \A m \in Msg : state[m] = "pending" ~> state[m] # "pending"

-----------------------------------------------------------------------------
(* Why these hold: the inductive invariants.                                *)

\* No two processes write to the same run.
RunInv ==
    \A p, q \in Process :
        pc[p] \in Running /\ pc[q] \in Running /\ run[p] = run[q] => p = q

\* Events are covered by their run, runs exist, and a run covers a message of
\* its batch only from the transaction that saves the answer, all of it.
CoverInv ==
    /\ \A x \in events : <<x.run, x.msg>> \in coverage
    /\ \A k \in coverage : k[1] <= Len(runs)
    /\ \A p \in Process : pc[p] \in Running =>
          \A m \in todo[p] : <<run[p], m>> \in coverage <=> pc[p] = "done" /\ m = cur[p]
    /\ \A p \in Process : pc[p] = "done" =>
          {x \in events : x.run = run[p] /\ x.msg = cur[p]} =
             {[run |-> run[p], msg |-> cur[p], event |-> e] : e \in answer[p]}

\* A message that some run covers has a newest run.
NewestInv == \A k \in coverage : \E r \in Run : Newest(r, k[2])

\* What an extract holds is pending, what a reextract holds is not: true while
\* there is one of each.
HoldInv ==
    /\ \A p \in Extractor : \A m \in todo[p] : state[m] = "pending"
    /\ \A p \in Reextractor : \A m \in todo[p] : state[m] \in {"done", "failed"}

\* Links only grow, so the children read for a message in hand are at least
\* those linked when its run began; only events for the children have readers.
LinkInv ==
    /\ \A r \in 1 .. Len(runs), m \in Msg : runs[r].linked[m] \subseteq kids[m]
    /\ \A p \in Process : pc[p] = "save" => runs[run[p]].linked[cur[p]] \subseteq readers[p]
    /\ \A k \in audience : k[1].event \notin Guardian

\* No message of a batch is covered by a newer run, and no reextract holds a
\* message that a newer version answered.
VersionInv ==
    /\ \A m \in Msg : ver[m] <= version
    /\ \A p \in Process :
          /\ bin[p] <= version
          /\ pc[p] \in Running =>
                /\ runs[run[p]].ver = bin[p]
                /\ \A k \in coverage : k[2] \in todo[p] => k[1] <= run[p]
    /\ \A p \in Reextractor : \A m \in todo[p] : ver[m] <= bin[p]

-----------------------------------------------------------------------------
\* A documented promise that the code does not keep.

\* reextract leaves the pending queue alone: a message that was worked off
\* does not come back into it.
NotRequeued ==
    [][\A m \in Msg : state[m] \in {"done", "failed"} => state'[m] # "pending"]_vars
=============================================================================
