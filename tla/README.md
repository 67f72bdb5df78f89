# wilmabridge in TLA+

This directory holds TLA+ models of [wilmabridge](../src/README.md), the TLC runs that check
them and the TLAPS proofs about them. It is read next to the Go sources; every definition names,
in `PROJECT.json` under `map`, the lines it models.

## 1. The system

wilmabridge reads the school messages of the Wilma service for the roles (children) of one
account, stores them in one SQLite database, has Gemini extract dated events from them and serves
the results to other programs. It is a set of short-lived or looping processes that share the
database and nothing else: `sync | ingest` or `poll` fill it, `extract --db` and `reextract`
work it off, `events`, `review` and `db` read it. Any of them may be killed, and several may run
at the same time (cron starts the next one whether or not the last has ended; `--interval` loops
run beside cron jobs).

| component | source | state | operations | hard part | what makes it correct |
|---|---|---|---|---|---|
| poll pass | `internal/poll/poll.go` | locals of a pass, the pass's body cache | `Pass`, `pollRole`, `selectNew` | failures and kills between statements, two pollers, a window that moves | no gap below the mark, nothing streamed twice or left out, everything stored in the end |
| message store | `internal/store/store.go` 242-291, 868-950 | `messages`, `message_children`, `sync_state`, `poll_state` | `IngestMessage`, `SetHighWaterMark`, `HighWaterMark`, `MarkPolled` | upserts without a transaction around them | the mark never goes down; a row is found new once |
| sync and ingest | `main.go` 184-283, 1100-1170 | highest id per role of one stdin | `cmdSync`, `cmdIngest` | lines newest first, failed lines below later successes, a sync that dies looks like one that ends, beside a poll | what is missing below a mark are failed lines and lines that never came; a mark is a stored message |
| extraction passes | `main.go` 691-1092 | batch, run, failure count of a pass | `extractPass`, `extractLoop`, `reextract` | kills, cancellation, failed calls, overlapping runs | no answer is lost, no message stays pending for ever, a batch is nobody else's |
| event store | `internal/store/store.go` 310-866 | `extraction_runs`, `run_messages`, `events`, `event_children`, state and attempts of `messages` | `StartRun` ... `FinishRun`, `LatestEvents`, selections | generations derived from run ids, audience read before the transaction | current events are the answer of the newest run that answered |
| poll command and loop | `main.go` 381-577 | session, failed-login count, pending signal | `cmdPoll`, `pollLoop` | expired session, failed logins, requests that no signal cancels | re-login before the next pass, gives up after 5 failures, few requests after a signal, stops when asked |
| Wilma client | `internal/wilma/*.go` | cookie session | `login`, `discoverRoles`, `GetJSON`, `FetchMessage` | expiry seen as a redirect, an envelope or a page | expiry is told apart from other errors |
| Gemini client | `internal/gemini/client.go` | attempt number | `Generate`, `backoff` | retries, cancellation, widths of durations | at most `--max-retries` calls, bounded waiting, cancellable |
| candidate validation | `internal/extract/*.go` | none | `BuildEvent`, `resolveDate`, `stepDate` | calendar edges, series, UTC against Helsinki | the date that was meant, or a reason to review it |
| date expressions | `internal/dateexpr/dateexpr.go` | none | `Range` | weeks and years at their ends | the days the words name |
| schema and migration | `internal/store/schema.go`, `store.go` 33-183 | column set, backfill | `Open`, `migrate`, `ensureColumn` | kill between ALTER and backfill, two Opens, the old binary | rows attached once, whole, below newer answers |
| db, review, events, children labels | `main.go` 157-174, 1174-1455 | none | queries, `set-last-id` | -- | -- |

The hazards each of these is exposed to are listed in `PROJECT.json` under `hazards`, at the line
where they bite, with the properties that would show them.

## 2. Modules

The order is that of importance: what polling may skip or repeat, what extraction may lose,
repeat or hide, and then what surrounds the two.

| module | what it models | abstract specification | theorems in |
|---|---|---|---|
| `Poll` | passes over the message store, several processes | `Feed`: the promise of the high-water mark | `PollProofs` |
| `Ingest` | `sync \| ingest` beside the processes of `Poll`, which it extends | -- | `IngestProofs` |
| `Extraction` | extract and reextract over the event store | `Generations`: latest run wins | `ExtractionProofs`, `BudgetProofs` |
| `PollLoop` | the session, logins, `--interval` and signals around the passes | `Supervisor`: periods of work, sessions and waits | `PollLoopProofs` |
| `Migrate` | opening an old database, by several processes | -- | `MigrateProofs` |
| `ExtractMessage` | one message through `Gemini`, `Validate` and `DateExpr`, which it extends | `ModelCall`: what a pass takes a call for | `ExtractMessageProofs` |
| `Gemini` | `Generate` and its backoff | | |
| `Calendar` | Go's proleptic calendar as day numbers (external) | | `CalendarProofs` |
| `Validate`, `DateExpr` | `BuildEvent`; `Range` | | `ExtractMessageProofs` |

`MCPoll`, `MCIngest`, `MCExtraction`, `MCMigrate` and `MCExtractMessage` only give values to
constants; `PollLoop` needs no values that a cfg cannot write. No module has a RECURSIVE operator,
so all of them can be proved about; the year of a day number (`Calendar!YearOf`) is chosen from
the two or more that a division by 365 and one by 366 leave.

How the modules meet: a pass of `PollLoop` is the list of requests it sends; what it does to the
database meanwhile is `Poll`. A call of the model is one step of `Extraction` (`Answered`,
`CallFailed`, `Cancelled` or `Panic`), and `ExtractMessage` shows that a call is no more than
that (`ImplementsModelCall`). `Migrate` has a reduced extraction (`StartRun`, `SaveEvents`) on
the database it opens, enough to ask which answer wins.

## 3. The models

The models of processes take one SQLite statement, one transaction, one HTTP request or one write
to stdout as one step. SQLite makes a statement atomic; between two steps another process may run
and this one may be killed. A Go process is single-threaded here: neither passes nor loops start
goroutines that touch state.

### Poll

*Wilma* is `newest`, `inbox`, `shown`, `dated`, `aged`: ids grow, a message reaches one or more
roles, its page may change, it may leave the inbox, its timestamp may not parse, and the
bootstrap cutoff moves over it. *The database* is `rows` (messages by id and content), `links`
(message_children), `mark` (sync_state), `polled` (poll_state). *Each process* has its step
`pc`, the options it was started with, the role `cur`, the mark it read (`seen`), the ids it
listed or selected (`todo`), the body cache and the message in hand. `floor` and `base` are
auxiliary: they say above which id a role's history is claimed to be recorded, and nothing reads
them in a guard.

| action | code |
|---|---|
| `StartPass` | `Pass` called with some command line |
| `ReadMark`, `List` | `HighWaterMark` and `Source.List` in `pollRole`; every other process may move the mark afterwards |
| `MarkPolled` (with `Select`) | `selectNew`, `MarkPolled` (whose error is only a warning) and the branch on `FromNow` |
| `AdoptNewest` | the `--from-now` branch |
| `TakeBody` | the loop head with the fetch, or the cache; the cache lives for a pass, over all roles |
| `InsertMessage`, `LinkChild` | the two statements of `IngestMessage` |
| `Emit`, `Advance` | `--emit-new`, `SetHighWaterMark` |
| `RoleError`, `PassError`, `Crash` | an error that ends the role; `ErrSessionExpired` or a cancelled context, which end the pass; a kill |
| `SetLastID` | `wilmabridge db set-last-id` |

`Feed` is what a reader of the database may rely on: the mark of a role moves up only over
messages that are stored and linked, and only a start *from above the mark* (a first poll, or
`set-last-id`) leaves messages behind. The mapping takes `held` as the linked ids, `high` as the
mark, `start` as `floor`.

### Ingest

Extends `Poll` with processes that each run `sync | ingest`: `lines` is what is left on stdin,
`hand` the line in hand, `high` the local `highWater`. Its sync runs beside it: `args` is its
command line, `unlisted` the roles it has yet to list, `listed` what it has listed of a role and
not yet printed. Messages arrive and leave, and pages change, between two roles and between two
lines. `lost` and `missed` are auxiliary.

| action | code |
|---|---|
| `Sync` | the pipeline starts: `--after`, `--bodies` and the cutoff of `--since`, which `cmdSync` takes once |
| `ListRole` | the list of one role under both, or none (`--role`, a failed list request) |
| `PrintLine` | one line with the page of that moment, or without a body (`--bodies=false`, a failed fetch) |
| `SyncDies` | sync is killed or cannot write on: the rest of its listing, and what its buffer holds, never comes |
| `TakeLine` | the loop head of `cmdIngest`: roles in order, newest message first |
| `IngestInsert`, `IngestLink` | the two statements of `IngestMessage`, and `highWater` |
| `LineError` | a line that is not JSON or does not store: the loop goes on |
| `EndOfInput`, `RecordMark` | the input has ended, however sync has; `SetHighWaterMark` for each role of `highWater`, in any order; an error leaves that role out |
| `IngestDone`, `IngestStops` | the process ends; a kill, or a read error on stdin, before the marks are recorded |

There is no promise of `Feed` here: ingest may pass a failed line, and it may pass what a dying
sync did not deliver, since its input then ends as usual (`in.Err()` is nil) with the newest
messages in and the older ones not. `GapsAreLostLines` says that it passes nothing else, also while
a poll moves the same mark.

### PollLoop

The session is `session` (what Wilma makes of the cookies: live, expired, or logged out by the
program), the loop `pollRoles`, `failedLogins`, `again`, the pass `left`, `cur`, `done`, `failed`,
the login `sent`. A step sends one call of the HTTP client at most. A login is three of them (`GET
/index_json`, `POST /login`, `GET /`: `LoginRequests`), each of which may fail. `late` counts what
is sent after a signal, a pass's requests apart from those that log in and out.

| action | code |
|---|---|
| `Login` | `cmdPoll`: a request of the login; after the last, `discoverRoles` with its fallback to one unnamed role, `buildPollRoles` |
| `NextRole` | the head of `Pass` over the roles, with its look at the context |
| `List` | the mark, the list request (an expiry is recognised in the error envelope, not in a page), and `MarkPolled`, whose error fails the role and lets it go on |
| `Fetch`, `FetchBody` | the loop head over the selected messages with its look at the context; the body request |
| `Logout`, `Relogin`, `Wait` | the same calls of `pollLoop`; a request of a login that fails (`LoginRefused`) makes it wait for the next interval, five failed logins in a row end the loop |
| `Leave` | the deferred logout on the way out of `cmdPoll` |
| `Expire`, `AddChild`, `Signal` | Wilma ends the session; the account changes; SIGINT or SIGTERM, which only a loop catches |

`Supervisor` knows periods of work and waits: one new session and two passes at most in a period,
the second only on the new session, and an end with code 1 only after `GiveUp` refusals in a row.

### Extraction

*The store* is `state`, `attempts`, `ver`, `kids` per message. *The results* are `runs`,
`coverage` (run_messages), `events`, `audience` (event_children), `audits` (extractions). *Each
process* is an `extract --db` (`Extractor`) or a `reextract` (`Reextractor`), with the version of
its binary, the rest of its batch, the message in hand, its run, the answer, the children it
read, its count of consecutive failures and a pending signal. `runs[r].linked`, the links when a
run began, is auxiliary.

| action | code |
|---|---|
| `SelectPending`, `SelectReextract` | `PendingMessages`, `ReextractMessages` with `--id`, `--since`, `--force` as any set |
| `StartRun`, `FinishRun` | the same methods; an error of `StartRun` ends the pass |
| `NextMessage` | the loop head of `extractPass`: the batch is done, or a signal has come |
| `Answered`, `CallFailed` | `ExtractMessage` and `SaveExtraction`, whose error is only reported |
| `Panic` | `BuildEvent` with a negative recurrence count |
| `Cancelled`, `MarkFailed` | a call cut by the shutdown is not charged, any other is (`MarkExtractFailed`); the third consecutive failure ends the pass |
| `ReadChildren`, `SaveEvents` | `SaveEvents` reads `message_children` before it opens its transaction |
| `MarkDone` | `MarkExtractDone`, then the events go to stdout, which may be closed |
| `Signal`, `Crash` | SIGINT or SIGTERM to a loop; a kill |
| `StoreMessage`, `LinkChild`, `Upgrade` | poll or ingest; a link may follow long after the row; a binary with a higher `ExtractVer` |

`attempts` is counted up to `MaxAttempts`: the code only asks whether that is reached. `Newest`
and `CurrentEvents` translate the query of `LatestEvents`. `Generations` maps each message to the
run and the answer that query shows.

### Migrate

*The database* is the set of columns that exist, the `events` rows with their run and audience,
`run_messages` and the highest run id. *Each process* has the column it is at, and whether this
Open added one (`added`). `cut`, `stray`, `hasty` and `synthetic` are auxiliary: they name the
ways in which rows stay without a run or a backfill comes late.

| action | code |
|---|---|
| `OpenDB` | `Open` up to `migrate` |
| `Check`, `Alter` | `ensureColumn` looks, then alters; the loser of a race gets "duplicate column name" and `Open` fails |
| `CreateIndex`, `Backfill` | the index; the one transaction that attaches the rows to a synthetic run |
| `StartRun`, `SaveEvents`, `Close` | an extraction on the open database, reduced to its run and rows |
| `Interrupt` | a kill or a failed statement; what is committed stays |
| `OldSave` | the old binary's INSERT, which knows none of the new columns |

### ExtractMessage

One message from Wilma to `events --on`. `Gemini` has one step for the loop head, the wait, the
request and its reply; `backoff` is computed as in 64 bits, so that a high `--max-retries` shifts
the base delay into the sign bit and beyond. `Decode` turns the reply into events (`Validate`),
`Judge` is what `extractPass` makes of an error: cut if the context is done, else failed. `Die`
is the panic of `rand.Int63n` on a delay that is not positive. `Anchor` is the day dates are
counted from: times are stored in UTC and read back in UTC, so a message sent between midnight
and 2 or 3 o'clock in Helsinki loses its day on the way through the database, and only there.

`Validate` translates `parseDateRaw`, `resolveDate`, `stepDate`, `applyDateChecks` and
`BuildEvent` as operators on day numbers; the properties compare them with definitions that do
not look at the code: the least date so written from the day of sending on (`Written`), months
counted from year 0 (`Months`), weeks counted from a Monday (`Week`).

## 4. Runs

Distinct states are those of one run on these instances; each takes less than three minutes.

| run | instance | question | states |
|---|---|---|---|
| `poll_shared` | 1 poller, 2 roles, 2 messages, 2 bodies, 1 fault | a message has one body in a pass; what is streamed is stored and linked | 1.3 M |
| `poll_overlap` | 2 pollers, 1 role, 3 messages, operator id 0, 1 fault | no gap, nothing streamed twice, nothing left out without a fault; every step is a step of `Feed` | 3.4 M |
| `poll_live` | 1 poller, 2 messages, three command lines, 2 faults, fair | everything is stored in the end; history is not restarted | 204 k |
| `poll_ingest` | 1 poller, 1 ingest, 1 role, 2 messages, 2 faults | below a mark only lines are missing that failed or never came; a mark is a stored message | 3.4 M |
| `extract_queue` | 1 extract, 1 reextract, 2 messages, 2 versions, 3 runs, 1 fault | batches are disjoint, the budget is kept, the version recorded is not newer than what is shown | 897 k |
| `extract_overlap` | 2 extracts, 1 reextract, 1 message, 2 events, 1 child, 2 runs, 1 fault | readers see whole, newest answers; the audience | 91 k |
| `extract_live` | 1 extract, 3 messages, limit 2, 8 runs, 1 fault, fair | the queue drains within its budget of runs | 349 k |
| `poll_loop` | 2 children, 5 logins to give up, 4 faults, both answers of a dead session, fair | the loop is a `Supervisor`; late requests; the exit code; recovery; stopping | 61 k |
| `migrate` | 2 openers, 2 messages, 2 rows about one of them, 3 runs, 1 fault, fair | rows attached whole, once, below newer answers; what stays unattached; attachment in the end | 271 k |
| `extract_message` | 22 messages sent on 10 days, by day and by night, budgets -1, 2, 38, a status of every class, 99 candidates, fair | dates, flags, series, ranges, waits; the call is a `ModelCall` | 32 k |
| `extract_requeued`, `extract_poison` | smallest instance that shows it | a documented promise that the code does not keep (section 6) | -- |

**Why these bounds.** A gap needs a message that is stored, one that is not and a mark above both:
three messages for two pollers that race, two for one poller or for an ingest, which takes the
higher one first. A double emission needs two processes with the same row in hand. The second fault
of `poll_live` lets a retry fail too, that of `poll_ingest` a sync die beside a line that fails or a
mark that is not recorded; its lines carry bodies, unless the fetch of one fails. The limit 2 below
three messages makes the rest of the queue wait behind a head that fails, and `AbortAfter` 2 (3 in
the code) makes a pass end inside a batch as well as at its end. Two overlapping extracts on one
message give all orders of two answers; the reextract adds a third process for the marking.
`MaxRuns` is 8 in `extract_live` because the budget of 3 messages with 2 attempts and a fault is 7
runs: the bound is never what stops the queue. In `poll_loop` two children give a pass that fails in
one role and not in the other, and five refusals are what the code counts; failed logins cost no
fault, so the end is reached. In `migrate` two openers are enough for each to win a column the other
one checked; both rows are about one message so that an extraction can replace what a backfill
attached, and the other message is one no old row is about. The days of `extract_message` are the
ends of Februaries with and without a 29th, of a year, of a 31-day month before a 30-day one and of
a clock change; 37 is the first attempt whose delay has its sign bit set, so a budget of 38 reaches
it. `MaxFaults` counts errors, kills and expiries that the environment injects; failed calls of
Gemini and failed logins are not counted and come without a bound. Only processes of one kind are
permuted (`Symmetry`), in a run without liveness.

**Deadlock** is checked for `Poll` and `Ingest`: a new pass can always be started. An
`Extraction` without pending messages, or with all runs of the bound used, has nothing to do; a
poll and a message's way end; and processes of `Migrate` may all be open with all run ids used.
Those cfgs switch the check off.

**Fairness.** `FairSpec` of `Poll` and `Extraction` asks weak fairness of each process's own
steps: passes are started again and again (cron, or `--interval`), and a process is not suspended
for ever between two statements. `PollLoop` and `ExtractMessage` ask it of the program's steps,
because requests time out (30 s for Wilma, 60 s for Gemini) and waits end. `Migrate` asks it of a
process that has begun to open the database. Nothing is assumed of messages, faults, operators,
sessions or upgrades, and success of a call, a login or an Open is not assumed either: a fair
extract may fail each call, and the queue drains because the attempts are spent; logins may fail
for ever, and the loop recovers or gives up. Faults are bounded, so liveness of polling says: when
the failures end, what is above the recorded history is stored.

Each property of a passing run has a mutant in `PROJECT.json`: a definition of the model changed
as a slip in the Go code would change it (the operators marked "Bug:" in the modules), which TLC
must find violating the property.


## 5. Proofs

The proof modules prove the following for every value of the constants that satisfies the assumption
of the component (`PollAssumption`, `IngestAssumption`, `ExtractionAssumption`, `LoopAssumption`,
`MigrateAssumption`, `GeminiAssumption` and `ExtractAssumption`): any number of processes, roles,
messages, events, versions, runs and faults.

| theorem | states | rests on |
|---|---|---|
| `PollProofs!TypeCorrect` | `TypeOK` | itself |
| `Contiguity` | `Contiguous` | `GapInv` |
| `EmitsOnce` | `EmittedOnce` | `EmitInv` |
| `PollImplementsFeed` | `ImplementsFeed` | `GapInv` |
| `HistoryKept` | `HistoryNeverRestarted`, for one poller and no operator (`Alone`) | `GapInv`, `HistoryInv` |
| `OneBody` | `OneBodyPerPass` | `CacheInv` |
| `StreamIsStored` | `EmittedIsStored` | `StoredInv` |
| `NothingMissed` | `StreamedUnlessFault` | `EmitInv`, `StoredInv`, `MissedInv` |
| `PollEnds` | a pass ends: a step towards `EventuallyStored` | `GapInv`, the variant `StepsInRole` |
| `IngestProofs!GapsExplained` | `GapsAreLostLines` | `IngestInv` |
| `MarksStored` | `MarkIsStored` | `IngestInv` |
| `ExtractionProofs!TypeCorrect` | `TypeOK` | itself |
| `BudgetKept` | `RetryBudget` | itself |
| `NeverBoth` | `NoDoubleExtraction`, for one extract and one reextract | `HoldInv` |
| `AnswersShown` | `AnswerIsCurrent` | `RunInv`, `CoverInv` |
| `ExtractionImplementsGenerations` | `ImplementsGenerations` | `CoverInv`, `NewestInv` |
| `ReadersReached` | `ReachesLinkedChildren` | `LinkInv`, `CoverInv` |
| `VersionsShown` | `VersionIsShown`, for one extract and one reextract | `HoldInv`, `CoverInv`, `VersionInv` |
| `BudgetProofs!BudgetSuffices` | `BudgetIsFinite`, for one extract and answers that do not kill it (`OneExtractor`) | `RunsPaid` |
| `PassEnds` | a batch has at most `Limit` messages and a pass over it ends: a step towards `QueueDrains` | `LimitInv`, the variant `StepsToEnd` |
| `PollLoopProofs!TypeCorrect` | `TypeOK`, the bound of failed logins in it | `CountInv` |
| `FewLateRequests` | `LateRequests` | `LateInv` |
| `ZeroIsAll` | `ZeroMeansAll` | `VerdictInv` |
| `OutOnlyIfRefused` | `LoggedOutOnlyIfRefused` | `OutInv` |
| `LoopImplementsSupervisor` | `ImplementsSupervisor` | `PeriodInv`, `CountInv` |
| `SignalledLoopStops` | the non-temporal half of `StopsWhenAsked` | `PeriodInv`, the variant `StepsToStop` |
| `RecoveryAdvances` | the non-temporal half of `Recovers` | `RolesInv`, the variant in `Nearer` |
| `MigrateProofs!TypeCorrect` | `TypeOK` | itself |
| `WholeRows`, `RowsStay` | `AttachedWhole`, `AttachedOnce` | `RowInv` |
| `OrphansAccounted` | `OrphansExplained` | `ColumnInv`, `LostInv` |
| `BackfillFirst` | `BackfillIsOldest` | `ColumnInv`, `OldestInv` |
| `OpenEnds` | an Open ends: a step towards `Attaches` | the variant `StepsToOpen` |
| `CalendarProofs!PartsOfDate`, `DateOfParts` | `Date` and `YearOf`, `MonthOf`, `DayOf` are each other's inverse, for every year | -- |
| `ExtractMessageProofs!TypeCorrect` | `TypeOK` | itself |
| `WaitsAreBounded` | `WaitsBounded` | `CallInv` |
| `CallKeepsPromise` | the safety half of `ImplementsModelCall` | `CallInv`, `UnsentInv` |
| `CallRunsDown` | a call ends: the non-temporal half of `ImplementsModelCall`'s fairness | `CallInv`, `AttemptInv`, the variant `StepsLeft` |
| `DatesAreRight` | `RightDate` | `AnswerInv` |
| `UnflaggedIsSound` | `UnflaggedIsPlausible` | `AnswerInv` |
| `SeriesInStep` | `SeriesGoesOn` | `AnswerInv` |
| `EventsAreShown` | `ShownWhenDue` | `AnswerInv`, `ShownOnItsDays` |
| `ShownOnItsDays` | what `ShownWhenDue` says of a date, for all dates and days | -- |

*Polling.* `Contiguous` says nothing of a pass that is under way, so it is not inductive.
`GapInv` adds it: what a process listed is still the bottom of its role's inbox, because ids grow
(`ListInv`, `AssignedInv`); up to the last selected id, what is in the inbox is either still to be
done by this process or already linked (`SelectionInv`); the message in hand is the least of the
selection and is linked before the mark moves (`HandInv`); and a mark above all assigned ids
comes from the operator (`MarkInv`), so a message that arrives is not behind a polled mark.
`EmitInv` adds that a row which an INSERT created is in the hands of exactly the process that
created it until it is emitted or dropped: that is why two pollers do not both emit it, and, with
`MissedInv`, why none is forgotten while nothing fails. `HistoryInv` says that the mark read at
the start of a role is still the recorded one at the branch on it; that needs a process alone
with the database, and with a second one it is false: a slower first poll may restart from its
own window.

*Ingest.* The parts of `GapInv` that are about one process's selection (`LocalInv`) do not depend
on who moves the mark, so `PollProofs` proves them of any step by its effect (`MarkEffect`,
`LocalStep`, `EffectKeeps`) and `IngestProofs` reuses them beside the marks that ingest records.
`InputInv` is the counterpart for an input that comes newest first: up to the highest line stored of
a role, every message is stored, lost, or still to come, from `lines`, from `listed` or with a
role in `unlisted`. The end of the input empties the last three, also when sync has died; what
it then owed is in `lost`, so nothing but lost messages is passed by the mark.

*Extraction.* Runs are private to a process (`RunInv`, because AUTOINCREMENT never repeats an
id), so a run covers a message of its batch only from the one transaction that saves the whole
answer (`CoverInv`). From that the saved answer is what the newest run shows, and a save is
either the abstract `Publish` or, when a newer run has answered, invisible. The existence of a
newest run is carried as an invariant (`NewestInv`) instead of being derived from finiteness.
`LinkInv` uses that links only grow. `VersionInv` adds that a batch is never overtaken by a newer
run: that is true while one extract runs beside one reextract, whose batches are disjoint by
state (`HoldInv`), and false with two extracts of different versions, which is why those two
theorems have an assumption (`Single`). The case they exclude is listed as a hazard.

*The budget of runs.* `BudgetIsFinite` bounds the number of runs by a sum over messages. The sum
is the cardinality of a set, the attempts spent (`Spent`: pairs of a message and an attempt), so
a step that spends one makes the set larger and no induction over the queue is needed. `RunsPaid`
says that every run but the one under way has paid: it spent an attempt, or a fault stopped it.

*The loop.* `LateInv` counts requests after a signal against the step the loop is at: the request a
pass has under way is its last and leaves only the final logout, while a loop that is logging out or
in goes through with that, three requests of the login included, before it looks at the context
again. `VerdictInv`
says that until a role fails, each role found is done, in hand or still to come; `PeriodInv` that
a session is renewed only in the first pass of a period, which is all that `Supervisor` needs
besides the count.

*Migration.* `OldestInv` is the interesting one: a run that was not started under a pending
backfill (`hasty`) sees a database whose columns are complete and whose backfills are all done, so
every synthetic run is below it. A column is never dropped, so no backfill can become due again.

*A message.* `CallInv` bounds requests by the loop counter, `UnsentInv` says that a call cannot
have decoded or lost what it never asked for. `AnswerInv` says no more than where events come from:
they are none, or what `BuildEvent` made of one of the candidates and the day the message is dated
from, without a panic. What the four properties of dates say is then a matter of `BuildEvent` and
the calendar. A year is found by arithmetic alone: the years before a day and those after it do not
overlap (`YearsInOrder`), and every day is in one, because the first year that starts on or after
it has one before it (well-foundedness of the naturals, no induction over data). With
`PartsOfDate` and `DateOfParts` a date is compared through its parts, so "the next 4.3. from the
day of sending on" is a comparison of years and `AddMonths` a carry of months; only
29 February, the 31st and their like need cases. `ShownOnItsDays` is arithmetic modulo 7.

`ExtractAssumption` is what the code can meet: a message is not sent on day 1, the zero time a
timestamp that does not parse is replaced by, and a candidate is what JSON and the regular
expression of `parseDateRaw` let through, any count of any sign, not what the response schema
promises.

*That things end.* The prover knows neither fairness nor ENABLED, so the liveness properties
themselves are checked by TLC. What is proved of them is the part that does not speak of time: a
measure which every step of the process, a failing one too, makes smaller, and which no step of any
other process, of Wilma or of the operator raises. A pass of `poll` counts roles and then the steps
left in the role (`Forward`), a pass of `extract` the messages left in its batch, an Open the
columns left to look at, a call the attempts left; a loop that was told to stop is seven steps from
its end at most. For `Recovers` the measure is a triple (`Nearer`): refused logins, failed requests,
steps to the end of the next login, the first two bounded by `GiveUp` and `MaxFaults`; `RolesInv`
adds that a pass which reached a request had roles to poll, so each later pass meets the dead
session again. These theorems hold for every instance; that the next step is enabled and is taken is
what they leave to fairness.

The proofs go step by step through actions, most of them summarised first by what they do to the
variables a property sees.

**Only model-checked.** Liveness under fairness is outside the prover: `EventuallyStored`,
`QueueDrains`, `Recovers`, `StopsWhenAsked`, `Attaches`, and that a call ends
(`ImplementsModelCall` with its fairness). The theorems above give the variants these rest on; that
an enabled step is taken, and that passes which are started again and again get through the whole
queue or up to the newest message, are left to TLC on the instances of section 4. Every
other property of a passing run is stated by a theorem.

## 6. Where the code and its documentation disagree

Two are runs of their own, with the line that promises otherwise quoted in `PROJECT.json`.

- `extract_requeued`: a failed call of `reextract` moves an answered message into the pending
  queue of `extract`.
- `extract_poison`: a negative recurrence count in an answer panics before the message is charged,
  so it is taken by more runs than `--max-attempts` allows.

What else a reader of the models should know of the code; the properties of the passing runs are
stated so that they say how far these go:

- A message whose row was inserted and whose emission then failed is never emitted: the next pass
  finds an old row (`StreamedUnlessFault` asks for no fault).
- On a role's first poll the bootstrap window is recomputed in each pass; a message whose body
  failed to fetch may have left it by the retry and is skipped (`floor` starts where the mark
  was created).
- A child linked after a message was extracted never gets its events (`ReachesLinkedChildren`
  speaks of the children linked when the run began).
- A `sync` that dies, or cannot write on, in the middle of a listing looks to `ingest` like one that
  has ended (`main.go` 258-277, 1156-1166): the newest messages are in, their mark is recorded, and
  the older ones below it are never asked for again (`GapsAreLostLines` excepts what was listed and
  not delivered).
- `src/README.md` 407-408 promises that a signal to `poll --interval` waits for the current HTTP
  request only, 30 s at most. That is so only in part: every way out of a pass sends a logout as
  well, and a signal that comes while an expired session is replaced is looked at after the login
  only, so that a logout, the three requests of a login and a last logout follow, each with its own
  30 s. `LateRequests` states the bound the code keeps: one request of a pass and a logout, or five
  requests of a session and none of a pass.
- An expired session that is answered with a page instead of an error envelope is a failed role to
  `poll --interval`, pass after pass, until a body request or an envelope shows it (`Recovers`
  excepts it).
- Rows of the old binary stay without a run for good when `Open` is interrupted between the last
  ALTER and the backfill, or when the old binary writes on after it (`OrphansExplained`). Two first
  Opens at once may fail one of them with "duplicate column name"; the next Open succeeds.
- A message sent between midnight and 2 or 3 o'clock in Helsinki and extracted from the database is
  dated from the day before (`DayBefore` in `RightDate`); on stdin it is not.
- 29.2. without a year is given up, and flagged, unless the year of sending has one still to come
  (`Written` in `RightDate`).
- A monthly series from the 29th, 30th or 31st goes into the month after one that lacks the day, as
  `AddDate` counts (`SeriesGoesOn` lets it have the first days of that month).
- The dates of a message whose time did not parse are counted from the year 1 and not checked for
  plausibility (`UnflaggedIsPlausible` speaks of dated messages).
- A process that opens the database between another's last ALTER and its backfill extracts under a
  run id below the synthetic one, so old rows may hide its answer (`BackfillIsOldest` excepts a run
  begun while a backfill was due).

## 7. What is not modelled

- `roles`, `probe`, `version`, and the queries of `db`, `review` and `events` keep no state: they
  print what they read. Of `events`, the filter on dates is modelled.
- The loop of `extract` over stdin keeps no state either and listens to no signal. `ExtractMessage`
  has a message on its way through it, without a verdict that would be stored.
- Parsing of HTML and JSON, cookies, the prompt, the response schema, labels and the wording of
  output are data: what they yield is an input of the models.
- Throttling, `--delay` and timeouts only stretch time between steps that may be apart anyway.
- The best-effort logout on the way out of a command other than `poll`, whose result nothing reads.
- `event_children` of old rows: the backfill transaction fills it with the same statement as the
  audience.
- SQLite itself: a statement or transaction is atomic and durable, and a busy database is one of
  the faults.
- In `Validate`, the threshold of nine months is counted in days; across a change of the clock the
  code is an hour off it.
