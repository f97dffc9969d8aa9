# TLA+ specification of BloomRepo

BloomRepo is a desktop program (and command line) that discovers public GitHub
repositories, filters them, stores them in SQLite, announces the interesting
ones, and analyzes local directories. These modules model the parts of it in
which several activities meet: the dispatcher and the scan cycle sharing the
database, a cycle that can be dropped at every `await`, a search that is paged
while its result changes, a token pool and its rate limits, output files and
migrations that survive a crash, the window and its workers, and a scanner whose
caller may be gone. All source paths below are relative to `src/src/`.

Contents: 1 the system, 2 the modules, 3 the runs, 4 the proofs, 5 what the
checks say about the code, 6 what is left out, 7 the plan.

## 1. The system

| component | state it keeps | operations | interacts with |
|---|---|---|---|
| Engine, discovery cycle (`engine.rs`) | `AppState`: event references, search windows and watermark, sequential cursor, per-source health | `run_cycle`: events, search, sequential, enrichment, watch, then one commit | GitHub client, database, filter; a cycle is a future that its owner may drop at any await |
| Search source (`engine.rs` 456-576, `crawler.rs` 470-560) | queue of `SearchWindow`s, `last_search_watermark`, `search_pass_target` | `collect_search`, `apply_search_page` | cycle, checkpoint |
| Watch source (`engine.rs` 296-353, `db.rs` 506-535) | `watched`, `last_watch_success`, change history | `due_watched`, two requests per repository, merge | cycle, quarantine, commit |
| Database (`db.rs`) | tables `repos`, `changes`, `outbox`, `app_state` | `ingest`, review and watch commands, `quarantine_repository`, `re_evaluate`, `claim_outbox`, `finish_outbox`, `retry_failed_notifications` | everything: one connection behind a mutex, every write an IMMEDIATE transaction |
| Dispatcher and channels (`engine.rs` 104-126, 675-716; `notifier.rs`) | the claimed row, in memory only | claim, deliver, settle; backoff; a lease | database, output files, toasts, webhooks |
| Repository filter (`filter.rs`) | none | score and decide | ingest and re-evaluation |
| GitHub client and token pool (`crawler.rs`, `tokens.rs`) | permits; rate-limit bucket per resource, rotation, secondary cooldown, retired tokens | acquire, reserve, observe an answer | every source |
| Local output files (`engine.rs` 718-860) | one file per event, temporary files | write, hard-link, verify | dispatcher; the writer of an ending process |
| Toast and lookup jobs (`notifier.rs` 69-146, 615-669) | permits, blocking threads, a child process | admit, run with a deadline, poll, kill | dispatcher, runtime |
| Migration and backup (`db.rs` 85-149, 799-941, 1436-1520) | schema version, backup files | back up, migrate on open | process start |
| Desktop window (`gui.rs`, `ui.rs`) | what is shown and waited for; three command and three event queues | pause, scan now, query, watch, re-evaluate, audit, save a report, shutdown | engine, database, analyzer |
| Process start (`main.rs`) | instance lock, legacy import | run, one-shot commands | everything |
| Local analyzer (`analysis.rs`) | budgets of one scan, the report | walk a directory, parse manifests, ask OSV | window, command line |
| Configuration, legacy state (`config.rs`, `state.rs`, `models.rs`) | files | validate, load, save | process start |

**Hard behaviours.** The dispatcher task and the cycle run concurrently and
share rows: a notification can be withdrawn while it is being sent. The program
can be killed, or a cycle dropped, between any two awaits. Requests fail one by
one, and each source must keep what it has. The search result is an index that
lags behind GitHub and changes between pages. A quarantine is committed while the
cycle that found it goes on, and one repository the database refuses is enough to
refuse what a cycle brings. Blocking closures outlive the futures that wait for them. The window
talks to its workers through bounded queues whose contents may be outdated when they
arrive. Leases, retries and budgets make liveness far from obvious. `PROJECT.json`
lists these hazards with their lines and the properties that cover them.

**What makes each component correct.**

* Outbox: a repository that was closed (private, ignored, rejected) is never
  announced; no notification is lost or given up early; duplicates are bounded;
  a settled row stays settled; every queued row settles.
* Cycle: the checkpoint never runs ahead of the data it stands for; a reference
  or a listing page is never lost to a cancelled, failed or refused cycle; a
  quarantine is final; the sequential source catches up unless a repository bars it.
* Search: the watermark never passes a repository that was not listed; the queue
  tiles the time range and stays small; a pass ends; the source does not spoil its
  own checkpoint.
* Watch: every watched repository is refreshed again and again; its clock
  advances only with the data; recorded changes happened.
* Client: a live bucket is never replenished by a late answer, nothing is sent
  during a cooldown or with a retired token, few requests are refused, every
  request ends.
* Output: a published file is whole and on disk, nothing is overwritten, leftovers of
  crashes stop no later attempt.
* Jobs: no more closures than permits, a delivery returns whatever hangs,
  and a toast that nobody waits for any more is ended.
* Window: what is shown answers what is asked now; pause and cancel mean the same
  to window and worker; no report is dropped; closing ends every worker.
* Start: after a crash at any step the old or the new schema is there, with a
  whole backup of what was changed; the checkpoint never goes back.
* Analyzer: a report without a coverage gap leaves nothing out; its work is bounded.

## 2. The modules

| module | models | lines of the code |
|---|---|---|
| `Outbox` | outbox and repository rows, all transactions on them, dispatcher, time, crash | `db.rs` 281-323, 360-476, 537-584, 660-752, 1117-1133; `engine.rs` 59-65, 104-126, 675-716; `notifier.rs` 269-333 |
| `Ledger` | abstract promise of the outbox | |
| `DatabaseProofs` | theorems about `Outbox`, that it implements `Ledger`, and about `Startup` | |
| `EngineProofs` | theorems about `Cycle` and `Jobs` | |
| `SearchProofs`, `WatchlistProofs`, `ClientProofs`, `OutputProofs`, `DesktopProofs`, `AnalyzerProofs` | theorems about the module each is named after | |
| `Cycle` | one cycle after the other, with checkpoint, commit, cancellation and restart | `engine.rs` 68-102, 128-449, 565-634; `db.rs` 360-393, 506-519, 1172-1208; `crawler.rs`; `gui.rs` 445-462 |
| `Search` | the search source and GitHub's index | `engine.rs` 68-102, 456-563, 646-673; `state.rs` 9-18; `crawler.rs` 464-560 |
| `Watchlist` | watch source, candidates of other sources, merge of the release tag | `engine.rs` 223-389; `db.rs` 446-452, 506-519, 1035-1074; `crawler.rs` 265-280 |
| `Client` | token pool, request loop, GitHub's quota | `tokens.rs` 22-256; `crawler.rs` 88-170 |
| `Output` | the file channels, on a file system that forgets | `engine.rs` 675-843 |
| `Jobs` | blocking closures behind the dispatcher | `notifier.rs` 69-146, 269-498, 615-669; `engine.rs` 675-716; `gui.rs` 2241 |
| `Desktop` | the window and its three workers | `gui.rs` 73-523, 598-1059, 1322-1590, 1956-1971, 2194-2297 |
| `Startup` | lock, backup, migration, first state | `main.rs` 249-303, 379-580; `db.rs` 85-149, 799-941, 1436-1519; `engine.rs` 68-102; `state.rs` 82-107 |
| `Analyzer` | the analysis of one directory | `analysis.rs` 150-183, 238-618, 688-765, 1123-1262 |
| `MCSearch`, `MCClient`, `MCJobs`, `MCDesktop`, `MCAnalyzer` | values of constants that a `.cfg` cannot write: tuples, functions, the directories to analyze | |

The other modules need no MC module: their `.cfg` gives every constant its value.
`Startup` and `Jobs` put their name before `Init`, `Next`, `Spec` and `TypeOK`, so that
`DatabaseProofs` and `EngineProofs` can extend them beside `Outbox` and `Cycle`.

**Outbox.** `repos` holds the columns that decide about notifications, `outbox`
one record per event key `<<repository, event, channel>>`, where event 0 is "new"
and n is `change:n`. The code inserts a row once for a key (`ON CONFLICT DO
NOTHING`), so a function from keys to rows is the table. A transaction is one
action, since the mutex and IMMEDIATE make it atomic: `Ingest(batch)` does all of
`ingest_inner` for a batch (merge, revision, announcement, withdrawal, insert).
The dispatcher's `Claim`, `Deliver` and `FinishOk`/`FinishErr`/`FinishRejected`
are separate actions, `job` is the message in its hands. `Deliver` may report a
failure although the message arrived. `Crash` loses `job`. Clocks are the time
left until a lease or a delay ends; jitter is a nondeterministic choice in the
range the code computes. `sent` is history, read by properties only.

**Ledger.** Messages are queued, delivered, given up, retried or withdrawn, in
one commit with the closing of their repository. `Outbox` implements it under
the mapping at its end (`ImplementsLedger`): claims, leases, backoff, crashes and
lost settlements must be stuttering steps.

**Cycle.** `pc` is the await a cycle has reached. `next` is the cycle's copy of
the checkpoint, `memory` the engine's state, `saved` the row in SQLite. At every
await the world may move (`Move`), the user may click, the cycle may be dropped
(`Cancel`) or the process die (`Restart`). A quarantine is written at once by the
watch source, everything else by `Commit`, which the code refuses for one candidate
that `safe_repo` refuses (`CommitRefused`): its stored row is private, or its name is
one that `safe_repo` takes for a secret (`Unsafe`). However a cycle ends, its candidates are gone
(`CycleEnds`). Sources that are disabled, not due, or out of quota are skipped by chance
(`SkipSource`); `MAX_PENDING = 0` is a configuration without the event stream. The field
`listed` of the checkpoint is history, and so is `queued`: the references this cycle had in its queue and GitHub did
not refuse.

**Search.** Time is in units of the smallest range worth splitting; `born` is a
repository's creation time, `index` what GitHub has indexed and `earlier` the order of
it: for each repository those updated before it. Results come newest update first, so
that a repository's place in them (`Place`) counts it and the hits updated after it.
`Index`, `Touch` and `Delete` change both between requests. `state` is the cycle's copy
of the queue, `saved` the committed one. Each branch of
`apply_search_page` is an action: `Split`, `Blocked`, `TotalChanged`, `ShortPage`,
`NextPage`, `LastPage`. A query the client refuses (`Unsendable`: too long with the range that is
added, an `OR`) ends the source before anything is sent, and stays in the queue. `Restart` is the next start of the
program: `Loads` is `validate_state`, and an engine that refuses its checkpoint stays `"refused"`.
Neither the number of queries nor their length is limited, as in the configuration
(`config.rs` 398-533): there may be more than `MAX_WINDOWS`, and some `TooLong`.

**Watchlist.** `site` is what GitHub has, `release` the stored tag, `published` the
latest one, `last` the order in which watch clocks advanced. Each of a
repository's two requests is an action with its error path. Other sources insert
complete or sparse observations of the same repository.

**Client.** `pool` is `PoolState`: `valid`, `turn`, `bucket`, `secondary`, `unusable`;
`caller` says where each request is: waiting for a permit, in `get_headers` (asleep
there, permit in hand), sent, answered, reading the body. `Acquire`, `Refuse`, `Sleep`,
`Reserve`, `Observe` and `Finish` are the client's steps, `Serve` is GitHub's, and answers
may wait in `answered` while others overtake them. The component is modelled at its own
interface, for any number of tasks, as pool and permits are written. In the program the engine is its only task and
awaits one request after the other, so that answers overtake each other only in a program
that uses the client otherwise. Time is what is left until a reset.

**Output.** `writer` is the worker of each process, one action per call to the file
system (test, create, write, sync, link, remove, verify), each of which may fail. `file`
and `temp` are what the names hold, down to whether it is synced. A new process may
start while the writer of the old one goes on (the window detaches it), process ids
come round, and a loss of power takes unsynced contents and any unsynced name.

**Jobs.** `caller` is the delivery the dispatcher awaits, `job` the closure of each attempt,
which has a life of its own: queued for a thread, running, polling a toast process.
`Expire` is the deadline of the delivery, `Dropped` what a future does to its closure when
it goes, `Result` how its end is taken notice of. `effect` is history: the attempts whose
file was written, whose toast was shown or whose message arrived. A lookup or a child may hang for ever.

**Desktop.** `w` is the window's own state, `out` and `in` the queues, `latest`, `cancels` and
`stop` the channels beside them. A frame is a sequence of actions, and `turn` says where it
is: it receives the events of one worker after the other, one at a time (`ReceiveSql` until
`SqlDrained`, and so on), hands over the requests that were kept for want of room (`Flush`),
and is drawn, with a click or without (`DrawClicked`, `Draw`, `DrawCancelled`). It begins by
looking whether the window was closed (`Close`). The workers `SqlStep`, `ScanStep` and
`AuditStep` run at the same time, also between two events of a frame, each taking a command,
doing its work in one or more steps, and delivering an event as soon as there is room. A cycle
may commit a quarantine and go on (`ScanQuarantine`, counted in `scan.commits`), and end with an
error before its commit or after it (`ScanCycle`). The
code takes at most 32, 8 and 4 events per frame (`gui.rs` 801, 940, 995), more than or as many
as the queues hold (16, 8 and 2); as another one may be delivered in time, or not, the model
leaves these bounds out.

**Startup.** `file` is the database on disk, `work` the transaction a process has open, and
each step of backup and migration is an action at which the process may die or power
fail. `origin` is the database as it was found at first, against which the properties
compare. `reported` and `told` are history.

**Analyzer.** `worker` is the blocking thread with the stack of directories it is in;
`task` is the future that waits for it, with a deadline; `cancelled` the flag between
them. `Enter`, `Check`, `Take`, `Read`, `Match` and `Inventory` are the scan, with each
budget tested where the code tests it; `gaps` are the coverage gaps of the report. What
the parsers make of a manifest is computed on an abstract list of packages.

Operators and actions with an underscore (`Link_Rename`) preceded by a
comment *Mutant* are wrong on purpose: each is what a slip in the code would
make of the definition that follows it, and `PROJECT.json` says which property
finds it. They are not used by any specification.

## 3. The runs

Passing runs:

| run | checks | bounds |
|---|---|---|
| `outbox` | `LiveRowsEligible ImplementsLedger RowsAreHistory HeldRowIsMine SendsAreBounded SettledStaysSettled EverythingSettles` | 1 repository and channel, events "new" and `change:1`, 2 attempts, lease 2, 1 crash, 1 retry |
| `cycle` | `DataBehindCursor MemoryIsSaved ReferencesAreKept QuarantineIsFinal SequentialCatchesUp` | 2 repositories, all limits 1, 2 changes of visibility, 1 crash or cancellation |
| `search` | `NoSilentGap QueueTiles CheckpointLoads SearchDrains` | 2 queries, 2 repositories, results of 2 in pages of 1, 2 windows at most, time up to 5, 1 update, 1 abort or restart, 1 deletion |
| `watchlist` | `ClockMeansFresh WatchedAreRefreshed` | 2 repositories, budget 1, 1 release each, 1 of them private or gone, 1 cancellation, 2 uses of watch |
| `client` | `RefusalsAreBounded SendsAreAllowed RequestsEnd` | 3 callers, 2 permits, one token configured twice and a malformed one, quota 1, window 2, 3 requests, 2 faults |
| `output` | `PublishedIsWhole LeftoversAreHarmless NeverOverwritten RowsAreSettled` | 1 event, 2 process ids, 2 attempts, 3 failing calls, 2 ends of a process, 1 loss of power, 1 retry |
| `jobs` | `WorkersAreAdmitted DeliveredTookEffect DeliveriesReturn AbandonedToastsEnd` | a file, a toast and a web row, claimed 1, 2 and 3 times, 2 threads, permits 1 and 2, deadline 1, 1 shutdown |
| `desktop` | `WindowIsTruthful CancelIsHonest NoReportIsDropped RequestsAreAnswered WorkersStop` | command queues of 2, event queues of 1, three kinds of users, 3 clicks, 1 cycle with 1 quarantine, 1 failure |
| `startup` | `MigrationIsSafe OldRowsAreNotAnnounced CheckpointSurvives` | 2 processes, 3 starts, 3 cycles, 1 time another program holds the database |
| `analyzer` | `HonestReport WorkIsBounded CallerReturns` | 8 directories; limits of 3 files, 5 entries, depth 1, 2 and 4 bytes, 2 dependencies, 3 findings, 2 OSV requests; 1 failing call |

Two runs must find a violation (section 5):

| run | refutes | bounds |
|---|---|---|
| `watchlist_release` | `RecordedChangesHappened` | 1 repository |
| `cycle_refused` | `PagesAreCommitted` | 2 repositories, 1 change of visibility, no crash |

Some properties are conjunctions of named parts: `WindowIsTruthful` is
`ShownIsAsked`, `QuietWindowIsFresh` and `ControlsAgree`; `MigrationIsSafe` is
`BackupsAreWhole` and `MigrationIsAtomic`; `CheckpointLoads` has `QueueIsShallow`. The type
invariant is a part of `MemoryIsSaved`, `CheckpointLoads`, `RefusalsAreBounded`,
`LeftoversAreHarmless`, `WorkersAreAdmitted`, `WindowIsTruthful`, `MigrationIsSafe` and
`WorkIsBounded`; that of `Outbox` is proved, that of `Watchlist` documents its variables.

**Why these bounds are enough.** Two attempts distinguish the last one from the
others, a lease of two allows one tick before it ends, one crash at any step
creates an orphaned claim, and one retry resets an exhausted row while its last
send is pending. Repositories of the outbox meet only in a batch of `Ingest` and
in the sweep of `Claim`, where each row depends on its own repository only; one is
run, and the theorems of section 4 hold for any number, any channels and any filter.
Two repositories in `Cycle` suffice for a cursor, a page limit and
two sources to disagree about which is next, limits of 1 put every bound at its
edge, and two changes of visibility make a quarantined repository public again, which then
bars every cycle that finds it. In `Search` a result of two pages is what an update can tear, and a range of
three units splits twice; a saturated window appears as a result that GitHub calls incomplete,
which takes the same branch as a total over the limit. Two queries in a queue of two windows put the
limit in the way of the first saturated window; when the first query is done there is room for a
split. Longer queues are left to the proofs, and so are queries that the client refuses or that are too
long for the checkpoint, and names that `safe_repo` refuses. In `Watchlist` a budget of
one for two repositories is the smallest competition.
In `Client` three callers on two permits leave one waiting while the others hold answers
that overtake each other, and a window of two lets an answer come after its reset. In
`Output` two ids and two ends of a process let the third process take over the id of the
first, whose temporary file is still there. In `Jobs` two lookups fill both threads,
with a toast and a file behind them. In `Desktop` queues of two and one are full
after two clicks, which leaves one more to be kept and overtaken, and every click may fall
between an answer's sending and its receipt. `Startup` has a start
that fails, one that succeeds and one that finds the result. In `Analyzer` each
directory but one exceeds another budget, or holds entries the parsers cannot follow.
Counters of crashes, moves, touches, errors, clicks and the like are bounds of
the model and are named `Max...` and `Horizon`.

**Deadlock** is checked in the outbox, cycle and watch runs. In the others the model
really ends: requests, clicks, starts, attempts and time are used up.

**Fairness, and why the code justifies it.**

* `Outbox`: weak fairness of the dispatcher, whose task loops until it is aborted
  with the engine (`engine.rs` 104-126) and whose channels have deadlines, and of
  time. Ingest, the user and crashes need not happen.
* `Cycle`: weak fairness of the cycle as a whole (the worker starts cycles for
  ever, every request has a timeout), and strong fairness of a successful
  sequential page, that is, GitHub answers that source now and then.
* `Search`: cycles start, end and commit; strong fairness of a complete answer.
* `Watchlist`: cycles start, end and commit; a source that is due again and again
  is not skipped for ever (strong fairness of `PlanWatch` with the full list), and
  a request that can succeed does so now and then. A renamed repository is not among
  the faults of this run: it never succeeds (section 5).
* `Client`: weak fairness of every step of every caller, of GitHub's answer (the client has
  a timeout) and of time. New requests need not be made.
* `Output`: weak fairness of claims and of each call of a writer, that is, the file system
  returns. Processes need not end.
* `Jobs`: weak fairness of the dispatcher, of a free thread that takes work, of a closure that
  polls, and of time; a file is written in the end. Nothing is assumed of a lookup, a
  request or a child process.
* `Desktop`: weak fairness of the frame (its steps without a click) and of each worker: statements, cycles
  and analyses end. Clicks need not happen.
* `Analyzer`: weak fairness of the task and of time; nothing is assumed of the worker, which may
  hang in the file system, or of whoever may drop the task.
* `Startup` is checked for safety only.

## 4. The proofs

All theorems are proved with TLAPS, for every value of the constants that satisfies the
named assumption of the module.

**Outbox and ledger** (`OutboxAssumption`: limits are positive, bounds are natural numbers,
`Filtered` consists of pairs of a repository and a channel).

| theorem | property | induction |
|---|---|---|
| `TypeCorrect` | `TypeOK` | by itself; the bound on attempts needs `Due`, the ranges of lease and delay need `Backoff` |
| `LiveRowsAlwaysEligible` | `LiveRowsEligible` | relative to `TypeOK`: the dispatcher adds no live row except one that was live, each transaction withdraws what it closes |
| `RowsAreAlwaysHistory` | `RowsAreHistory` | relative to `TypeOK`: a row is inserted in the step that announces or raises the revision, and these never go back |
| `HeldRowIsAlwaysMine` | `HeldRowIsMine` | only the dispatcher claims, it holds one job, and no transaction resets a row in processing |
| `FailedIsAlwaysExhausted` | `FailedIsExhausted` | a row becomes failed when it is swept or settled, with all attempts used |
| `SendsAlwaysBounded` | `SendsAreBounded` | strengthened by `AbsentIsBlank` and by the job's attempt in `HeldRowIsMine`: an unsent claim is paid for, a retry resets attempts but adds `MAX_ATTEMPTS` to the right-hand side |
| `DeliveredWasAlwaysReceived` | `DeliveredWasReceived` | with `OkIsAlwaysReceived` (a job in step `ok` was received, and `sent` only grows) |
| `SettledAlwaysStaysSettled` | `SettledStaysSettled` | an action property: no step selects a settled row, and with `HeldRowIsMine` a delivery never belongs to a delivered one |
| `OutboxImplementsLedger` | `ImplementsLedger` | a refinement: under the invariants above every transaction is a `Commit` or a `Retry` of the ledger, a claim or an error a `GiveUp`, a success a `Deliver`, a send an `Arrive`; the rest stutters |

`TypeOK`, `FailedIsExhausted` and `DeliveredWasReceived` rest on their proofs alone: no run checks them.

The layout follows the actions: a lemma for the transactions, one for the
dispatcher, one for crash and time, and small lemmas about what an operator does
to one row (`CancelRowFacts`, `SweepRowFacts`, `ClaimRowFacts`). The refinement has a
lemma for each kind of step. `CommitMaps` says when a transaction is a commit of the
ledger; `IngestMaps` uses it with `RowsAreHistory` (what is published had no row, so
it is published to all channels) and `LiveRowsEligible` (what is queued belongs to an
open repository, so closing is the only reason to withdraw).

**Cycle** (`CycleAssumption`: limits are positive, that of references and bounds natural numbers; `Unsafe` is
any set of repositories). The inductive
invariant of `CycleInvariant` is the two invariants below with `NextIsCovered` and
`NextQueueFits`: what the checkpoint under work (`next`) claims to be done, or no longer has in its
queue, is stored *or a
candidate of this cycle*, for only then does `Commit` make `DataBehindCursor` true again;
a cancelled or refused cycle goes back to `saved`, of which it was true all along.

| theorem | property | why it holds |
|---|---|---|
| `DataAlwaysBehindCursor` | `DataBehindCursor` | a part of the invariant; a source adds ids to the claim in the step that makes them candidates |
| `ReferencesAreAlwaysKept` | `ReferencesAreKept` | an action property: a reference leaves the cycle's queue only when it is fetched (then it is a candidate) or refused, and only `Commit` replaces the stored queue |
| `MemoryIsAlwaysSaved` | `MemoryIsSaved` | types, equality of the engine's and the stored state between commits, and the length of the queue |
| `QuarantineIsAlwaysFinal` | `QuarantineIsFinal` | an action property: `Commit` is refused if a candidate's row is private |

**Search** (`SearchAssumption`: `Repos` is finite, `CAP` is a multiple of `PAGE`, `LAG` is at
most `SETTLE + OVERLAP`, the first watermark is not before `OVERLAP` and not after `Horizon`; `MAX_WINDOWS`
is any number and the queries are any number, of which any may be refused by client or checkpoint).
A repository in the index is *unread* by a window (`Unread`) if the pages left have room for it
and for all hits updated before it; `Covered` says that whatever a checkpoint has
not listed lies behind its watermark and, if the running pass will put it before the next
watermark, is unread by some window of the queue. That counts: a page shows the places
it is asked for, so what it does not show still fits into the rest (`PageShows`), and what
GitHub does to the index between two pages can only move a repository back (`WorldKeepsGood`), unless
it is itself updated (`torn`). `Births` and `Dated` relate lag, settling time and
overlap to the clock. `SearchInvariant` holds this of both checkpoints, since an aborted cycle
goes back to the saved one.

| theorem | property | why it holds |
|---|---|---|
| `NoGapIsEverSilent` | `NoSilentGap` | `Covered` of the saved checkpoint |
| `QueueAlwaysTiles` | `QueueTiles` | `Tiles` of both checkpoints is inductive with `SearchInvariant`: splitting, starting again and dropping the first window each keep it |
| `CheckpointAlwaysLoads` | `CheckpointLoads` | with `Shaped`, below |

The queue is shallow because splitting goes depth first. `Shaped` says of the windows of the first
query that each is at least as long as all that is left before it, of which it was the second
half, and that every later query has one window. So window i ends at least 2^(i-1) seconds after
the start of the queue (`WindowsGrow`, by a least counterexample; `PowersDouble` gets the power of
two from the number of subsets), and the target of the pass bounds i. The theorem says what the
source can promise: if the configuration fits (`Fits`: no more queries than windows, none too long), what
is stored loads and no start refuses it (`FittingLoads`); if it does not, the windows still are
never more than the pass began with, or the limit (`Longest`). That a pass may begin with too many is described in section 5.

**Watchlist** (`WatchlistAssumption`: natural bounds, `"public"` is not a fault). The invariant of
`WatchlistInvariant`: what GitHub had when the cycle began is not newer than what it has
(`FloorIsPast`), and a candidate of the watch source is not older than that (`WatchedIsRead`),
however other sources' candidates are merged with it.

| theorem | property | why it holds |
|---|---|---|
| `ClockAlwaysMeansFresh` | `ClockMeansFresh` | an action property: when ranks are renumbered, a row that was not refreshed never moves up (`StampedFacts`), so only rows of the watch source do |

**Client** (`ClientAssumption`: positive limits and quota, finitely many callers, `Credentials` a
sequence, some resource). `ClientInvariant` adds to the types that permits are counted, that
usable entries hold accepted credentials, and `RefusalsAreHeld`: each answer that told of a
spent quota is held by a caller, is in the pool, or was lost to a fault. As long as none
has reached the pool, requests in flight and answers on the way need a permit each; once one has,
the pool lets nobody send in that window (`Blocked`).

| theorem | property | why it holds |
|---|---|---|
| `RefusalsAreAlwaysBounded` | `RefusalsAreBounded` | the count above, with at most `Permits` holders |
| `BucketsAreNeverReplenished` | `BucketIsNeverReplenished`, which no run checks | an action property: `Learned` takes the lower count and the later reset of a live bucket |
| `SendsAreAlwaysAllowed` | `SendsAreAllowed` | an action property: `Reserve` is the only step that sends, with `secondary` over and an entry in `valid`, which are accepted |

**Output** (`OutputAssumption`: finitely many process ids, at least two, at least one attempt). The
invariant of `OutputInvariant` says of every writer what its position means for its two
names (`WritersTell`, `FilesAreWhole`), counts leftovers together with the writers whose process
has ended but which still run (`LeftoversAreCounted`), and says that before the first retry every
temporary name belongs to an attempt the row has come to (`NamesAreNew`).

| theorem | property | why it holds |
|---|---|---|
| `PublishedIsAlwaysWhole` | `PublishedIsWhole` | only a synced file is linked, and a row is delivered after a verification |
| `LeftoversAreAlwaysHarmless` | `LeftoversAreHarmless` | each leftover is charged to one failed call or one end of a process; without a retry a new attempt has a new name |
| `NothingIsEverOverwritten` | `NeverOverwritten` | an action property: `Link` requires the name to be free, and no writer's temporary name is a published one |

**Startup** (`StartupAssumption`: distinct markers, natural bounds; `NoneIsNoFile`). What
the holder of the lock remembers of the file stays true while it holds the lock
(`HoldersKnow`), since no other process has anything but the lock to wait for; backups and
positions are counted.

| theorem | property | why it holds |
|---|---|---|
| `MigrationIsAlwaysSafe` | `MigrationIsSafe` | backup and transaction are tied by `HoldersKnow`: a migration begins after the backup of what it changes was sealed |
| `OldRowsAreNeverAnnounced` | `OldRowsAreNotAnnounced` | the row of a migrated file was marked by `Columns`, `OldRowsCount` |
| `CheckpointAlwaysSurvives` | `CheckpointSurvives` | an action property: a process commits the successor of the position it loaded, which is still the stored one |

**Jobs** (`JobsAssumption`: positive permits, threads, attempts and deadline; the three kinds
of rows are disjoint).

| theorem | property | why it holds |
|---|---|---|
| `WorkersAreAlwaysAdmitted` | `WorkersAreAdmitted` | `WorkersAreCounted`: a permit is taken on admission and goes with the closure, not with the future |
| `DeliveredAlwaysTookEffect` | `DeliveredTookEffect` | `ResultsAreTrue`: a result, an exit status and a finished child each imply the effect of *their* attempt |

**Desktop** (`DesktopAssumption`: positive lengths of queues, natural bounds, `Users` click
on buttons there are; any number of quarantines in a cycle). What the window may expect of the sql worker is said of its *line*
(`Line`): the events on the way, the command the worker has in hand or the event it is
about to deliver, then the commands, oldest first. A worker's step changes one cell of the line, a
receipt takes its first, a request appends a last one (`Replaced`, `Removed`, `Appended`).
`SqlGood` says that answers come before commands (`InOrder`), that an operation, a snapshot
and a saving are in the line once at most (`OncePerKind`) and only while the window
waits for them (`Awaited`), and that what is shown *or will be* is either true or is going to
be corrected by something later in the line, or by the scan worker: an end of a cycle on its way, or still
to come because the cycle that runs has put a repository in quarantine (`ScanRefreshing`;
`FlagsAreTrue`, `RowsAreTrue`, `SnapshotIsTrue`). `ScanGood` counts pauses under way, as long as the worker lives, and
`AuditGood` analyses, cancellations and reports. After closing, all is blank (`Closed`).
`DesktopInvariant` is the induction.

| theorem | property | why it holds |
|---|---|---|
| `WindowIsAlwaysTruthful` | `WindowIsTruthful` | what is not in the line any more has been corrected; generations outdate the answers to other questions |
| `CancelIsAlwaysHonest` | `CancelIsHonest` | one analysis at a time, so that the generation a worker compares is its own, and a cancelled one has no report |
| `NoReportIsEverDropped` | `NoReportIsDropped` | an action property: an analysis is started only when no report waits to be saved, so `ReportsAreKept` finds the place of a new one empty |

**Analyzer** (`AnalyzerAssumption`: positive limits, a tree whose entries are nodes, findings and
packages that are sequences). `AnalyzerInvariant` says where the worker is on its stack
(`OnTheWalk`), which budgets it has looked at since it took something (`WithinBudget`: before
an entry is taken there is room for it, so that only the byte budget may be exceeded, by the one byte
that shows it), and that once the flag is set it has at most the entry in hand left (`Obeys`).

| theorem | property | why it holds |
|---|---|---|
| `WorkIsAlwaysBounded` | `WorkIsBounded` | a part of the invariant, for every tree, every manifest and every call that fails |

Each of these modules has a lemma per action (`...KeepsInvariant`) or per group of
actions that change the same state, and lemmas about the operators these need: sequences
(`QueueParts`, `QueueSplits`, `QueueFirstChanges`), cardinalities (`AtMostOneMore`,
`HitsAreCounted`, `PlaceCounts`), records.

**What the proofs changed.** Four attempts failed for a reason, and the models are better for it.

* `LeftoversAreHarmless` was stated in a form that is true at the run's bounds only. It now says
  what holds in general (an attempt finds its own temporary name taken only after a retry, and
  after a failed call or an end of a process), and the run has three failing calls.
* `DeliveredTookEffect` compared the row with the *last* attempt that took effect. With two toast
  permits an earlier closure may end after a later one; `effect` is now the set of attempts.
* The index of `Search` was a sequence, of which places after an update could not be counted.
  It is now a set with its order, and a page is defined by counting; the run has the
  same states as before.
* A frame of `Desktop` was one action, whose effect was a fold over the queue it drained;
  facts about a fold need induction over sequences. The frame now receives one event at a time, as the
  code's loop does, so that workers act in between (more behaviours than before), and a window is
  closed at the beginning of a frame only, where the code looks.

**Model-checked only.** All liveness (fairness and ENABLED are outside the prover's reach).
Of the safety properties only `HonestReport` of
`Analyzer`: what a report has to contain is defined by recursion over the tree and over nested
packages, and what a recursion computes for every input needs induction over data.

## 5. What the checks say about the code

Two runs find the code at odds with what it or its documentation says:

* **A stored release is forgotten** (`watchlist_release`). Observations by search
  and enrichment are complete with no release (`crawler.rs` 351) and `merge_repo`
  keeps the stored release only for an incomplete one (`db.rs` 1039), so a change
  that never happened is recorded and announced, and the next watch records the
  release as new.
* **Completed pages are not always committed** (`cycle_refused`). The watch source quarantines a
  private or missing repository at once. If another source listed it in the same cycle,
  `ingest_inner` reads the stored private row, `safe_repo` refuses it (`db.rs` 382) and the batch
  with all completed pages is rolled back, although the log says "completed pages will be
  committed with their data" (`engine.rs` 633). Checkpoint and data stay together
  (`DataBehindCursor`), and the pages are read again by a later cycle. But a quarantined repository
  that becomes public again and is found by search, listing or enrichment refuses *every* cycle that finds it, and so
  does one whose name looks like a secret (`db.rs` 1189): while it is public and found, the cursor does not move and no
  source stores anything, since nothing takes a row out of quarantine. `SequentialCatchesUp` exempts this
  case (`Barred`), and shows that without it the listing catches up.

The models also make visible, without a run of their own:

* **A quarantine is committed in the middle of a cycle**, although the comment at `engine.rs` 131
  says that before the commit only the local checkpoint changes. Until the cycle ends the
  window shows the rows from before; it reads them again whether the cycle ends well or not
  (`gui.rs` 976-990), so that an error after the commit (`engine.rs` 387-394) does not leave it outdated.
* **A configuration can disable the next start.** `search_queries` is not bounded
  (`config.rs` 398-533, and `--validate-config` accepts it). A pass begins with a window per query,
  the commit stores them, and `validate_state` refuses more than 512 at every later start (`engine.rs` 649),
  a query of more than 4096 bytes likewise (`engine.rs` 664): a state the program wrote, which is
  neither corrupt nor unsupported (`SECURITY.md` 72). `CheckpointLoads` therefore promises less
  unless the configuration fits (`Fits`).
* **A queue full of queries blocks its first saturated window.** With 512 queries, or a few less, there is no
  room for the halves (`engine.rs` 514): the window is kept, and the pass waits until it holds
  no more results than GitHub returns. `SearchDrains` exempts it (`Stuck`).
* **A window sorted by update time can skip a repository.**
  One update between two pages moves a repository to page 1, the total is
  unchanged, the window is complete without it and the watermark passes it, although
  "a coverage gap must not silently advance the watermark" (`engine.rs` 516). It
  takes a window of more than one page. `NoSilentGap` exempts exactly these (`torn`).
* **One repository can stop the watch list.** The first failing
  request ends the source (`engine.rs` 340). A renamed repository always fails
  (redirects are off, `crawler.rs` 91), its clock never advances, so it is first
  in every cycle. `"moved"` in `Faults` shows it.
* **Scan now, then Pause**, before the worker takes either: no cycle runs, the window says
  that the current cycle will finish (`gui.rs` 968) and shows a scan until scanning is
  resumed (`gui.rs` 433).
* **Unusable rate-limit headers disable the pool** until the process is restarted
  (`tokens.rs` 176): every later request is refused at once. `RequestsEnd` holds, since a
  refused request ends.
* **Directories are not synced after a link**: after a loss of power the name of a delivered
  event may be gone. `PublishedIsWhole` allows that and nothing else. For a backup (`db.rs` 1518),
  which is created under its own name, `Startup` assumes that syncing the file makes its name durable too.
* **Every failed migration leaves a backup behind** (`db.rs` 1478); nothing removes them.
* **The files of an export are reserved before the analysis** (`main.rs` 509) and stay behind
  empty if it fails, so that the same command is refused next time.
* **A worker that delivers an event spins** while its queue is full (`gui.rs` 212), so a window
  that draws no frames stalls it; `Desktop` has frames for ever.

## 6. What is left out, and why

* Formatting, validation of text, HTML, URLs and payloads: pure functions of one
  input with their own unit tests.
* The filter's score, bodies of messages, the fifteen recorded fields other than
  the release tag: no property depends on them.
* `next_allowed_at`, source health and quotas in `Cycle`: a source is skipped or fails by
  chance, which includes every schedule.
* `ORDER BY id` of `claim_outbox`: any due row may be chosen, so that liveness
  does not rely on the order.
* In `Search`, checkpoints of more than 256 KiB and queries of more than 16 KB, which the commit itself
  refuses (`db.rs` 1258): a cycle whose commit is refused goes back to what was saved, as `Abort` does.
* In the window: backup, export and retry of notifications, which go through the same
  queue and the same answer as re-evaluation; review states, paging of the list, the
  refresh every 20 seconds, drawing; in the window's workers, calls that never return.
* In the analyzer: which lines match a rule (also the rules for workflows) and what a
  manifest's text says are inputs; the pages of an OSV answer; a root that cannot be opened.
* In the client: parsing of bodies and checks of URLs, which keep no state.
* What the migration fills single columns with; the configuration's validation;
  `save_atomic`, which is deprecated and has no caller.
* The terminal output (`ui.rs`) and the command line: pure formatting and parsing.

## 7. Plan

Done, in this order: `Outbox` with `Ledger`, `Cycle`, `Search`,
`Watchlist`, then `Client`, `Output`, `Jobs`, `Desktop`, `Startup` and `Analyzer`. The order is
that of importance: what is announced, what is stored, what is found, and what carries
that out.

Proved: every safety property the runs check, except `HonestReport`.

Further modelling: `Filter` as a pure module; the composition of `Outbox` and `Output` (the
channel "file") and of `Desktop` and `Cycle` (who cancels).
