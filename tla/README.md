# Kirara: a verification development

Kirara is one Rust process with a SQLite database: it subscribes to films and
series, searches private trackers for the next episode, hands torrents to
qBittorrent (qB), moves finished torrents to remote storage, follows RSS feeds,
signs in to sites and deletes torrents that seeded long enough. The state that
matters is in SQLite. Many tokio tasks and web handlers work on it at once,
each in short transactions, with network calls between them. Leases and
versions keep them apart.

This directory holds TLA+ modules of that state and its steps, TLC runs on
small instances, and TLAPS proofs for all instances. Paths are relative to the
repository's `src/` (so `src/src/db/media.rs` is the Rust file `src/db/media.rs`
of the repository).

## 1. Inventory

### Modelled now

| part | code | state | operations | what makes it correct |
|---|---|---|---|---|
| media target progression | `src/db/media.rs`, `src/media/service.rs` (`plan_tv_targets`) | `subscriptions` (`next_episode`, `start_episode`, `enabled`), `subscription_targets` | plan and refresh from TMDB, settle covered targets, advance the cursor, edit, reset, delete | the cursor of an active subscription names a target that can be worked on; no submitted episode is wanted again; a queued target has work |
| download outbox | `src/db/media.rs`, `src/media/service.rs` (`process_download_attempt` and callees) | `media_downloads`: status, attempts, infohash, version, lease | enqueue, claim, fetch and check, mark submitting, add to qB, settle, retry, give up, recover | a row is `submitted` only when qB had the torrent; an unanswered submission is never searched again blindly; every row is settled |
| subscription scans | `src/media/service.rs`, `src/db/media.rs`, `src/media/scheduler.rs` | subscription lease, owner, version | claim, refresh, search, enqueue, complete, finish, release after an error | a scan never writes for a target or a lease that is not its own |
| media web API | `src/web.rs`, `src/media/service.rs` | the same tables | create, update, reset, pause, delete, queue by hand, reconcile, delete a record | users meet every intermediate state of scans and workers |
| scheduler and recovery | `src/media/scheduler.rs` | none of its own: leases in the tables | poll loops, start-up recovery, recovery of expired leases, release at shutdown | no row and no subscription is stranded |
| relocation | `src/relocation.rs`, `src/db/openlist.rs`, handlers in `src/web.rs` | `media_relocation_jobs` (stage, checkpoint, cursor, manifest, target lock, exported torrent, lease), `openlist_settings` | plan, copy file by file through OpenList, review, hand the torrent over to the target qB, remove the source files; cancel, recheck, abandon, stop all | nothing is asked for twice, written over or removed before it is copied; the torrent is never lost; what ended stays ended |
| RSS matching | `src/db/rss.rs`, `src/rss_download/` | feeds, rules, items, decisions, evaluation lease | scan, store, evaluate, enqueue; pause, resume, edit, backfill, archive | nothing overlooked, nothing downloaded from a pause, the first rule decides |
| RSS downloads | `src/db/rss.rs`, `src/rss_download/service.rs` | `rss_download_jobs`, delivery keys, downloader slots and space | claim, fetch, prepare, submit, look up, retry; cancel, pause, archive, remove | one submission at a time, one job per infohash, no request forgotten |
| scheduled HTTP tasks | `src/scheduled_task.rs`, `src/db/scheduled_task.rs` | `scheduled_tasks`, `scheduled_task_runs`, executors with a permit each | create, edit, pause, delete, trigger, run, record, interrupt, recover | a task never overlaps itself, no outcome is rewritten, every task is released |

The media parts interact through two tables and a lease each: a scan turns a
`pending` target into a `queued` one and inserts a `queued` row in one
transaction; a worker turns the row into `submitted` and moves the cursor in
another; users and recovery write both. The hard behaviours are the interleavings
of these transactions, the network calls between them (qB may answer late, wrongly
or not at all), the expiry of a lease under a slow owner, and a process that
dies between two transactions.

Relocation waits for a torrent of the media pipeline or of a user to be complete and
then works on its own rows, on OpenList (whose copies go on without it) and on one or
two qBs. RSS jobs and relocations want the same torrents in the same downloader:
each asks the other's table inside its transaction. Scheduled tasks share nothing with
the rest.

### Not modelled

| part | state and operations | why not |
|---|---|---|
| redelivery of submitted rows (`db/media.rs:1713-1850`, `media/service.rs:1456-1570`) | a lease on a `submitted` row while its torrent is added to qB again | an extension of MediaOutbox, and so of its four proof modules; its hazards are listed without a property |
| brush and sign-in schedulers (`brush/`, `sign_in/`) | running sets, daily windows, stop flags | in-memory sets under one lock; planned |
| tag rules, site gate and rate limits, candidate cache, WebDAV store | in-memory maps or small tables | one lock each; their rules are about capacity and time |

Left out for good: indexers, signers and rule catalogues (HTTP, HTML and JSON
parsing or generated tables, without shared state), statistics and monitor
collectors (append-only reads), resource search and release ranking (their result
is a nondeterministic choice in the models), the front end and the desktop shell.
`PROJECT.json` lists every part with its sources, and every hazard at its line.

## 2. Modules

    MediaTargets      pure functions on targets and cursor
      MediaCursor     one subscription as atomic operations (the abstract specification)
        MediaSeason   the same with TMDB's word about the season
      MediaOutbox     download rows, workers, recovery, qB
        MediaPipeline scans and the web API on top of the outbox; implements MediaCursor

    RelocationJobs    rows, leases, the loop and the pass of one job
      OpenListCopy    the stages that copy, with OpenList and the target storage
        QbHandover    the stages between two qBs, and the removal of source files
          MediaRelocation people, settings, the whole; implements FileMove
    FileMove          what becomes of the files of a job (an abstract specification)

    RssMatching       feed, items, rules, decisions
    RssJobs           jobs, keys, slots, submissions
    ScheduledTasks    tasks, runs, executors

    MC*               values of the constants for TLC

    MediaTargetsProofs      what the functions of MediaTargets return
    MediaCursorProofs       the inductive invariant and theorems of MediaCursor
    MediaPipelineProofs     the inductive invariant of the pipeline, and what follows from it
      MediaRefinementProofs the pipeline implements MediaCursor; what was delivered, and
                            what may be searched again
    MediaRelocationProofs   every property of MediaRelocation, and that it implements FileMove
    RssMatchingProofs       every property of RssMatching
    RssJobsProofs           every property of RssJobs
    ScheduledTasksProofs    the safety properties of ScheduledTasks

**MediaTargets** translates the functions of `db/media.rs` and `service.rs` that say
which targets a submission covers, where the cursor goes, what a TMDB plan is and
how it is merged into stored targets. `LastEpisode` is the largest episode number a
cursor can hold (`u32::MAX` in the code), behind which there is no frontier. `Done`
is a NULL `next_episode`. A film is `Movie = TRUE`: one target, no cursor column, no
plan.

**MediaCursor** has `state` (a series is completed when `next_episode` is NULL, there
is no column for it), `cursor`, `start`, `target` and `work` (what the outbox
knows about the row of an episode: `none`, `active`, `unresolved`, `failed`,
`submitted`). Its actions are what the code promises to do atomically.

**MediaOutbox** has the columns of `media_downloads` (`status`, `attempts`, `lease`,
`infohash`, `release`), those of the subscription, and per row the program counter
`wpc` of the worker that holds a copy of it. `fresh[d]` says that this copy has the
current version and is the modelled form of the version column: every write that
bumps a version makes the other copies stale. Leases are `none`, `live`
(unexpired), `stale` (expired, still named) and `orphan` (unexpired, left by
a process that died). A process restart is `Crash`. The part of qB that matters is
`qb` (torrents it has), `net` (adds still under way), `landed` (torrents it ever
had) and `unanswered` (rows whose torrent was sent and nobody knows the outcome;
a history variable read by no action's guard).

**MediaPipeline** adds scans (`spc`, `scanKey`, `scanFresh`: program counter, target
loaded, whether its copy is current), the handlers of the web API (`verdict` is the
answer of qB that a handler holds between its question and its write), `Init`,
`Next` and the fairness. Its `WorkOf` maps the rows to `work`, and
`CursorSpec == Cursor!Spec` is the refinement.

**MediaSeason** adds to MediaCursor the last episode TMDB listed and whether TMDB said
that the season is over, with a TMDB that never withdraws an episode.

**RelocationJobs** has one record `job[j]` per row: the stage (an enumeration of the
code's `status` and `stage`), whether the manifest is `planned`, the checkpoint `ck`
(`copy_checkpoint_json`), the `cursor` over the files, the target `lock`, how many OpenList
`tasks` it follows, whether the torrent is `exported`, the lease. `worker` is the pass:
it claims a row (`Claim`), looks at the world and decides what the row becomes
(`Decide`, which keeps it in `worker.next`), sends at most one request, and writes
(`Commit`, only while nobody else wrote: `fresh`). An error ends the pass in `Fail`. `config`
is both what the settings say now and what the tick read.

**OpenListCopy** adds what lies at the target (`target[j][f]`: absent, partial, the same or
something else), the requests (`op`: flying, running, over) and `sent`, how often each was
sent (history). A request that was sent may arrive late or never, its answer may be
lost, and OpenList may write long after the job stopped watching. **QbHandover** adds
the torrent in the source and in the target qB, which may be the same one, and the
removals. **MediaRelocation** adds people, among them those who delete the subscription a job
belongs to; a deleted row is modelled as a cancelled one.

**FileMove** is what all this promises of the files: the content of each is at the
source, at both places or at the target; it is copied, may be replaced at the target by
somebody while the source still has it, and leaves the source only from `both`, if the job
moves its files, the file is no other torrent's and the job is not done; a job is done
only when every file is where it belongs. `MediaRelocation` maps its state to it (`PlaceOf`,
`DoneOf`) and states `MoveSpec`; rows, leases, checkpoints, the cursor, qBs and people
are all invisible there.

**RssMatching** has, of one feed and its rules, what the site shows of each item
(`site`), what is stored (`item`, `decision`, `job`), the scanners (each with the copy of
the feed it fetched) and the one evaluator (`fresh`: nothing it read has changed since).
Of the downloads it has what they do to an item: preparing one asks the site again where
the rule wants free items, and stores the answer (`PrepareSubmission`).
`seen` is a history variable: how an item came to a rule in its present revision.

**RssJobs** has the three tables `db.job`, `db.key` (infohash keys by downloader) and
`db.slot`, the workers with what they hold of a job (`current`: its lease and version
still fit), `qb`, the add requests still on their way whose jobs wait for them (`flying`), those whose
torrent came meanwhile (`arrived`, a history variable), and the torrents relocations have
(`moving`). A torrent that comes any other way, added by a person or another part of the
program or by a request whose job had given it up, is `Appears`. The repairs the code runs at the head of its transactions
(`synchronize_jobs`, the recovery of expired leases) are functions of the tables and
part of each action that runs them.

**ScheduledTasks** has the two tables by row id, the permits' executors with the ids they
remember, and the list of overdue runs that a pass of the loop read and has not treated
yet (`snapshot`). SQLite gives the ids of deleted rows again, and the model does too;
`strayed` (history) says where that made somebody act on a run that is not the one
it meant.

What is abstracted in the media pipeline: time (a poll is due whenever it is enabled, a lease may expire at
any moment), titles and scores (a release is a torrent with the sets of episodes it
may announce, `Offers`), TMDB's answers (any plan its validation accepts), texts,
paths and sizes. `workers` of a scan batch are one, because the scheduler forces its
batch size to 1. Downloads are claimed in batches, and `ClaimDownloads` takes any
set of claimable rows.

In relocation: paths (a file is a number, directories are one level, all jobs copy to one
directory), time limits and error counts (any pass may find one reached, `PlanGivesUp`,
`Fail`), stages only rows of older versions are in. Nobody deletes the torrent from
the target qB between its last file and the completion; somebody else may put a file of
the same name at the target, or replace one there between two passes while the source is still
there and no removal is on its way (`PutForeign`, `Replace`).

In RSS downloads: times (when a job is due, when the observation window of a submission has
passed), what a torrent weighs (each takes one unit of a downloader's `Capacity`), request
ids and the keys by site and item id. A lease does not run out under a worker that is submitting
(300 s against timeouts of 100, 45 and 30 s). The observation window says nothing of the
request: its 30 s count from before a request that may take 45, so a lookup that does
not find the torrent may end the job at once (`CheckAnswered`) and the torrent may land
afterwards (`Appears`). The lookup and the commit of a check are one step. A relocation may
end at any time (`MoveEnds`).

In RSS matching: titles and sites (an item has the one attribute that may be unknown, "free or
not"), when a feed or an evaluation is due, run logs, the cleanup of old items, and rules
that read several feeds (such a rule has one boundary for each). Items of one scan share a
sequence number.

In scheduled tasks: the request itself (`Respond`), cron arithmetic (`Due`).

## 3. Runs

| run | instance | what it asks |
|---|---|---|
| `media_cursor` | 4 episodes; a single episode, an opening pack, a middle pack | types, `QueuedHasWork`, `ActiveIsCurrent`, `SubmittedRowSubmittedTarget`, `CursorOpen` |
| `season` | 2 episodes, a pack, 2 attempts, one scanner | nothing lost, stranded or recorded without delivery: `QueuedTargetRecoverable`, `DeliveredOnly`, `NoStrandedRow`, `FreshScanIsCurrent`, `UnknownSubmissionHolds` |
| `movie` | a film and a manual download of the same torrent, 2 attempts | two rows that compete for one infohash |
| `scans` | 1 episode, the loop and a manual run, 2 attempts, fairness | when two scans hold the lease one after the other: `StaleScanIsHarmless`, that the pipeline implements MediaCursor (`CursorSpec`), and that every row is settled (`RowSettles`) |
| `scheduled_tasks` | 1 task id, 3 run ids, 2 permits, 2 writes, 1 kept run, fairness | types, `RunningHasLatestRun`, `NoOverlap`, `RecordedIsFinal`, `TaskReleased` |
| `relocation` | six job tables: two automatic jobs; one with somebody else's file, with and without hashes; three manual jobs (two files, in the same qB or without hashes; three files, to another qB); two files in a pass | types, `RequestedOnce`, `OneWriter`, `CopyProven`, `NothingLost`, `TorrentKept`, `EndedForGood`, and that relocation implements FileMove (`MoveSpec`) |
| `rss_jobs` | 2 jobs that may turn out to be one torrent, room for one, 2 workers, 1 feed, 1 attempt | types, `SlotKept`, `OneSubmission`, `HashOwned`, `NothingForgotten`, `Fits`, `Apart` |
| `rss_matching` | 1 item, 3 rules on 2 downloaders, 2 scanners, 2 edits | types, `NothingOverlooked`, `PauseIsSilent`, `PriorityKept` |
| `unknown_submission` | 2 episodes, a pack, 1 attempt | violated: see section 5 |
| `season_end` | 4 episodes, a pack of two | violated: see section 5 |
| `suspended` | as `scheduled_tasks`, the computer may sleep | violated: see section 5 |
| `rss_space` | as `rss_jobs` | violated: see section 5 |

Why these bounds are enough to meet the interesting cases. Four episodes leave room
for a pack, a gap, a frontier and the end of the number range at once. In the
pipeline two episodes have a cursor move and a pack that covers the second; one
attempt makes every attempt the last, two give a retry and a `reconciling`
row at the limit. Two rows with one torrent are enough for the unique index. Two
scanners are enough for a lease that changes hands, and more only take turns.
Without symmetry: the only constants of one kind are the scanners, and one of
them is the loop.

Relocation: one file is enough for each single check; two show a file that belongs to
another torrent as well. Of three, two in a pass, the cursor stands between files copied and
one to do, the last pass is shorter than the first, and the removal goes on behind the
shared second file. Two jobs only meet over the target directory, so they are automatic
(both kinds take the same lock in the same action). Each job table is a start of its own,
because jobs of different kinds do not interact otherwise.

RSS jobs: two jobs compete for a slot, a unit of space and an infohash at once; one of
them may find another torrent at its URL later (`HashesOf`). Two workers give a
lease that goes on to another. With one attempt (`MaxAttempts`) every failure is the last, and a
person's `Retry`, which counts anew, is the second submission; `retry_wait` is not
reached then, and differs from `queued` only in the time at which the job is due. Of the two
torrents the one both jobs may want is relocated (`SharedMoves`, a state constraint, which cuts
behaviours off). The workers are symmetric. One feed is enough, since a job only asks whether all its sources are on. One
downloader, since keys, slots and space are each downloader's own; the proof covers any
number.

RSS matching: one item meets every rule, and items meet each other only through
sequence numbers and the quota; with a quota of one a cycle is at its limit after one
job. Rules 2 and 3 compete on one downloader, 2 wants free items and so has to wait for an
attribute, 1 is alone on the other. `MaxEdits` bounds what people do: pause and
resume, or an edit on each side of a scan; it too cuts behaviours off.

Scheduled tasks: a second task id has no row in common with the first but the permits and
run ids, and one id that is deleted and used again is the case that matters. Three runs
give a kept, a trimmed and a running one.

Deadlock is checked except in `relocation` and `rss_matching`: relocation stops when
every job has ended, matching when the feed is archived. The pipeline, RSS jobs and
scheduled tasks never stop, for a user may always act.

Fairness (`FairSpec`, only for `RowSettles` and `TaskReleased`). In the pipeline, a worker and a scan in progress
go on, since every call has a timeout. A lease that is not renewed expires
(its holder renews while it works; a worker that hangs is bounded by those
timeouts). Start-up recovery runs. The download loop and the recovery loop poll on
timers of their own (`media/scheduler.rs:190-278`), independent of how often a
row becomes due and stops being due; hence strong fairness for claiming a row
and for recovering its expired lease. Nothing is assumed of users, qB, TMDB, new
scans or crashes. In ScheduledTasks: a request ends or times out, an executor makes its
writes (which may fail), the clock passes a run's deadline, the loop ticks every second
and treats what it listed. That a run whose executor never started or could not store
its result is ended by the loop or by the next start is then `TaskReleased`.

`RowSettles` is checked for one row, with the scheduler's scan and one by hand: it is settled
if in the end the process stops crashing or people stop scanning by hand. Without either,
TLC shows a process that crashes for ever, each time while a scan by hand holds the
subscription. With a second row, TLC shows one that is due only while the batch of the other,
which a person requeues again and again, is under way or a scan holds the
subscription. Nothing in the code rules these schedules out but its timers, which
the model leaves out, and people who give up.

## 4. Proofs

In all, 40 properties are checked by passing runs; all but those named at the end of
this section are theorems too. On the media pipeline everything below is proved for any `LastEpisode`, any set of torrents with any
coverage, any set of manual rows, any number of attempts and of scanners, films and
series alike. The assumptions are the named ones of `MediaTargets` (`LastEpisode` is a
positive number, an offer is a set of episodes, a film has one episode) and of
`MediaOutbox` (at least one attempt, the loop is a scanner, "no torrent" and "no owner"
are nothing else, manual rows are torrents and no torrent is an episode). TLC
evaluates them in every run.

| module | theorem | statement |
|---|---|---|
| `MediaCursorProofs` | `SpecTypeOK` | `Spec => []TypeOK` of MediaCursor |
| | `SpecQueuedHasWork` | a target is queued exactly while its row is unfinished |
| | `SpecActiveIsCurrent` | an active row belongs to the cursor's target |
| | `SpecSubmittedRowSubmittedTarget` | a submitted row keeps its target submitted |
| | `SpecCursorOpen` | the cursor of an active subscription names a target a scan can go on with |
| `MediaPipelineProofs` | `SpecTypeOK` | `Spec => []TypeOK` of the pipeline |
| | `SpecNoStrandedRow` | rows in work have a lease, and no others |
| | `SpecFreshScanIsCurrent` | a scan with a current copy works on the cursor's target |
| | `SpecStaleScanIsHarmless` | a scan that lost its lease changes nothing the holder relies on |
| `MediaRefinementProofs` | `SpecImplementsCursor` | `Spec => CursorSpec`: the pipeline implements MediaCursor |
| | `SpecDeliveredOnly` | a row is submitted only if qB had its torrent |
| | `SpecQueuedTargetRecoverable` | a queued target is worked on or can be settled by the user |
| | `SpecUnknownSubmissionHolds` | no target of a row marked submitting is reopened without an answer |
| `MediaRelocationProofs` | `SpecNothingLost` | no file leaves the source before its content is at the target |
| | `SpecCopyProven` | a completed automatic job left every content at the target |
| | `SpecTorrentKept` | the torrent is in a qB or in the row |
| | `SpecEndedForGood` | no overtaken pass brings an ended job back |
| | `SpecTypeOK` | `Spec => []TypeOK` of MediaRelocation |
| | `SpecRequestedOnce` | no copy, directory or removal is requested twice |
| | `SpecOneWriter` | OpenList writes for one job at a time into a directory |
| | `SpecMoveSpec` | `Spec => MoveSpec`: relocation implements FileMove |
| `RssMatchingProofs` | `SpecTypeOK` | `Spec => []TypeOK` of RssMatching, the quota included |
| | `SpecNothingOverlooked` | what a rule watched from the start is to be decided, rejected or taken |
| | `SpecPauseIsSilent` | what nobody was watching for is not downloaded |
| | `SpecPriorityKept` | the rule of highest priority decides, by what the item is when it is taken |
| `RssJobsProofs` | `SpecTypeOK` | `Spec => []TypeOK` of RssJobs |
| | `SpecSlotKept` | a downloader's slot is with the job that is in work on it, and no other |
| | `SpecOneSubmission` | one submission at a time on a downloader |
| | `SpecHashOwned` | a submission that is not over owns its infohash |
| | `SpecNothingForgotten` | until the downloader has answered, a request's job keeps its space and infohash; what came by then ends as submitted |
| | `SpecFits` | what jobs wait for, and what came for them while they did, has room together |
| | `SpecApart` | no submission of what a relocation has |
| `ScheduledTasksProofs` | `SpecTypeOK` | `Spec => []TypeOK` of ScheduledTasks |
| | `SpecRunningHasLatestRun` | the running flag and the run records agree |
| | `SpecNoOverlap` | no task overlaps itself, as long as the clocks agree |
| | `SpecRecordedIsFinal` | a recorded outcome is final |

So every safety property that a passing run checks on the cursor and on the pipeline
is also a theorem, and by the refinement the invariants of MediaCursor are invariants
of the pipeline.

**MediaCursor.** `CursorOpen` is not inductive: when a row is submitted and nothing
is open behind it, the cursor goes to the first uncovered episode, whatever
its status. `Frontier` says why that is not a submitted one: behind every submitted
target there is one that is still to do or was skipped, unless the numbers
are used up. Each action then needs one fact about a function of `MediaTargets`, which
`MediaTargetsProofs` states: `CoveredBelow` (covered episodes lie in front of every
uncovered one), `SubmitShape` (targets and cursor after a submission), `PlanShape`
and `CreateShape` (what a TMDB plan contains), `SyncShape`, `PlaceShape`. The rest of
`IInv` is `CursorNamed`, `AbsentEmpty` and `MovieOpen`, which the guards of the code
rely on.

**The pipeline.** Its invariant `IInv` has one part per group of variables (`RowInv`,
`SubInv`, `WorkInv`, `QbInv`, `VerdictInv`, `TorrentInv`), and a step is checked only
against the parts it can disturb. Two parts say more than types and the properties.
`VerdictHeld`: a request that waits with qB's answer still finds its row in the
status it asked about. `TorrentInv`: from `submitting` on a row holds the infohash of
its release, and the worker's torrent is its row's as long as its copy is current or
the row is being submitted or reconciled. The latter is what makes it safe that
`SendTorrent` reads the row again whatever became of it. `StaleScanIsHarmless`
follows because the lease names its owner: of two scans only one can be fenced, and
the other can only look at its target, fail, or die.

**The refinement.** Each action maps to an operation of MediaCursor or to a stutter.
The interesting direction is the one MediaCursor's guards need: `Coupled` reads its
invariants, of the mapped state, as facts about the rows (an active row belongs to
the current target of an active subscription), and only with them is, for instance,
the reopening by recovery (which looks at no cursor) the operation `Reopen`. Therefore
the two invariants are carried together: `AlwaysCursorIInv`.

**Delivery.** `DeliveryInv` says what each actor knows of qB: a failed row with a queued
target holds its release's infohash (`UnresolvedHeld`), a request's verdict is about the
row's release and nothing was sent since (`RequestHeld`), a worker that was told
"absent" has not sent since (`WorkerHeld`). `NextQueuedBefore` uses the refinement:
only `GiveUp` makes work unresolved, so a failed row never gets a queued target in
the same step. The action property then needs one lemma per group of
actions that could reopen a target: scans, edits and settling never do, recovery does
for rows in `fetching`, a worker for those or after a denial.

**Relocation**, for any number of jobs and files, any job table (`SetupsAssumption`) and
any size of a batch. The invariant is `Inv == Shape /\ FreshInv /\ RemovalInv /\ CopyInv /\
DataInv`. `Shape` is the type correctness the proof needs (with natural numbers where
`TypeOK` has bounds). `RemovalInv` is behind `NothingLost`: a removal that may have
been asked for is of a file whose content is at the target and that no other torrent
uses, in the row, in the pass's hands and on the wire (`AskedForOwn`, `Placed`). `CopyInv`
says it of the completion a pass has decided on and not yet written. `DataInv` says where
the torrent is while the delete and the add of a migration are under way: from the export
on the row has it, and a pass that is about to write has it too. `FreshInv` (a pass that
was not overtaken works on a job that has not ended) gives `EndedForGood`. The many actions are
first reduced to kinds of steps (what they may do to rows, pass and world), and the
invariant is shown for each kind.

**Relocation's requests.** That nothing is requested twice is not inductive, and the
counters of `RequestedOnce` say nothing about why. `RequestInv` does, for every row and for
the row a pass is about to write (`RowOK`): what was sent has landed at the target, or is
what the row's checkpoint is about (`SentFits`); what was asked to be removed is gone, or is
what the checkpoint is about, and no other torrent uses it (`AskedFits`). A pass sends only
what it has seen to be absent and what no checkpoint says may be out, so that it was not
sent (`SendableUnsent`), and the checkpoint is written first: `SendingOK` says that
the row still tells, whoever answers, stops or crashes before the request goes out. Nothing
a person or OpenList does makes what has landed disappear (`OutsideKept`), which is where
the proof needs that a directory is only taken away while it is empty and was not
requested. For `OneWriter` the row also has to say that its lock is held as long as its
checkpoint is a copy that may be out (`LockFits`), in every stage that keeps such a
checkpoint and also while a person is asked; `OneLock` is the rest. The one answer
that gives the lock free in that state is `Cancel`: the task number in the row is that of
the checkpoint's file (`LockFits`), so the task that `TaskOver` looked at is the
only one that could still write (`TaskOverNotWriting`). Stopped and deleted jobs
give the lock free without looking, and are excepted (section 5). `FreshOK` (a pass
that was not overtaken works on no row that asks a person) is needed because a failing pass
may move the row to a review stage.

**Relocation implements FileMove.** A step is one of FileMove's only when a file's
place or the set of completed jobs changes (`MoveStep`). What OpenList and other people do
changes one file (`OneFileMoves`), and by `Placed` the source loses it only from `both`. The
completion is the hard step: the row says `completed` long after the files were looked
at. `SweptInv` carries it there: in the stages that remove, own files in front of the
row's cursor are gone from the source (in the row and in what a pass is about to write),
and a row that is past them has its cursor at the end. It needs that the cursor starts
anew when the torrent seeds (`RemovingSwept`), that people and the loop's bookkeeping keep
the cursor of such a row or leave these stages (`RowKept`), and that nothing is put back to
the source (`SourceShrinks`). It also excludes that a removal still on its way takes a
file after the completion: a file of the job's own is gone by then.

**RSS matching**, for any finite set of rules, any items, filters, downloaders and scanners.
`IInv` has the types; who holds the feed (`LeaseInv`, `EvaluationInv`); where items and
boundaries are numbered (`SequenceInv`, `BoundaryInv`); what "not modified" proves
(`UnchangedInv`); and the three parts the properties follow from. `MissedInv` is what a
silent pause rests on: an item published while nobody was watching, and not stored yet, is
in every scan that may still be committed (or gone) when the next commit is a baseline, and in none
when it is not, so it is stored behind the boundaries or never. `SeenInv` says that a rule
has decided, or will decide, only about items it saw. `WatchInv` is the other direction: of
an item it saw from the start, a rule that is on still has an open decision, or a job is
there, or its skipping is right for the attributes the item has now, which every write of
attributes has to restore by reopening decisions. The quota of a cycle is a matter of
cardinalities (`QuotaBound`): of the matching rules in order of priority, those with fewer
than the free places before them are not more than the free places. It needs the rules of a
feed to be finitely many, which the assumption `Parameters` says.

**RSS downloads**, for any finite set of jobs and any downloaders, capacities, workers,
sources and attempts. The properties are not inductive one by one, because a job, its
key, its slot, its worker and its request are written in different steps. `Inv` has one part
per pair that must agree: `TableOK` (a row against its slot and its key), `WorkOK` and
`LeaseOK` (a worker's copy against its row), `RoomOK` (reserved space against what is sent),
`FlyOK` (a request against its row, until the downloader has answered), `ApartOK` (a relocation against rows); `IInv` adds the
types and `FullOK`. Most steps only loosen what these parts tie together (a lease that
ends, a job that ends, a copy that goes stale): the lemmas on loosening treat them
together, also the repairs at the head of the code's transactions. By hand: claim, fetch,
prepare, send, the arrival of a request, the removal of a torrent, the start of a relocation.
The observation window is not assumed to outlast the request: what is proved of a request
ends with the downloader's answer, and what still may happen then is the divergence
`rss_space` of section 5. `Fits` needs the cardinalities of the library's finite-set theorems.

**Scheduled tasks**, for any number of tasks, runs, permits and writes.
`RunningHasLatestRun` is inductive with `RowInv` (run records and flags belong to stored
tasks). `NoOverlap` needs `OwnInv` (an executor finds its own run under the id it remembers,
and nobody else has it) and `SendInv` (whoever sends a request owns a running run that is not
overdue); it holds when the clocks agree (`Suspends = FALSE`), which is the part of the
README's claim that the finding of section 5 leaves.

Only model-checked: the liveness properties `RowSettles` and `TaskReleased` (liveness
under fairness is out of the prover's reach) and the four violations of section 5. The
history variables `sent` and `removals` stop counting at two in the model; the proofs show
that they never get there.

## 5. Where the code and its documentation disagree

*An unknown submission is searched again* (`unknown_submission`). Another row
submitted the same torrent and it has left qB.
`process_download_attempt` adds it again while the row stays in `fetching`
(`media/service.rs:1842-1865`). When qB does not answer, the error path sees
`fetching`, takes the torrent for never sent, and on the last attempt reopens the
target, although qB may have taken the torrent. `doc/auto-media-design.md:510` and `:539`
keep an unknown submission in `reconciling`. `UnknownSubmissionHolds`, checked in
`season`, is the part that does hold: once a row was marked `submitting`, its target is
not reopened without an answer.

*A running season is completed* (`season_end`). A pack covers episodes TMDB does
not list yet. The cursor goes behind them, and the next plan does not contain
that frontier, so the merge marks it `skipped`. That scan fails with "a
non-terminal season has a skipped current target", but the merge was stored; the next
scan takes the stored `skipped` for TMDB's evidence that the season ended and
completes the subscription (`media/service.rs:1061-1064`, `:1114-1117`;
`db/media.rs:1326-1337`; `doc/auto-media-design.md:258-260`).

*A task overlaps itself after the computer slept* (`suspended`). Whether a run is overdue
is read off the wall clock (`scheduled_task.rs:178-196`), while the request's own timeout is
a tokio timer, which stands still during sleep (`:227-243`). After a sleep of a minute the
run is ended as interrupted while its request still executes, and the next trigger starts
the task a second time. `README.md:259` says that a task never overlaps itself.

*The space of an unknown submission is set free* (`rss_space`). An add request may take 45 s;
the window in which "not there" proves nothing is 30 s (`rss_download/config.rs:35-36`) and
counts from before the request (`rss_download/service.rs:549-577`). After a request that
timed out the first lookup is past it: not finding the torrent ends the job as failed or due for
another attempt and releases its space and its infohash, while qB may still be taking the
torrent in. `doc/rss-downloader-design.md:374` and `:425` keep the space until the
submission is known to be complete or not to have been made, so that the same room is not given away
twice. `NothingForgotten` and `Fits`, checked in `rss_jobs`, are the part that does hold:
nothing is given away before the downloader has been heard.

Met while modelling, and not runs of their own:

- A feed that is paused and resumed puts every rule's boundary behind the stored items
  (`db/rss.rs:694`), so a rule of higher priority does not look again at a rejected item that
  changes, while the open decision of a lower rule goes on. The comment at `db/rss.rs:795`
  and `doc/rss-downloader-design.md:179` promise the priority without that exception;
  `PriorityKept` and `NothingOverlooked` speak of rules that watched without a pause.
- Resuming a rule by saving it (`db/rss.rs:561`) does not skip its old open
  decisions, as its switch does (`:3376`).
- A copy whose request was checkpointed and never answered has no task id and cannot be
  cancelled (`web.rs:889`); it keeps the lock on its directory until the file appears.
- The stop of all automatic jobs, the deletion of a subscription and the re-queueing of a
  manual download give target locks free while OpenList may still copy (`db/openlist.rs:518`,
  `db/media.rs:738`, `:1462`); `OneWriter` leaves such jobs out.
- The space of a submitted torrent that is removed before any sample of the downloader saw it
  stays reserved (`db/rss.rs:918`).

## 6. Plan

Done, in this order: the media pipeline with its refinement and proofs; ScheduledTasks;
relocation; RSS jobs and matching; proofs of every safety property that a passing run
checks. Left, by weight:

1. Redelivery leases on submitted rows against relocation, deletion and the re-queueing of
   missing manual rows, as actions of MediaOutbox, with the proofs that follow.
2. An abstract specification of the RSS jobs (a submission happens at most once), with the
   refinement.
3. Liveness of RSS jobs (a job that is due is settled or waits for a person) under the
   fairness of the scheduler's polls.
4. Smaller modules: the brush and sign-in running sets, the site gate, the candidate cache.
