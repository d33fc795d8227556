------------------------------ MODULE RssJobs ------------------------------
(***************************************************************************)
(* The download jobs of the RSS subscriptions.  Workers claim jobs by      *)
(* lease, one job at a time on each downloader, fetch the torrent, write   *)
(* down what they are about to submit, submit it, and find out later what  *)
(* became of a submission nobody answered.  People pause and archive feeds *)
(* and rules, cancel and retry jobs and remove torrents; relocations want  *)
(* the same torrents; the process stops or crashes at any moment.          *)
(***************************************************************************)
EXTENDS Naturals, FiniteSets

CONSTANTS
  Jobs,            \* one for each item and downloader: the queue has no second
  Downloaders,
  Hashes,          \* infohashes
  Workers,         \* as many as download_concurrency
  Sources,         \* feeds and rules
  DownloaderOf,    \* of a job
  FeedOf,          \* of a job: one of its sources
  SourcesOf,       \* of a job: its feed and its rule
  HashesOf,        \* what the job's URL may lead to: more than one when the site replaces the torrent
  Capacity,        \* of a downloader, in torrents: each takes the same space
  MaxAttempts,     \* max_attempts
  NoHash,
  NoJob

ASSUME Parameters ==
  /\ DownloaderOf \in [Jobs -> Downloaders]
  /\ SourcesOf \in [Jobs -> SUBSET Sources]
  /\ FeedOf \in [Jobs -> Sources]
  /\ \A j \in Jobs : FeedOf[j] \in SourcesOf[j]
  /\ HashesOf \in [Jobs -> SUBSET Hashes]
  /\ Capacity \in [Downloaders -> Nat]
  /\ MaxAttempts \in Nat \ {0}
  /\ IsFiniteSet(Jobs)
  /\ NoHash \notin Hashes
  /\ NoJob \notin Jobs
  /\ Workers \cap {"none", "left", "dead", "expired"} = {}

VARIABLES
  db,        \* rows, infohash keys and slots
  source,    \* each feed and rule
  worker,
  moving,    \* torrents with an active relocation, by downloader
  qb,        \* torrents in the downloader
  flying,    \* add requests that have not arrived yet, of jobs that wait for them
  arrived    \* history: those whose torrent came while their job waited, and is there

vars == <<db, source, worker, moving, qb, flying, arrived>>

Unclaimed == {"queued", "waiting", "retry_wait"}

Uncertain == {"submitting", "reconciling"}

Active == Uncertain \cup {"fetching"}

Success == {"submitted", "already_present"}

Final == Success \cup {"failed", "cancelled"}

(* none: not in the queue yet.  deleted: cleaned up.                       *)
Statuses == Unclaimed \cup Active \cup Final \cup {"none", "held", "deleted"}

(* left: of a worker of this process that gave up; dead: of a process that *)
(* is no more; expired: of anybody.                                        *)
Leases == Workers \cup {"none", "left", "dead", "expired"}

Rows == [status : Statuses, lease : Leases, hash : Hashes \cup {NoHash},
         reserved : BOOLEAN, attempts : 0..MaxAttempts]

(* busy: of a submission that is not over; free: it was not made; done: it *)
(* succeeded.                                                              *)
Keys == [job : Jobs \cup {NoJob}, outcome : {"none", "busy", "free", "done"}]

NewRow ==
  [status |-> "none", lease |-> "none", hash |-> NoHash, reserved |-> FALSE, attempts |-> 0]

DeletedRow == [NewRow EXCEPT !.status = "deleted"]

NoKey == [job |-> NoJob, outcome |-> "none"]

Phases == {"idle", "fetch", "there", "ready", "sending", "sent", "check"}

(* current: the feed has not been edited since the claim, of a job that is *)
(* fetched.                                                                *)
Idle == [phase |-> "idle", job |-> NoJob, hash |-> NoHash, current |-> FALSE]

Requests == [job : Jobs, hash : Hashes]

Sent(w) == [job |-> worker[w].job, hash |-> worker[w].hash]

-----------------------------------------------------------------------------
(* What the transactions are made of, as functions on the tables.          *)

On(j) == \A s \in SourcesOf[j] : source[s] = "on"

Archived(srcs, j) == \E s \in SourcesOf[j] : srcs[s] = "archived"

AllOn(srcs, j) == \A s \in SourcesOf[j] : srcs[s] = "on"

Freed(t, statuses) ==
  [t EXCEPT !.key = [d \in Downloaders |-> [h \in Hashes |->
     IF t.key[d][h].job \in {j \in Jobs : t.job[j].status \in statuses} /\ t.key[d][h].outcome # "done"
       THEN [t.key[d][h] EXCEPT !.outcome = "free"] ELSE t.key[d][h]]]]

(* Mutant: a job that is paused keeps its slot.                            *)
SlotsFreedNever(t) == t

SlotsFreed(t) ==
  [t EXCEPT !.slot = [d \in Downloaders |->
     IF t.slot[d] # NoJob /\ t.job[t.slot[d]].status \in Active THEN t.slot[d] ELSE NoJob]]

Unleased(row, status) == [row EXCEPT !.status = status, !.lease = "none"]

Dropped(row, status) == [Unleased(row, status) EXCEPT !.reserved = FALSE]

(* Mutant: whoever holds the lease is taken to be gone.                    *)
RecoveredRowEarly(row) ==
  IF row.lease # "none" /\ row.status \in Uncertain THEN Unleased(row, "reconciling")
  ELSE IF row.lease \in {"expired", "none"} /\ row.status = "fetching" THEN Dropped(row, "queued")
  ELSE row

(* Mutant: whatever was under way is fetched again.                        *)
RecoveredRowAnew(row) ==
  IF row.lease \in {"expired", "none"} /\ row.status \in {"submitting", "fetching"} THEN Dropped(row, "queued")
  ELSE IF row.lease = "expired" /\ row.status = "reconciling" THEN Unleased(row, "reconciling")
  ELSE row

(* recover_expired: what may have been sent is looked for, never fetched   *)
(* again.                                                                  *)
RecoveredRow(row) ==
  IF row.lease = "expired" /\ row.status \in Uncertain THEN Unleased(row, "reconciling")
  ELSE IF row.lease \in {"expired", "none"} /\ row.status = "fetching" THEN Dropped(row, "queued")
  ELSE row

Recovered(t) == Freed(SlotsFreed([t EXCEPT !.job = [j \in Jobs |-> RecoveredRow(t.job[j])]]), {"queued"})

(* synchronize_jobs.                                                       *)
SynchronizedRow(srcs, j, row) ==
  IF Archived(srcs, j) /\ row.status \in Unclaimed \cup {"fetching", "held", "failed"}
    THEN Dropped(row, "cancelled")
  ELSE IF ~AllOn(srcs, j) /\ row.status \in Unclaimed \cup {"fetching"} THEN Dropped(row, "held")
  ELSE IF AllOn(srcs, j) /\ row.status = "held" THEN [row EXCEPT !.status = "queued"]
  ELSE row

Synchronized(srcs, t) ==
  SlotsFreed(Freed([t EXCEPT !.job = [j \in Jobs |-> SynchronizedRow(srcs, j, t.job[j])]],
                   {"held", "cancelled"}))

(* Mutant: an attempt is counted when it is made and when it fails.        *)
AttemptsTwice(row, status) ==
  IF status \in {"retry_wait", "failed"} THEN row.attempts + 1 ELSE row.attempts

(* finish_job_state.  A job that fails while it is fetched has used up an  *)
(* attempt; its last one fails it.                                         *)
Attempts(row, status) ==
  IF status \in {"retry_wait", "failed"} /\ row.status = "fetching" THEN row.attempts + 1 ELSE row.attempts

FinishedRow(row, status, release) ==
  [row EXCEPT !.status = IF status = "retry_wait" /\ Attempts(row, status) >= MaxAttempts THEN "failed" ELSE status,
              !.lease = "none",
              !.attempts = Attempts(row, status),
              !.reserved = @ /\ ~(release /\ status \notin Uncertain)]

(* Mutant: what is not confirmed is not the job's any more.                *)
FinishedKeyFree(key, j, status, release) ==
  IF key.job # j \/ key.outcome \in {"none", "done"} THEN key
  ELSE [key EXCEPT !.outcome = IF status \in Success THEN "done" ELSE "free"]

FinishedKey(key, j, status, release) ==
  IF key.job # j \/ key.outcome \in {"none", "done"} THEN key
  ELSE [key EXCEPT !.outcome = IF status \in Success THEN "done"
                               ELSE IF release /\ status \notin Uncertain THEN "free"
                               ELSE "busy"]

Finished(t, j, status, release) ==
  [job  |-> [t.job EXCEPT ![j] = FinishedRow(@, status, release)],
   key  |-> [d \in Downloaders |-> [h \in Hashes |-> FinishedKey(t.key[d][h], j, status, release)]],
   slot |-> [d \in Downloaders |-> IF t.slot[d] = j /\ status \notin Uncertain THEN NoJob ELSE t.slot[d]]]

(* release_observed_reservations: the downloader lists it, its space shows.*)
Observed(t, d) ==
  [t EXCEPT !.job = [j \in Jobs |->
     IF DownloaderOf[j] = d /\ t.job[j].status = "submitted" /\ t.job[j].hash \in qb[d]
       THEN [t.job[j] EXCEPT !.reserved = FALSE] ELSE t.job[j]]]

(* relocation_conflict: an unknown hash may be any.                        *)
Conflict(d, hash) == IF hash = NoHash THEN moving[d] # {} ELSE hash \in moving[d]

-----------------------------------------------------------------------------
(* A worker and its claim.                                                 *)

(* validate_job_claim.                                                     *)
Holds(w, status) == LET row == db.job[worker[w].job] IN row.lease = w /\ row.status = status

Gone(w) == worker' = [worker EXCEPT ![w] = Idle]

(* The lease of a worker that gives up without a word runs out by itself.  *)
Left(t, w) ==
  [t EXCEPT !.job = [j \in Jobs |->
     IF t.job[j].lease = w THEN [t.job[j] EXCEPT !.lease = "left"] ELSE t.job[j]]]

GivesUp(w) ==
  /\ db' = Left(db, w)
  /\ Gone(w)

(* The transition a worker ends with, if it still holds the job.           *)
Transition(w, from, status, release) ==
  /\ db' = IF Holds(w, from) THEN Finished(db, worker[w].job, status, release) ELSE Left(db, w)
  /\ Gone(w)

OutsideUnchanged == UNCHANGED <<source, moving, qb, flying, arrived>>

(* rss_claim_job: recovery and the states of feeds and rules first.  The   *)
(* time at which a job is due is left out.                                 *)
Tables == Synchronized(source, Recovered(db))

Claimable(t, j) ==
  LET row == t.job[j]
      d == DownloaderOf[j]
  IN  /\ row.status \in Unclaimed \cup {"reconciling"}
      /\ row.lease = "none"
      /\ t.slot[d] \in {NoJob, j}
      /\ row.status = "reconciling" \/ ~Conflict(d, row.hash)

ClaimedRow(row, w) ==
  [row EXCEPT !.status = IF @ = "reconciling" THEN @ ELSE "fetching", !.lease = w]

Claim(w, j) ==
  LET t == Tables
  IN  /\ worker[w] = Idle
      /\ Claimable(t, j)
      /\ db' = [t EXCEPT !.job[j] = ClaimedRow(@, w), !.slot[DownloaderOf[j]] = j]
      /\ worker' = [worker EXCEPT ![w] =
           IF t.job[j].status = "reconciling"
             THEN [phase |-> "check", job |-> j, hash |-> t.job[j].hash, current |-> FALSE]
             ELSE [phase |-> "fetch", job |-> j, hash |-> NoHash, current |-> TRUE]]
      /\ OutsideUnchanged

-----------------------------------------------------------------------------
(* process_job of a job that is fetched.                                   *)

Reserved(t, d, j) == {k \in Jobs \ {j} : DownloaderOf[k] = d /\ t.job[k].reserved}

(* Mutant: the last free piece counts twice.                               *)
SpaceAvailableOffByOne(t, d, j) ==
  Cardinality(qb[d]) + Cardinality(Reserved(t, d, j)) <= Capacity[d]

(* The free space the downloader reports, without what other jobs hold.    *)
SpaceAvailable(t, d, j) ==
  Cardinality(qb[d]) + Cardinality(Reserved(t, d, j)) < Capacity[d]

(* prepare_download, up to where it says what to do with the torrent.      *)
Fetch(w) ==
  LET j == worker[w].job
      d == DownloaderOf[j]
  IN  /\ worker[w].phase = "fetch"
      /\ \E hash \in HashesOf[j] :
           \/ /\ hash \in qb[d]
              /\ worker' = [worker EXCEPT ![w] = [@ EXCEPT !.phase = "there", !.hash = hash, !.current = FALSE]]
              /\ UNCHANGED db
           \/ /\ hash \notin qb[d]
              /\ SpaceAvailable(Observed(db, d), d, j)
              /\ worker' = [worker EXCEPT ![w] = [@ EXCEPT !.phase = "ready", !.hash = hash]]
              /\ db' = Observed(db, d)
      /\ OutsideUnchanged

NoSpace(w) ==
  LET j == worker[w].job
      d == DownloaderOf[j]
      seen == Observed(db, d)
  IN  /\ worker[w].phase = "fetch"
      /\ HashesOf[j] \ qb[d] # {}
      /\ ~SpaceAvailable(seen, d, j)
      /\ db' = IF Holds(w, "fetching") THEN Finished(seen, j, "waiting", FALSE) ELSE Left(seen, w)
      /\ Gone(w)
      /\ OutsideUnchanged

(* fail_job: the site wants us to wait; it or the downloader cannot be     *)
(* reached; anything else.                                                 *)
FetchFails(w) ==
  /\ worker[w].phase = "fetch"
  /\ \E status \in {"waiting", "failed",
                     IF db.job[worker[w].job].attempts + 1 < MaxAttempts THEN "retry_wait" ELSE "failed"} :
       Transition(w, "fetching", status, TRUE)
  /\ OutsideUnchanged

(* A conflict on the way, or a renewal that finds the lease gone.          *)
FetchConflicts(w) ==
  /\ worker[w].phase = "fetch"
  /\ GivesUp(w)
  /\ OutsideUnchanged

KeyedAs(key, j, outcome) ==
  [job |-> IF key = NoKey THEN j ELSE key.job, outcome |-> outcome]

(* rss_transition_job to already_present, which confirms the key whoever   *)
(* owns it.                                                                *)
AlreadyPresent(w) ==
  LET j == worker[w].job
      d == DownloaderOf[j]
      hash == worker[w].hash
      kept == [db EXCEPT !.job[j].hash = hash, !.key[d][hash] = KeyedAs(@, j, "done")]
  IN  /\ worker[w].phase = "there"
      /\ db' = IF Holds(w, "fetching") THEN Finished(kept, j, "already_present", TRUE) ELSE Left(db, w)
      /\ Gone(w)
      /\ OutsideUnchanged

-----------------------------------------------------------------------------
(* rss_prepare_submission: the last look at everything that may speak      *)
(* against it, and the note that it is made, in one transaction.           *)

HeldElsewhere(key, j) == key.job # j /\ key.outcome = "busy"

DoneElsewhere(key, j) == key.job # j /\ key.outcome = "done"

SubmittingRow(row, hash) ==
  [row EXCEPT !.status = "submitting", !.hash = hash, !.reserved = TRUE, !.attempts = @ + 1]

(* The key is written only where it is the job's own, or nobody's.         *)
TakenKey(key, j) ==
  IF key.job = j \/ key.outcome \in {"none", "free"} THEN [job |-> j, outcome |-> "busy"] ELSE key

Submitting(t, j, hash) ==
  [t EXCEPT !.job[j] = SubmittingRow(@, hash), !.key[DownloaderOf[j]][hash] = TakenKey(@, j)]

Valid(w) ==
  /\ worker[w].phase = "ready"
  /\ Holds(w, "fetching")
  /\ db.slot[DownloaderOf[worker[w].job]] = worker[w].job

Changed(j, hash) == db.job[j].hash \notin {NoHash, hash}

(* A retry of another torrent than the one that was submitted; a feed or   *)
(* rule that is off.                                                       *)
Refused(w) ==
  LET j == worker[w].job
      hash == worker[w].hash
  IN  /\ Valid(w)
      /\ Changed(j, hash) \/ ~On(j)
      /\ db' = IF Changed(j, hash) THEN Finished(db, j, "failed", TRUE) ELSE Synchronized(source, db)
      /\ Gone(w)
      /\ OutsideUnchanged

Proceeds(w) == Valid(w) /\ ~Changed(worker[w].job, worker[w].hash) /\ On(worker[w].job)

(* The feed, or the item, was changed meanwhile; or the claim is lost.     *)
PrepareConflicts(w) ==
  /\ worker[w].phase = "ready"
  /\ Valid(w) => Proceeds(w)
  /\ GivesUp(w)
  /\ OutsideUnchanged

Passes(w) ==
  Proceeds(w) /\ worker[w].current /\ worker[w].hash \notin moving[DownloaderOf[worker[w].job]]

(* A relocation has the torrent; the item no longer matches; another job   *)
(* submits the same torrent.                                               *)
PrepareWaits(w) ==
  /\ Proceeds(w) /\ worker[w].current
  /\ db' = Finished(db, worker[w].job, "waiting", TRUE)
  /\ Gone(w)
  /\ OutsideUnchanged

PrepareFindsDelivered(w) ==
  LET j == worker[w].job
      hash == worker[w].hash
  IN  /\ Passes(w)
      /\ DoneElsewhere(db.key[DownloaderOf[j]][hash], j)
      /\ db' = Finished([db EXCEPT !.job[j].hash = hash], j, "already_present", TRUE)
      /\ Gone(w)
      /\ OutsideUnchanged

Prepare(w) ==
  LET j == worker[w].job
      key == db.key[DownloaderOf[j]][worker[w].hash]
  IN  /\ Passes(w)
      /\ ~HeldElsewhere(key, j) /\ ~DoneElsewhere(key, j)
      /\ db' = Submitting(db, j, worker[w].hash)
      /\ worker' = [worker EXCEPT ![w].phase = "sending", ![w].current = FALSE]
      /\ OutsideUnchanged

-----------------------------------------------------------------------------
(* The submission, and what became of it.                                  *)

Send(w) ==
  /\ worker[w].phase = "sending"
  /\ flying' = flying \cup {Sent(w)}
  /\ worker' = [worker EXCEPT ![w].phase = "sent"]
  /\ UNCHANGED <<db, source, moving, qb, arrived>>

Present(w) == worker[w].hash \in qb[DownloaderOf[worker[w].job]]

(* The downloader has answered, and the job waits no longer: what is still *)
(* to come of its request comes as if others had sent it.                  *)
Answered(w, status) ==
  flying' = IF Holds(w, status) THEN flying \ {Sent(w)} ELSE flying

(* The list may fail whether the torrent is there or not.                  *)
Settle(w) ==
  /\ worker[w].phase = "sent"
  /\ \/ /\ Present(w)
        /\ Transition(w, "submitting", "submitted", FALSE)
        /\ Answered(w, "submitting")
     \/ /\ Transition(w, "submitting", "reconciling", FALSE)
        /\ UNCHANGED flying
  /\ UNCHANGED <<source, moving, qb, arrived>>

(* reconcile: the torrent is not there.  The observation window, 30        *)
(* seconds, is counted from before the request, which may itself take 45;  *)
(* that it has passed says nothing of the request, and when it has is left *)
(* open, like all times.                                                   *)
Found(w) ==
  IF Present(w) THEN "submitted"
  ELSE IF db.job[worker[w].job].attempts >= MaxAttempts THEN "failed" ELSE "retry_wait"

CheckAnswered(w) ==
  /\ worker[w].phase = "check"
  /\ Transition(w, "reconciling", Found(w), Found(w) # "submitted")
  /\ Answered(w, "reconciling")
  /\ UNCHANGED <<source, moving, qb, arrived>>

(* There is no answer, or the torrent is not there and the window is open. *)
CheckAgain(w) ==
  /\ worker[w].phase = "check"
  /\ Transition(w, "reconciling", "reconciling", FALSE)
  /\ OutsideUnchanged

-----------------------------------------------------------------------------
(* People.                                                                 *)

(* enqueue_job: feed and rule are on.                                      *)
Enqueue(j) ==
  /\ db.job[j].status = "none"
  /\ On(j)
  /\ db' = [db EXCEPT !.job[j].status = "queued"]
  /\ UNCHANGED worker
  /\ OutsideUnchanged

(* A new version of a feed: whoever claimed under another one is out of    *)
(* date.                                                                   *)
Versioned(s) ==
  worker' = [w \in Workers |->
    IF worker[w].job # NoJob /\ FeedOf[worker[w].job] = s
      THEN [worker[w] EXCEPT !.current = FALSE] ELSE worker[w]]

(* rss_set_feed_enabled, rss_set_rule_enabled, the two archives.           *)
SetSource(s, state) ==
  /\ source[s] \notin {"archived", state}
  /\ source' = [source EXCEPT ![s] = state]
  /\ db' = Synchronized(source', db)
  /\ Versioned(s)
  /\ UNCHANGED <<moving, qb, flying, arrived>>

(* save_feed, save_rule, with the state left alone.                        *)
EditSource(s) ==
  /\ source[s] # "archived"
  /\ db' = Synchronized(source, db)
  /\ Versioned(s)
  /\ OutsideUnchanged

JobAction(j, status, release) ==
  /\ db' = Finished(db, j, status, release)
  /\ UNCHANGED worker

Cancellable == Unclaimed \cup {"held", "fetching", "failed"}

Cancel(j) ==
  /\ db.job[j].status \in Cancellable
  /\ JobAction(j, "cancelled", TRUE)
  /\ OutsideUnchanged

(* The attempts are counted anew.                                          *)
Retry(j) ==
  /\ db.job[j].status \in {"failed", "waiting", "retry_wait"}
  /\ On(j)
  /\ db' = [Finished(db, j, "queued", TRUE) EXCEPT !.job[j].attempts = 0]
  /\ UNCHANGED worker
  /\ OutsideUnchanged

(* "reconcile": not under a request that is being made.                    *)
Reconcile(j) ==
  /\ db.job[j].status \in Uncertain
  /\ db.job[j].lease \in {"none", "expired"}
  /\ JobAction(j, "reconciling", FALSE)
  /\ OutsideUnchanged

RemoveTorrent(d, hash) ==
  /\ hash \in qb[d]
  /\ qb' = [qb EXCEPT ![d] = @ \ {hash}]
  /\ arrived' = {r \in arrived : ~(DownloaderOf[r.job] = d /\ r.hash = hash)}
  /\ UNCHANGED <<db, source, worker, moving, flying>>

(* rss_cleanup, a month later.                                             *)
Cleanup(j) ==
  /\ db.job[j].status \in Final /\ ~db.job[j].reserved
  /\ db' = [db EXCEPT
       !.job[j] = DeletedRow,
       !.key = [d \in Downloaders |-> [h \in Hashes |->
         IF db.key[d][h].job # j THEN db.key[d][h]
         ELSE IF db.key[d][h].outcome = "free" THEN NoKey
         ELSE [db.key[d][h] EXCEPT !.job = NoJob]]]]
  /\ UNCHANGED <<source, worker, moving, qb, flying, arrived>>

-----------------------------------------------------------------------------
(* Relocations, which take a torrent on a downloader only while no job may *)
(* be submitting it there.                                                 *)

(* Mutant: a submission that is only looked for does not count.            *)
RssActiveSending(d, hash) ==
  \E j \in Jobs : /\ DownloaderOf[j] = d /\ db.job[j].status \in {"fetching", "submitting"}
                 /\ db.job[j].hash \in {NoHash, hash}

RssActive(d, hash) ==
  \E j \in Jobs : DownloaderOf[j] = d /\ db.job[j].status \in Active /\ db.job[j].hash \in {NoHash, hash}

MoveStarts(d, hash) ==
  /\ hash \notin moving[d]
  /\ ~RssActive(d, hash)
  /\ moving' = [moving EXCEPT ![d] = @ \cup {hash}]
  /\ UNCHANGED <<db, source, worker, qb, flying, arrived>>

(* Its row says completed or cancelled, or its lease is gone then: here an *)
(* end at any time.                                                        *)
MoveEnds(d, hash) ==
  /\ hash \in moving[d]
  /\ moving' = [moving EXCEPT ![d] = @ \ {hash}]
  /\ UNCHANGED <<db, source, worker, qb, flying, arrived>>

-----------------------------------------------------------------------------
(* The downloader, the clock and the process.                              *)

Arrives(r) ==
  /\ r \in flying
  /\ flying' = flying \ {r}
  /\ qb' = [qb EXCEPT ![DownloaderOf[r.job]] = @ \cup {r.hash}]
  /\ arrived' = arrived \cup {r}
  /\ UNCHANGED <<db, source, worker, moving>>

IsLost(r) ==
  /\ r \in flying
  /\ flying' = flying \ {r}
  /\ UNCHANGED <<db, source, worker, moving, qb, arrived>>

(* A torrent comes into the downloader some other way: a person adds it,   *)
(* or another part of the program, or a request whose job had given it up. *)
Appears(d, hash) ==
  /\ hash \notin qb[d]
  /\ qb' = [qb EXCEPT ![d] = @ \cup {hash}]
  /\ UNCHANGED <<db, source, worker, moving, flying, arrived>>

(* rss_release_observed_reservations, with what the collector sampled.     *)
Sample(d) ==
  /\ db' = Observed(db, d)
  /\ UNCHANGED worker
  /\ OutsideUnchanged

(* Bound: a lease outlasts the submission it was renewed for, 300 seconds  *)
(* against 100, 45 and 30: it runs out under a worker only where it is     *)
(* still fetching or only looks.                                           *)
MayExpire(lease) ==
  \/ lease \in {"left", "dead"}
  \/ lease \in Workers /\ worker[lease].phase \notin {"sending", "sent"}

LeaseExpires(j) ==
  /\ MayExpire(db.job[j].lease)
  /\ db' = [db EXCEPT !.job[j].lease = "expired"]
  /\ UNCHANGED worker
  /\ OutsideUnchanged

(* rss_recover.                                                            *)
Recover ==
  /\ db' = Tables
  /\ UNCHANGED worker
  /\ OutsideUnchanged

WorkersGone == worker' = [w \in Workers |-> Idle]

(* Requests that have been sent go on.                                     *)
Crash ==
  /\ db' = [db EXCEPT !.job = [j \in Jobs |->
       IF db.job[j].lease \in Workers \cup {"left"}
         THEN [db.job[j] EXCEPT !.lease = "dead"] ELSE db.job[j]]]
  /\ WorkersGone
  /\ OutsideUnchanged

(* rss_release_owner, when the process stops in order: its own leases, and *)
(* those that have run out if they were its own.                           *)
Own == {Workers \cup {"left"}, Workers \cup {"left", "expired"}}

ReleasedRow(row, own) ==
  IF row.lease \notin own THEN row
  ELSE IF row.status \in Uncertain THEN Unleased(row, "reconciling")
  ELSE IF row.status = "fetching" THEN Dropped(row, "queued")
  ELSE row

Released(t, own) ==
  LET rows == [t EXCEPT !.job = [j \in Jobs |-> ReleasedRow(t.job[j], own)]]
  IN  Freed([rows EXCEPT !.slot = [d \in Downloaders |->
              IF rows.slot[d] # NoJob /\ rows.job[rows.slot[d]].status # "reconciling"
                 /\ t.job[rows.slot[d]].lease \in own
                THEN NoJob ELSE rows.slot[d]]], {"queued"})

Stop ==
  /\ \E own \in Own : db' = Released(db, own)
  /\ WorkersGone
  /\ OutsideUnchanged

-----------------------------------------------------------------------------
Init ==
  /\ db = [job |-> [j \in Jobs |-> NewRow], key |-> [d \in Downloaders |-> [h \in Hashes |-> NoKey]],
           slot |-> [d \in Downloaders |-> NoJob]]
  /\ source = [s \in Sources |-> "on"]
  /\ worker = [w \in Workers |-> Idle]
  /\ moving = [d \in Downloaders |-> {}]
  /\ qb = [d \in Downloaders |-> {}]
  /\ flying = {} /\ arrived = {}

WorkerStep ==
  \E w \in Workers :
    \/ \E j \in Jobs : Claim(w, j)
    \/ Fetch(w) \/ NoSpace(w) \/ FetchFails(w) \/ FetchConflicts(w) \/ AlreadyPresent(w)
    \/ Refused(w) \/ PrepareConflicts(w) \/ PrepareWaits(w) \/ PrepareFindsDelivered(w) \/ Prepare(w)
    \/ Send(w) \/ Settle(w) \/ CheckAnswered(w) \/ CheckAgain(w)

PeopleStep ==
  \/ \E j \in Jobs : Enqueue(j) \/ Cancel(j) \/ Retry(j) \/ Reconcile(j)
  \/ \E s \in Sources : EditSource(s) \/ \E state \in {"on", "off", "archived"} : SetSource(s, state)
  \/ \E d \in Downloaders, hash \in Hashes :
       RemoveTorrent(d, hash) \/ MoveStarts(d, hash) \/ MoveEnds(d, hash)

SystemStep ==
  \/ \E j \in Jobs : LeaseExpires(j) \/ Cleanup(j)
  \/ \E r \in flying : Arrives(r) \/ IsLost(r)
  \/ \E d \in Downloaders, hash \in Hashes : Appears(d, hash)
  \/ \E d \in Downloaders : Sample(d)
  \/ Recover \/ Crash \/ Stop

Next == WorkerStep \/ PeopleStep \/ SystemStep

Spec == Init /\ [][Next]_vars


(* Every row, key, slot and worker is one the code can write.              *)
TypeOK ==
  /\ db \in [job : [Jobs -> Rows], key : [Downloaders -> [Hashes -> Keys]],
             slot : [Downloaders -> Jobs \cup {NoJob}]]
  /\ source \in [Sources -> {"on", "off", "archived"}]
  /\ worker \in [Workers -> [phase : Phases, job : Jobs \cup {NoJob},
                             hash : Hashes \cup {NoHash}, current : BOOLEAN]]
  /\ moving \in [Downloaders -> SUBSET Hashes]
  /\ qb \in [Downloaders -> SUBSET Hashes]
  /\ flying \subseteq Requests /\ arrived \subseteq Requests

(* The slot of a downloader is with the one job that is fetched or whose   *)
(* submission is not over, and with no other: it is never lost, and never  *)
(* kept by a job that has ended, paused or been cancelled.                 *)
SlotKept ==
  \A j \in Jobs : db.job[j].status \in Active <=> db.slot[DownloaderOf[j]] = j

(* At most one submission is made on a downloader at a time, whoever's     *)
(* lease ran out.                                                          *)
OneSubmission ==
  \A v, w \in Workers :
    (/\ worker[v].phase \in {"sending", "sent"} /\ worker[w].phase \in {"sending", "sent"}
     /\ DownloaderOf[worker[v].job] = DownloaderOf[worker[w].job]) => v = w

(* A submission that is not over owns its infohash on its downloader: the  *)
(* torrent is not another job's, and it has not been delivered before.     *)
HashOwned ==
  /\ \A j \in Jobs : db.job[j].status \in Uncertain =>
       db.key[DownloaderOf[j]][db.job[j].hash] = [job |-> j, outcome |-> "busy"]
  /\ \A j, k \in Jobs :
       (/\ DownloaderOf[j] = DownloaderOf[k] /\ db.job[j].hash = db.job[k].hash
        /\ {db.job[j].status, db.job[k].status} \subseteq Uncertain \cup {"submitted"}) => j = k

(* No request is forgotten: until the downloader has said that it has the  *)
(* torrent, or that it has not, its job waits for it and keeps its space   *)
(* and its infohash; and when the torrent has come by then, the job says   *)
(* so in the end: whatever people do to the job, its feed or its rule,     *)
(* whoever's lease runs out, and whenever the process stops.               *)
NothingForgotten ==
  /\ \A r \in flying : db.job[r.job].status \in Uncertain /\ db.job[r.job].reserved
  /\ \A r \in arrived : db.job[r.job].status \in Uncertain \cup {"submitted", "deleted"}
  /\ \A r \in flying \cup arrived : db.job[r.job].status # "deleted" => db.job[r.job].hash = r.hash

Brought(d) == {r.hash : r \in {q \in flying \cup arrived : DownloaderOf[q.job] = d}}

(* What is on its way to a downloader, and what has come there while its   *)
(* job waited for it, has room there.                                      *)
Fits ==
  \A d \in Downloaders : Cardinality(Brought(d)) <= Capacity[d]

(* doc/rss-downloader-design.md: an unknown submission keeps its space     *)
(* until it is known to be there or not to have been made, so that RSS     *)
(* does not use the same free space twice.                                 *)
SpaceHeldUntilKnown ==
  [][\A j \in Jobs :
       db.job[j].reserved /\ ~db'.job[j].reserved => \A r \in flying : r.job # j]_vars

(* No torrent is submitted where a relocation handles it.                  *)
Apart ==
  \A j \in Jobs : db.job[j].status \in Uncertain => db.job[j].hash \notin moving[DownloaderOf[j]]

=============================================================================
