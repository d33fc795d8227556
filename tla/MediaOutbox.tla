---------------------------- MODULE MediaOutbox -----------------------------
(***************************************************************************)
(* The download outbox of the media pipeline: the media_downloads rows of  *)
(* one subscription (one row per target, the dedupe key) and of manual     *)
(* downloads, the worker that the download loop runs on a claimed row, the *)
(* lease that ties the two, qBittorrent, and the recovery of leases.  The  *)
(* subscription's own actions are in MediaPipeline.                        *)
(*                                                                         *)
(* Every database operation is one SQLite transaction, hence one action.   *)
(* Row versions only grow, and the code only ever compares the version it  *)
(* loaded with the stored one: fresh and scanFresh keep the outcome of     *)
(* that comparison instead of the numbers.                                 *)
(***************************************************************************)
EXTENDS MediaTargets

CONSTANTS
  Manual,       \* torrents a user may queue by hand, each in a row of its own
  MaxAttempts,  \* MEDIA_DOWNLOAD_MAX_ATTEMPTS
  Scanners,     \* the subscription loop and the manual runs of the web API
  Scheduler,    \* the scanner that is the subscription loop
  NoTorrent,    \* infohash IS NULL
  NoOwner       \* lease_owner IS NULL, or the owner was a process that died

ASSUME MaxAttemptsAssumption == MaxAttempts \in Nat \ {0}
ASSUME ScannersAssumption == Scheduler \in Scanners /\ NoOwner \notin Scanners
ASSUME NoTorrentAssumption == NoTorrent \notin Torrents
ASSUME ManualAssumption == Manual \subseteq Torrents /\ Torrents \cap Episodes = {}

Rows == Episodes \cup Manual

VARIABLES
  (* media_downloads *)
  status, attempts,
  lease,       \* "none", "live", "stale" (lease_until passed) or "orphan"
               \* (not yet passed, but the owning process is gone)
  infohash,    \* written before the submission
  release,     \* the torrent that release_json locates
  (* subscriptions and subscription_targets *)
  state, cursor, start, target, enabled,
  subLease, subOwner,
  (* the process *)
  booted,      \* startup lease recovery is over
  wpc, job,    \* the worker of a row, and the torrent it fetched
  fresh,       \* the worker's copy of the row has the stored version
  spc, scanKey, scanFresh,
  verdict,     \* qB's answer about a row, held by a user's request
  (* qBittorrent *)
  qb,          \* torrents it has
  net,         \* add requests it has received or will receive
  (* history *)
  landed,      \* torrents it ever had
  unanswered   \* rows whose torrent was sent and not asked for since

rowVars == <<status, attempts, lease, infohash, release>>
subVars == <<state, cursor, start, target, enabled, subLease, subOwner>>
workerVars == <<wpc, job, fresh>>
scanVars == <<spc, scanKey, scanFresh>>
qbVars == <<qb, net, landed>>
vars == <<rowVars, subVars, booted, workerVars, scanVars, verdict, qbVars, unanswered>>

(* "cancelled" is in the schema, but no code writes it.                    *)
RowStatus == {"none", "queued", "fetching", "submitting", "reconciling",
              "retry_wait", "submitted", "failed"}

ActiveStatus == {"queued", "fetching", "submitting", "reconciling", "retry_wait"}

InWork == {"fetching", "submitting", "reconciling"}

LeaseState == {"none", "live", "stale", "orphan"}

WorkerPc == {"idle", "fetch", "vacant", "submitting", "sent", "confirmed", "seen", "denied",
             "unknown", "restore", "resent", "lost", "reconcile"}

LeaseActive(l) == l \in {"live", "orphan"}

(* The lease is the worker's: workers only exist in the live process, and  *)
(* all of them share its owner id.                                         *)
Owned(d) == lease[d] \in {"live", "stale"}

RowLeased(d) == status[d] \in InWork /\ LeaseActive(lease[d])

Current == IF Movie THEN 1 ELSE cursor

TakenByOther(d, t) == \E o \in Rows \ {d} : infohash[o] = t

(* Mutant: a write that leaves the version as it is.                       *)
VersionKept == UNCHANGED scanFresh

(* A transaction bumped the subscription's version: no scan's copy is      *)
(* current any more.                                                       *)
VersionBumped == scanFresh' = [s \in Scanners |-> FALSE]

(***************************************************************************)
(* Shared transactions.                                                    *)
(***************************************************************************)

(* reset_subscription_after_failed_download, for the rows in D.            *)
Reopened(D) ==
  {e \in D \cap Episodes : state = "active" /\ e = Current /\ target[e] = "queued"}

ReopenTargets(D) ==
  /\ target' = [e \in Episodes |-> IF e \in Reopened(D) THEN "pending" ELSE target[e]]
  /\ IF Reopened(D) # {}
       THEN /\ subLease' = "none"
            /\ subOwner' = NoOwner
            /\ VersionBumped
       ELSE UNCHANGED <<subLease, subOwner, scanFresh>>
  /\ UNCHANGED <<state, cursor, start, enabled, spc, scanKey>>

(* The target of a row that was found in qB, and the cursor.               *)
SettleTarget(d, coverages) ==
  /\ IF d \in Manual
       THEN UNCHANGED <<state, cursor, target, enabled, scanFresh>>
     ELSE IF d # Current
       THEN /\ target' = [target EXCEPT ![d] = "submitted"]
            /\ UNCHANGED <<state, cursor, enabled, scanFresh>>
     ELSE \E coverage \in coverages : \E c \in CursorAfter(target, d, coverage) :
            /\ cursor' = c
            /\ target' = TargetsAfter(target, d, coverage, c)
            /\ state' = IF c = Done THEN "completed" ELSE state
            /\ enabled' = (enabled /\ c # Done)
            /\ VersionBumped
  /\ UNCHANGED <<start, subLease, subOwner, spc, scanKey>>

(* release_media_download_after_error on an owned row.                     *)
StatusAfterError(d, confirmedAbsent) ==
  LET preserve == ~confirmedAbsent /\ status[d] \in {"submitting", "reconciling"}
  IN  IF status[d] = "submitting" /\ preserve THEN "reconciling"
      ELSE IF attempts[d] >= MaxAttempts THEN "failed"
      ELSE IF preserve THEN "reconciling"
      ELSE "retry_wait"

(* Mutants: a row that is reconciled for the last time is taken for absent,*)
(* and a row whose torrent was never sent is not.                          *)
KnownAbsentReconciling(d, confirmedAbsent) ==
  confirmedAbsent \/ status[d] \in {"fetching", "reconciling"}

KnownAbsentConfirmed(d, confirmedAbsent) == confirmedAbsent

KnownAbsent(d, confirmedAbsent) == confirmedAbsent \/ status[d] = "fetching"

ReleaseAfterError(d, confirmedAbsent) ==
  IF Owned(d) /\ status[d] \in InWork
    THEN /\ status' = [status EXCEPT ![d] = StatusAfterError(d, confirmedAbsent)]
         /\ lease' = [lease EXCEPT ![d] = "none"]
         /\ ReopenTargets({r \in {d} : StatusAfterError(r, confirmedAbsent) = "failed"
                                         /\ KnownAbsent(r, confirmedAbsent)})
         /\ UNCHANGED <<attempts, infohash, release>>
    ELSE UNCHANGED <<rowVars, subVars, scanVars>>

(* Mutant: an interrupted submission keeps its status.                     *)
RecoveredInPlace(d) ==
  IF status[d] = "submitting" THEN "submitting"
  ELSE IF attempts[d] >= MaxAttempts THEN "failed"
  ELSE IF status[d] = "reconciling" THEN "reconciling"
  ELSE "retry_wait"

(* recover_media_download_records.                                         *)
RecoveredStatus(d) ==
  IF status[d] = "submitting" THEN "reconciling"
  ELSE IF attempts[d] >= MaxAttempts THEN "failed"
  ELSE IF status[d] = "reconciling" THEN "reconciling"
  ELSE "retry_wait"

RecoverRows(D) ==
  /\ status' = [d \in Rows |-> IF d \in D THEN RecoveredStatus(d) ELSE status[d]]
  /\ lease' = [d \in Rows |-> IF d \in D THEN "none" ELSE lease[d]]
  /\ fresh' = [d \in Rows |-> IF d \in D THEN FALSE ELSE fresh[d]]
  /\ UNCHANGED <<attempts, infohash, release, wpc, job>>

(* Mutant: recovery does not reopen the targets of rows it gives up.       *)
LostNever(D) == {}

(* The rows recovery gives up although their torrent was never sent.       *)
Lost(D) == {d \in D : status[d] = "fetching" /\ attempts[d] >= MaxAttempts}

(***************************************************************************)
(* The download loop.                                                      *)
(***************************************************************************)
(* Mutant: a row is not reconciled after its last attempt.                 *)
ClaimableBelowMax(d) ==
  /\ status[d] \in {"queued", "retry_wait", "reconciling"} /\ attempts[d] < MaxAttempts
  /\ ~LeaseActive(lease[d])
  /\ d \in Episodes => target[d] = "queued" /\ ~LeaseActive(subLease)

Claimable(d) ==
  /\ \/ status[d] \in {"queued", "retry_wait"} /\ attempts[d] < MaxAttempts
     \/ status[d] = "reconciling" /\ attempts[d] <= MaxAttempts
  /\ ~LeaseActive(lease[d])
  /\ d \in Episodes => target[d] = "queued" /\ ~LeaseActive(subLease)

(* Mutant: reconciling beyond the last attempt counts on.                  *)
AttemptsUncapped(d) == attempts[d] + 1

AttemptsClaimed(d) == IF attempts[d] < MaxAttempts THEN attempts[d] + 1 ELSE attempts[d]

(* claim_due_media_downloads: the due rows of one batch.  The next batch   *)
(* waits until every worker of this one has returned.                      *)
ClaimDownloads(D) ==
  /\ booted
  /\ \A d \in Rows : wpc[d] = "idle"
  /\ D # {} /\ \A d \in D : Claimable(d)
  /\ LET reconcile == {d \in D : status[d] = "reconciling"}
     IN  /\ status' = [d \in Rows |->
                         IF d \in D \ reconcile THEN "fetching" ELSE status[d]]
         /\ attempts' = [d \in Rows |-> IF d \in D THEN AttemptsClaimed(d) ELSE attempts[d]]
         /\ wpc' = [d \in Rows |-> IF d \in reconcile THEN "reconcile"
                                   ELSE IF d \in D THEN "fetch" ELSE wpc[d]]
         /\ job' = [d \in Rows |-> IF d \in reconcile THEN infohash[d]
                                   ELSE IF d \in D THEN release[d] ELSE job[d]]
  /\ lease' = [d \in Rows |-> IF d \in D THEN "live" ELSE lease[d]]
  /\ fresh' = [d \in Rows |-> d \in D \/ fresh[d]]
  /\ UNCHANGED <<infohash, release, subVars, booted, scanVars, verdict, qbVars, unanswered>>

WorkerEnds(d) ==
  /\ wpc' = [wpc EXCEPT ![d] = "idle"]
  /\ job' = [job EXCEPT ![d] = NoTorrent]
  /\ fresh' = [fresh EXCEPT ![d] = FALSE]

(* Any error of the worker: the site, qB or the database failed, a row     *)
(* vanished, a compare-and-set was refused or a relocation of the same     *)
(* torrent blocks the submission.  An add request that went out always     *)
(* ends with qB's answer or without it.                                    *)
WorkerFails(d) ==
  /\ wpc[d] \notin {"idle", "sent", "resent"}
  /\ WorkerEnds(d)
  /\ ReleaseAfterError(d, FALSE)
  /\ UNCHANGED <<booted, verdict, qbVars, unanswered>>

(* The worker panics, or the database refuses the release too: the lease   *)
(* stays until it expires.                                                 *)
WorkerDies(d) ==
  /\ wpc[d] # "idle"
  /\ WorkerEnds(d)
  /\ UNCHANGED <<rowVars, subVars, booted, scanVars, verdict, qbVars, unanswered>>

WorkerGoes(d, from, to) ==
  /\ wpc[d] = from
  /\ wpc' = [wpc EXCEPT ![d] = to]
  /\ UNCHANGED <<rowVars, subVars, booted, job, fresh, scanVars, verdict, qbVars>>

(* qB was asked for the torrent and answered.                              *)
Told(d) == unanswered' = unanswered \ {d}

(* The torrent was fetched from the site.                                  *)
FetchedPresent(d) == job[d] \in qb /\ WorkerGoes(d, "fetch", "seen") /\ Told(d)

FetchedAbsent(d) == job[d] \notin qb /\ WorkerGoes(d, "fetch", "vacant") /\ Told(d)

(* Another row submitted this torrent, but it left qB: it is added again   *)
(* while the row stays in "fetching".                                      *)
RestoreSubmitted(d) ==
  /\ \E o \in Rows \ {d} : status[o] = "submitted" /\ infohash[o] = job[d]
  /\ WorkerGoes(d, "vacant", "restore")
  /\ UNCHANGED unanswered

ReconciledPresent(d) == job[d] \in qb /\ WorkerGoes(d, "reconcile", "seen") /\ Told(d)

(* Mutant: an absent torrent is taken for a present one.                   *)
ReconciledAnyway(d) ==
  job[d] \in Torrents \ qb /\ WorkerGoes(d, "reconcile", "seen") /\ Told(d)

ReconciledAbsent(d) ==
  job[d] \in Torrents \ qb /\ WorkerGoes(d, "reconcile", "denied") /\ Told(d)

(* mark_media_download_submitting; (downloader_id, infohash) is unique.    *)
MarkSubmitting(d) ==
  /\ wpc[d] = "vacant"
  /\ fresh[d] /\ status[d] = "fetching" /\ Owned(d)
  /\ ~TakenByOther(d, job[d])
  /\ status' = [status EXCEPT ![d] = "submitting"]
  /\ infohash' = [infohash EXCEPT ![d] = job[d]]
  /\ lease' = [lease EXCEPT ![d] = "live"]
  /\ wpc' = [wpc EXCEPT ![d] = "submitting"]
  /\ UNCHANGED <<attempts, release, subVars, booted, job, fresh, scanVars, verdict,
                 qbVars, unanswered>>

(* The row is read again, whatever became of it, and the add request goes  *)
(* out.                                                                    *)
SendTorrent(d) ==
  /\ wpc[d] = "submitting" /\ status[d] \in {"submitting", "reconciling"}
  /\ wpc' = [wpc EXCEPT ![d] = "sent"]
  /\ fresh' = [fresh EXCEPT ![d] = TRUE]
  /\ net' = net \cup {job[d]}
  /\ unanswered' = unanswered \cup {d}
  /\ UNCHANGED <<rowVars, subVars, booted, job, scanVars, verdict, qb, landed>>

SendRestored(d) ==
  /\ wpc[d] = "restore"
  /\ wpc' = [wpc EXCEPT ![d] = "resent"]
  /\ net' = net \cup {job[d]}
  /\ unanswered' = unanswered \cup {d}
  /\ UNCHANGED <<rowVars, subVars, booted, job, fresh, scanVars, verdict, qb, landed>>

(* The add call returned or timed out, and qB was asked for the infohash:  *)
(* it has it, it has not, or it gave no answer.                            *)
AnswerPresent(d) == job[d] \in qb /\ WorkerGoes(d, "sent", "confirmed") /\ Told(d)

AnswerAbsent(d) == job[d] \notin qb /\ WorkerGoes(d, "sent", "denied") /\ Told(d)

(* Mutant: no answer is taken for success.                                 *)
AnswerAssumed(d) == WorkerGoes(d, "sent", "confirmed") /\ UNCHANGED unanswered

AnswerUnknown(d) == WorkerGoes(d, "sent", "unknown") /\ UNCHANGED unanswered

RestoredPresent(d) == job[d] \in qb /\ WorkerGoes(d, "resent", "seen") /\ Told(d)

(* Absent or unknown, the worker of a restored torrent ends with an error. *)
RestoredAbsent(d) == job[d] \notin qb /\ WorkerGoes(d, "resent", "lost") /\ Told(d)

RestoredUnknown(d) == WorkerGoes(d, "resent", "lost") /\ UNCHANGED unanswered

TargetQueued(d) == d \in Episodes => target[d] = "queued"

(* mark_media_download_submitted                                           *)
MarkSubmitted(d) ==
  /\ wpc[d] = "confirmed"
  /\ fresh[d] /\ Owned(d) /\ status[d] \in {"submitting", "reconciling"}
  /\ TargetQueued(d)
  /\ status' = [status EXCEPT ![d] = "submitted"]
  /\ infohash' = [infohash EXCEPT ![d] = job[d]]
  /\ lease' = [lease EXCEPT ![d] = "none"]
  /\ WorkerEnds(d)
  /\ SettleTarget(d, Coverages(job[d]))
  /\ UNCHANGED <<attempts, release, booted, verdict, qbVars, unanswered>>

(* mark_media_download_qb_present: the infohash of another row is not      *)
(* stored twice.                                                           *)
MarkQbPresent(d) ==
  /\ wpc[d] = "seen"
  /\ fresh[d] /\ Owned(d) /\ status[d] \in {"fetching", "reconciling"}
  /\ TargetQueued(d)
  /\ status' = [status EXCEPT ![d] = "submitted"]
  /\ infohash' = [infohash EXCEPT ![d] =
                    IF TakenByOther(d, job[d]) THEN NoTorrent ELSE job[d]]
  /\ lease' = [lease EXCEPT ![d] = "none"]
  /\ WorkerEnds(d)
  /\ SettleTarget(d, Coverages(job[d]))
  /\ UNCHANGED <<attempts, release, booted, verdict, qbVars, unanswered>>

(* transition_media_download after an unknown submission.                  *)
RecordUnknown(d) ==
  /\ wpc[d] = "unknown"
  /\ fresh[d] /\ Owned(d) /\ status[d] = "submitting"
  /\ status' = [status EXCEPT ![d] = "reconciling"]
  /\ lease' = [lease EXCEPT ![d] = "none"]
  /\ WorkerEnds(d)
  /\ UNCHANGED <<attempts, infohash, release, subVars, booted, scanVars, verdict, qbVars,
                 unanswered>>

(* qB answered that it does not have the torrent.                          *)
ReleaseAbsent(d) ==
  /\ wpc[d] = "denied"
  /\ WorkerEnds(d)
  /\ ReleaseAfterError(d, TRUE)
  /\ UNCHANGED <<booted, verdict, qbVars, unanswered>>

(***************************************************************************)
(* Leases, crashes and recovery.                                           *)
(***************************************************************************)
LeaseExpires(d) ==
  /\ LeaseActive(lease[d])
  /\ lease' = [lease EXCEPT ![d] = "stale"]
  /\ UNCHANGED <<status, attempts, infohash, release, subVars, booted, workerVars,
                 scanVars, verdict, qbVars, unanswered>>

SubscriptionLeaseExpires ==
  /\ LeaseActive(subLease)
  /\ subLease' = "stale"
  /\ UNCHANGED <<rowVars, state, cursor, start, target, enabled, subOwner, booted,
                 workerVars, scanVars, verdict, qbVars, unanswered>>

Orphaned(l) == IF l = "live" THEN "orphan" ELSE l

(* The process dies, or is stopped with work in flight, and another one    *)
(* starts on the same database.  Requests already sent may still land.     *)
Crash ==
  /\ booted' = FALSE
  /\ lease' = [d \in Rows |-> Orphaned(lease[d])]
  /\ subLease' = Orphaned(subLease)
  /\ subOwner' = NoOwner
  /\ wpc' = [d \in Rows |-> "idle"]
  /\ fresh' = [d \in Rows |-> FALSE]
  /\ job' = [d \in Rows |-> NoTorrent]
  /\ spc' = [s \in Scanners |-> "idle"]
  /\ scanFresh' = [s \in Scanners |-> FALSE]
  /\ scanKey' = [s \in Scanners |-> Done]
  /\ verdict' = [d \in Rows |-> "none"]
  /\ UNCHANGED <<status, attempts, infohash, release, state, cursor, start, target,
                 enabled, qbVars, unanswered>>

(* recover_subscription_leases_for_owners and                              *)
(* recover_media_download_leases_for_owners, of owners that are gone.      *)
RecoverOrphanSubscription ==
  /\ subLease = "orphan"
  /\ subLease' = "none"
  /\ subOwner' = NoOwner
  /\ scanFresh' = [s \in Scanners |-> FALSE]
  /\ UNCHANGED <<rowVars, state, cursor, start, target, enabled, booted, workerVars,
                 spc, scanKey, verdict, qbVars, unanswered>>

RecoverOrphanDownloads ==
  LET orphans == {d \in Rows : status[d] \in InWork /\ lease[d] = "orphan"}
  IN  /\ orphans # {}
      /\ subLease # "orphan"
      /\ RecoverRows(orphans)
      /\ ReopenTargets(Lost(orphans))
      /\ UNCHANGED <<booted, verdict, qbVars, unanswered>>

(* recover_expired_media_leases, the last step of a recovery pass; the     *)
(* loops start after the first pass.                                       *)
RecoverExpired ==
  LET expired == {d \in Rows : status[d] \in InWork /\ lease[d] = "stale"}
  IN  /\ subLease # "orphan" /\ \A d \in Rows : lease[d] # "orphan"
      /\ expired # {} \/ subLease = "stale" \/ ~booted
      /\ booted' = TRUE
      /\ RecoverRows(expired)
      /\ IF subLease = "stale"
           THEN /\ target' = [e \in Episodes |->
                                IF e \in Reopened(Lost(expired)) THEN "pending" ELSE target[e]]
                /\ subLease' = "none"
                /\ subOwner' = NoOwner
                /\ scanFresh' = [s \in Scanners |-> FALSE]
                /\ UNCHANGED <<state, cursor, start, enabled, spc, scanKey>>
           ELSE ReopenTargets(Lost(expired))
      /\ UNCHANGED <<verdict, qbVars, unanswered>>

(***************************************************************************)
(* qBittorrent.                                                            *)
(***************************************************************************)
QbUnchanged ==
  UNCHANGED <<rowVars, subVars, booted, workerVars, scanVars, verdict, unanswered>>

Land(t) ==
  /\ t \in net
  /\ net' = net \ {t}
  /\ qb' = qb \cup {t}
  /\ landed' = landed \cup {t}
  /\ QbUnchanged

Refuse(t) == t \in net /\ net' = net \ {t} /\ UNCHANGED <<qb, landed>> /\ QbUnchanged

RemoveTorrent(t) == t \in qb /\ qb' = qb \ {t} /\ UNCHANGED <<net, landed>> /\ QbUnchanged
=============================================================================
