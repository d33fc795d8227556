---------------------------- MODULE MediaPipeline ---------------------------
(***************************************************************************)
(* The media pipeline: one subscription, its scans, the edits a user makes *)
(* over the web API, and the download outbox of MediaOutbox.  A scan       *)
(* claims the subscription's lease, prepares the current target, searches  *)
(* the sites without any lock and queues a download; every database step   *)
(* is fenced by the version, the owner and the lease.                      *)
(***************************************************************************)
EXTENDS MediaOutbox

ScanPc == {"idle", "prepare", "terminal", "growing", "search", "queued"}

LeaseCleared == subLease' = "none" /\ subOwner' = NoOwner

RowsUnchanged == UNCHANGED <<rowVars, verdict, unanswered>>

ProcessUnchanged == UNCHANGED <<booted, qbVars>>

(***************************************************************************)
(* Scans.                                                                  *)
(***************************************************************************)

(* claim_due_subscriptions by the loop, claim_subscription by a manual run.*)
ClaimSubscription(s) ==
  /\ spc[s] = "idle"
  /\ s = Scheduler => booted /\ enabled
  /\ state = "active"
  /\ ~LeaseActive(subLease)
  /\ \A e \in Episodes : ~RowLeased(e)
  /\ subLease' = "live"
  /\ subOwner' = s
  /\ spc' = [spc EXCEPT ![s] = "prepare"]
  /\ scanKey' = [scanKey EXCEPT ![s] = Current]
  /\ scanFresh' = [r \in Scanners |-> r = s]
  /\ UNCHANGED <<state, cursor, start, target, enabled, workerVars>>
  /\ RowsUnchanged /\ ProcessUnchanged

(* The compare-and-set of every write a scan makes.                        *)
Fenced(s) == scanFresh[s] /\ subOwner = s /\ subLease = "live"

ScanStays(s, pc) ==
  /\ spc' = [spc EXCEPT ![s] = pc]
  /\ UNCHANGED scanKey

ScanEnds(s) ==
  /\ spc' = [spc EXCEPT ![s] = "idle"]
  /\ scanKey' = [scanKey EXCEPT ![s] = Done]

(* TMDB answered and sync_claimed_subscription_targets stored the plan.    *)
ScanRefresh(s, known, terminal) ==
  /\ spc[s] = "prepare" /\ ~Movie
  /\ Fenced(s)
  /\ target[scanKey[s]] \in {"pending", "metadata_pending"}
  /\ PlanAccepted(start, known, terminal)
  /\ target' = SyncTargets(target, PlanTvTargets(start, known, terminal))
  /\ ScanStays(s, IF terminal THEN "terminal" ELSE "growing")
  /\ UNCHANGED <<state, cursor, start, enabled, subLease, subOwner, scanFresh, workerVars>>
  /\ RowsUnchanged /\ ProcessUnchanged

Prepared == {"prepare", "terminal", "growing"}

(* The target has aired: the sites are searched.  Air dates are data the   *)
(* model does not keep.                                                    *)
ScanDue(s) ==
  /\ spc[s] \in Prepared
  /\ target[scanKey[s]] = "pending"
  /\ ScanStays(s, "search")
  /\ UNCHANGED <<subVars, scanFresh, workerVars>>
  /\ RowsUnchanged /\ ProcessUnchanged

(* finish_subscription_scan: the target is deferred, the search found      *)
(* nothing it accepts, a download was queued, or TMDB or the search failed.*)
ScanFinish(s) ==
  /\ spc[s] # "idle"
  /\ Fenced(s)
  /\ ScanEnds(s)
  /\ LeaseCleared /\ VersionBumped
  /\ UNCHANGED <<state, cursor, start, target, enabled, workerVars>>
  /\ RowsUnchanged /\ ProcessUnchanged

(* Mutant: a frontier without metadata also completes the subscription.    *)
ScanCompleteEarly(s) ==
  /\ spc[s] \in {"prepare", "terminal"}
  /\ Fenced(s)
  /\ ~Movie /\ target[scanKey[s]] \in {"skipped", "metadata_pending"}
  /\ state' = "completed"
  /\ cursor' = Done
  /\ enabled' = FALSE
  /\ ScanEnds(s)
  /\ LeaseCleared /\ VersionBumped
  /\ UNCHANGED <<start, target, workerVars>>
  /\ RowsUnchanged /\ ProcessUnchanged

(* complete_claimed_subscription.                                          *)
ScanComplete(s) ==
  /\ spc[s] \in {"prepare", "terminal"}
  /\ Fenced(s)
  /\ ~Movie /\ target[scanKey[s]] = "skipped"
  /\ state' = "completed"
  /\ cursor' = Done
  /\ enabled' = FALSE
  /\ ScanEnds(s)
  /\ LeaseCleared /\ VersionBumped
  /\ UNCHANGED <<start, target, workerVars>>
  /\ RowsUnchanged /\ ProcessUnchanged

(* enqueue_media_download_row for the current target.                      *)
EnqueueRow(d, t) ==
  /\ status[d] \in {"none", "failed", "queued"}
  /\ IF status[d] = "queued" THEN UNCHANGED <<release, attempts>>
     ELSE release' = [release EXCEPT ![d] = t] /\ attempts' = [attempts EXCEPT ![d] = 0]
  /\ status' = [status EXCEPT ![d] = "queued"]
  /\ lease' = [lease EXCEPT ![d] = "none"]
  /\ verdict' = [verdict EXCEPT ![d] = "none"]
  /\ fresh' = [fresh EXCEPT ![d] = FALSE]
  /\ UNCHANGED <<infohash, wpc, job, unanswered>>

(* enqueue_claimed_subscription_media_download.                            *)
ScanEnqueue(s, t) ==
  /\ spc[s] = "search"
  /\ Fenced(s)
  /\ state = "active" /\ Current = scanKey[s]
  /\ scanKey[s] \in Offers[t]
  /\ target[Current] = "pending"
  /\ EnqueueRow(Current, t)
  /\ target' = [target EXCEPT ![Current] = "queued"]
  /\ ScanStays(s, "queued")
  /\ UNCHANGED <<state, cursor, start, enabled, subLease, subOwner, scanFresh>>
  /\ ProcessUnchanged

(* Mutant: the release does not ask whose lease it is.                     *)
ReleasesAnyLease(s) == state = "completed" \/ Current # scanKey[s] \/ subLease = "live"

(* release_claimed_subscription_after_error ignores the version, and the   *)
(* expiry of the lease too when the cursor moved on.                       *)
ReleasesLease(s) ==
  /\ subOwner = s
  /\ state = "completed" \/ Current # scanKey[s] \/ subLease = "live"

(* Any error of the scan: a write was refused, or a call failed.           *)
ScanFails(s) ==
  /\ spc[s] # "idle"
  /\ ScanEnds(s)
  /\ IF ReleasesLease(s)
       THEN LeaseCleared /\ VersionBumped
       ELSE UNCHANGED <<subLease, subOwner>> /\ scanFresh' = [scanFresh EXCEPT ![s] = FALSE]
  /\ UNCHANGED <<state, cursor, start, target, enabled, workerVars>>
  /\ RowsUnchanged /\ ProcessUnchanged

(* The database refuses that release too, and the lease stays.             *)
ScanDies(s) ==
  /\ spc[s] # "idle"
  /\ ScanEnds(s)
  /\ scanFresh' = [scanFresh EXCEPT ![s] = FALSE]
  /\ UNCHANGED <<subVars, workerVars>>
  /\ RowsUnchanged /\ ProcessUnchanged

(***************************************************************************)
(* The web API: subscriptions.                                             *)
(***************************************************************************)
CreateSubscription(e) ==
  /\ state = "absent"
  /\ state' = "active"
  /\ cursor' = e
  /\ start' = e
  /\ target' \in CreatePlans(e)
  /\ enabled' \in BOOLEAN
  /\ UNCHANGED <<subLease, subOwner, workerVars, scanVars>>
  /\ RowsUnchanged /\ ProcessUnchanged

(* Rows of D are gone.  A worker or a user's request that holds one finds  *)
(* its version changed.                                                    *)
DropRows(D) ==
  /\ status' = [d \in Rows |-> IF d \in D THEN "none" ELSE status[d]]
  /\ attempts' = [d \in Rows |-> IF d \in D THEN 0 ELSE attempts[d]]
  /\ lease' = [d \in Rows |-> IF d \in D THEN "none" ELSE lease[d]]
  /\ infohash' = [d \in Rows |-> IF d \in D THEN NoTorrent ELSE infohash[d]]
  /\ release' = [d \in Rows |-> IF d \in D THEN NoTorrent ELSE release[d]]
  /\ fresh' = [d \in Rows |-> d \notin D /\ fresh[d]]
  /\ verdict' = [d \in Rows |-> IF d \in D THEN "none" ELSE verdict[d]]
  /\ unanswered' = unanswered \ D
  /\ UNCHANGED <<wpc, job>>

(* delete_subscription looks at no lease and no status.                    *)
DeleteSubscription ==
  /\ state # "absent"
  /\ state' = "absent"
  /\ cursor' = Done
  /\ start' = 1
  /\ target' = [e \in Episodes |-> "none"]
  /\ enabled' = FALSE
  /\ DropRows(Episodes)
  /\ LeaseCleared /\ VersionBumped
  /\ UNCHANGED <<spc, scanKey>>
  /\ ProcessUnchanged

(* The cursor neither leaves nor enters a target with unfinished work.     *)
CursorMovable(e) ==
  e # Current =>
    /\ target[e] # "queued"
    /\ Current \in Episodes => target[Current] # "queued"

(* update_subscription.                                                    *)
UpdateSubscription(e, reset, on) ==
  /\ state # "absent"
  /\ ~LeaseActive(subLease)
  /\ Movie => state # "completed" /\ ~reset
  /\ CursorMovable(e)
  /\ IF reset
       THEN /\ \A n \in e .. LastEpisode :
                 target[n] # "queued" /\ status[n] \notin ActiveStatus
            /\ \E r \in ResetTargets(target, e) : target' = PlaceCursor(r, e)
            /\ DropRows({n \in e .. LastEpisode : target[n] # "none"})
       ELSE /\ ~Movie => target[e] # "submitted"
            /\ target' = PlaceCursor(target, e)
            /\ RowsUnchanged /\ UNCHANGED workerVars
  /\ cursor' = e
  /\ start' = e
  /\ state' = "active"
  /\ enabled' = on
  /\ LeaseCleared /\ VersionBumped
  /\ UNCHANGED <<spc, scanKey>>
  /\ ProcessUnchanged

(* set_subscription_enabled.                                               *)
SetEnabled(on) ==
  /\ state # "absent"
  /\ ~LeaseActive(subLease)
  /\ on => state # "completed"
  /\ enabled' = on
  /\ LeaseCleared /\ VersionBumped
  /\ UNCHANGED <<state, cursor, start, target, spc, scanKey, workerVars>>
  /\ RowsUnchanged /\ ProcessUnchanged

(***************************************************************************)
(* The web API: downloads.                                                 *)
(***************************************************************************)

(* queue_download for the subscription's target.  The user may override    *)
(* the rules, so the torrent need not announce the episode.                *)
QueueLinked(t) ==
  /\ state = "active" /\ ~LeaseActive(subLease)
  /\ target[Current] = "pending"
  /\ EnqueueRow(Current, t)
  /\ target' = [target EXCEPT ![Current] = "queued"]
  /\ VersionBumped
  /\ UNCHANGED <<state, cursor, start, enabled, subLease, subOwner, spc, scanKey>>
  /\ ProcessUnchanged

(* queue_download without a subscription.                                  *)
QueueManual(m) ==
  /\ status[m] \in {"none", "failed"}
  /\ EnqueueRow(m, m)
  /\ UNCHANGED <<subVars, scanVars>>
  /\ ProcessUnchanged

(* reconcile_failed_download asks qB about a failed row, queue_download    *)
(* about a manual row that was submitted before.                           *)
AskQb(d) ==
  /\ verdict[d] = "none"
  /\ infohash[d] # NoTorrent
  /\ IF d \in Manual THEN status[d] = "submitted"
                     ELSE status[d] = "failed" /\ target[d] = "queued"
  /\ verdict' = [verdict EXCEPT ![d] = IF infohash[d] \in qb THEN "present" ELSE "absent"]
  /\ unanswered' = unanswered \ {d}
  /\ UNCHANGED <<rowVars, subVars, workerVars, scanVars>>
  /\ ProcessUnchanged

RequestEnds(d) ==
  /\ verdict' = [verdict EXCEPT ![d] = "none"]
  /\ fresh' = [fresh EXCEPT ![d] = FALSE]
  /\ UNCHANGED <<wpc, job, unanswered>>

(* Mutant: the row need not be the one of the current target.              *)
ResolvableAnywhere(d) ==
  /\ d \in Episodes
  /\ status[d] = "failed" /\ target[d] = "queued"
  /\ state = "active"
  /\ ~LeaseActive(subLease)
  /\ \A o \in Episodes \ {d} : status[o] \notin ActiveStatus

(* The guards of resolve_verified_failed_media_download.                   *)
Resolvable(d) ==
  /\ d \in Episodes
  /\ status[d] = "failed" /\ target[d] = "queued"
  /\ state = "active" /\ d = Current
  /\ ~LeaseActive(subLease)
  /\ \A o \in Episodes \ {d} : status[o] \notin ActiveStatus

(* The torrent is there: the cursor advances without the coverage of the   *)
(* title.                                                                  *)
ResolvePresent(d) ==
  /\ verdict[d] = "present" /\ Resolvable(d)
  /\ status' = [status EXCEPT ![d] = "submitted"]
  /\ SettleTarget(d, {NoCoverage})
  /\ RequestEnds(d)
  /\ UNCHANGED <<attempts, lease, infohash, release>>
  /\ ProcessUnchanged

ResolveAbsent(d) ==
  /\ verdict[d] = "absent" /\ Resolvable(d)
  /\ ReopenTargets({d})
  /\ RequestEnds(d)
  /\ UNCHANGED rowVars
  /\ ProcessUnchanged

(* requeue_missing_manual_media_download.                                  *)
RequeueMissing(m) ==
  /\ verdict[m] = "absent" /\ m \in Manual
  /\ status' = [status EXCEPT ![m] = "queued"]
  /\ attempts' = [attempts EXCEPT ![m] = 0]
  /\ infohash' = [infohash EXCEPT ![m] = NoTorrent]
  /\ RequestEnds(m)
  /\ UNCHANGED <<lease, release, subVars, scanVars>>
  /\ ProcessUnchanged

(* The user's request ends without a change: qB has the torrent of a       *)
(* manual row, or the transaction was refused.                             *)
RequestDropped(d) ==
  /\ verdict[d] # "none"
  /\ verdict' = [verdict EXCEPT ![d] = "none"]
  /\ UNCHANGED <<rowVars, subVars, workerVars, scanVars, unanswered>>
  /\ ProcessUnchanged

(* delete_media_download_record of a settled row; the row of a submitted   *)
(* target takes the cursor back to it.                                     *)
DeleteRecord(d) ==
  /\ status[d] \in {"submitted", "failed"}
  /\ DropRows({d})
  /\ IF d \in Episodes /\ target[d] = "submitted"
       THEN /\ ~LeaseActive(subLease)
            /\ \A o \in Episodes \ {d} : status[o] \notin ActiveStatus
            /\ target' = [target EXCEPT ![d] = FreshStatus]
            /\ cursor' = d
            /\ start' = d
            /\ state' = "active"
            /\ LeaseCleared /\ VersionBumped
            /\ UNCHANGED <<enabled, spc, scanKey>>
       ELSE /\ d \in Episodes => target[d] # "queued"
            /\ UNCHANGED <<subVars, scanVars>>
  /\ ProcessUnchanged

(***************************************************************************)
(* The system.                                                             *)
(***************************************************************************)
Init ==
  /\ status = [d \in Rows |-> "none"]
  /\ attempts = [d \in Rows |-> 0]
  /\ lease = [d \in Rows |-> "none"]
  /\ infohash = [d \in Rows |-> NoTorrent]
  /\ release = [d \in Rows |-> NoTorrent]
  /\ state = "absent" /\ cursor = Done /\ start = 1 /\ enabled = FALSE
  /\ target = [e \in Episodes |-> "none"]
  /\ subLease = "none" /\ subOwner = NoOwner
  /\ booted = FALSE
  /\ wpc = [d \in Rows |-> "idle"]
  /\ job = [d \in Rows |-> NoTorrent]
  /\ fresh = [d \in Rows |-> FALSE]
  /\ spc = [s \in Scanners |-> "idle"]
  /\ scanKey = [s \in Scanners |-> Done]
  /\ scanFresh = [s \in Scanners |-> FALSE]
  /\ verdict = [d \in Rows |-> "none"]
  /\ qb = {} /\ net = {} /\ landed = {}
  /\ unanswered = {}

Scan(s) ==
  \/ ClaimSubscription(s)
  \/ \E known \in 0 .. LastEpisode, terminal \in BOOLEAN : ScanRefresh(s, known, terminal)
  \/ ScanDue(s)
  \/ \E t \in Torrents : ScanEnqueue(s, t)
  \/ ScanComplete(s)
  \/ ScanFinish(s)
  \/ ScanFails(s) \/ ScanDies(s)

Worker(d) ==
  \/ FetchedPresent(d) \/ FetchedAbsent(d)
  \/ ReconciledPresent(d) \/ ReconciledAbsent(d)
  \/ MarkSubmitting(d) \/ SendTorrent(d)
  \/ AnswerPresent(d) \/ AnswerAbsent(d) \/ AnswerUnknown(d)
  \/ RestoreSubmitted(d) \/ SendRestored(d)
  \/ RestoredPresent(d) \/ RestoredAbsent(d) \/ RestoredUnknown(d)
  \/ MarkSubmitted(d) \/ MarkQbPresent(d) \/ RecordUnknown(d) \/ ReleaseAbsent(d)
  \/ WorkerFails(d) \/ WorkerDies(d)

Recover == RecoverOrphanSubscription \/ RecoverOrphanDownloads \/ RecoverExpired

Qb == \E t \in Torrents : Land(t) \/ Refuse(t) \/ RemoveTorrent(t)

UserEditsSubscription ==
  \/ \E e \in Episodes : CreateSubscription(e)
  \/ \E e \in Episodes, reset, on \in BOOLEAN : UpdateSubscription(e, reset, on)
  \/ \E on \in BOOLEAN : SetEnabled(on)
  \/ DeleteSubscription

UserEditsDownloads ==
  \/ \E t \in Torrents : QueueLinked(t)
  \/ \E m \in Manual : QueueManual(m) \/ RequeueMissing(m)
  \/ \E d \in Rows : \/ AskQb(d) \/ ResolvePresent(d) \/ ResolveAbsent(d)
                     \/ RequestDropped(d) \/ DeleteRecord(d)

Next ==
  \/ \E s \in Scanners : Scan(s)
  \/ \E D \in SUBSET Rows : ClaimDownloads(D)
  \/ \E d \in Rows : Worker(d) \/ LeaseExpires(d)
  \/ SubscriptionLeaseExpires
  \/ Crash
  \/ Recover
  \/ Qb
  \/ UserEditsSubscription
  \/ UserEditsDownloads

Spec == Init /\ [][Next]_vars

(* Claimed work is carried on: a worker or a scan returns (every call it   *)
(* makes has a timeout) and a lease nobody renews expires.  The download   *)
(* loop and the recovery loop poll on timers of their own, so neither      *)
(* misses forever a row that is due, or expired, again and again.          *)
Fairness ==
  /\ \A d \in Rows : WF_vars(Worker(d)) /\ WF_vars(LeaseExpires(d))
  /\ \A s \in Scanners : WF_vars(spc[s] # "idle" /\ Scan(s))
  /\ WF_vars(SubscriptionLeaseExpires)
  /\ WF_vars(Recover)
  /\ \A d \in Rows : /\ SF_vars(\E D \in SUBSET Rows : d \in D /\ ClaimDownloads(D))
                     /\ SF_vars(lease[d] = "stale" /\ RecoverExpired)

FairSpec == Spec /\ Fairness

(***************************************************************************)
(* What the pipeline implements.                                           *)
(***************************************************************************)
WorkOf ==
  [e \in Episodes |->
     IF status[e] \in ActiveStatus THEN "active"
     ELSE IF status[e] = "failed" THEN IF target[e] = "queued" THEN "unresolved" ELSE "failed"
     ELSE status[e]]

Cursor == INSTANCE MediaCursor WITH work <- WorkOf

(* Leases, workers, scans, qBittorrent, crashes and recovery never do more *)
(* to a subscription than the atomic operations of MediaCursor.            *)
CursorSpec == Cursor!Spec

(***************************************************************************)
(* Properties.                                                             *)
(***************************************************************************)

(* Every variable keeps to its type.                                       *)
TypeOK ==
  /\ status \in [Rows -> RowStatus]
  /\ attempts \in [Rows -> 0 .. MaxAttempts]
  /\ lease \in [Rows -> LeaseState]
  /\ infohash \in [Rows -> Torrents \cup {NoTorrent}]
  /\ release \in [Rows -> Torrents \cup {NoTorrent}]
  /\ state \in {"absent", "active", "completed"}
  /\ cursor \in {Done} \cup Episodes
  /\ start \in Episodes
  /\ target \in [Episodes -> TargetStatus]
  /\ enabled \in BOOLEAN
  /\ subLease \in LeaseState
  /\ subOwner \in Scanners \cup {NoOwner}
  /\ booted \in BOOLEAN
  /\ wpc \in [Rows -> WorkerPc]
  /\ job \in [Rows -> Torrents \cup {NoTorrent}]
  /\ fresh \in [Rows -> BOOLEAN]
  /\ spc \in [Scanners -> ScanPc]
  /\ scanKey \in [Scanners -> {Done} \cup Episodes]
  /\ scanFresh \in [Scanners -> BOOLEAN]
  /\ verdict \in [Rows -> {"none", "present", "absent"}]
  /\ qb \subseteq Torrents /\ net \subseteq Torrents /\ landed \subseteq Torrents
  /\ unanswered \subseteq Rows

(* A queued target is never lost: its row is still worked on, or it failed *)
(* with the infohash of the very torrent that was queued, so that the user *)
(* can have qB asked for it and settle it.  Recovery, retries, edits and   *)
(* re-queueing of the same row all rewrite these columns.                  *)
QueuedTargetRecoverable ==
  \A e \in Episodes :
    target[e] = "queued" =>
      \/ status[e] \in ActiveStatus
      \/ status[e] = "failed" /\ infohash[e] = release[e]

(* A row is only recorded as submitted when qB really had its torrent,     *)
(* through retries, lost answers, stale workers and user verdicts.         *)
DeliveredOnly == \A d \in Rows : status[d] = "submitted" => release[d] \in landed

(* No row is stranded: the claim query never takes a row in "fetching" or  *)
(* "submitting", only lease recovery does, so such a row keeps a lease;    *)
(* and a lease never outlives the work it was claimed for.                 *)
NoStrandedRow ==
  \A d \in Rows :
    /\ status[d] \in {"fetching", "submitting"} => lease[d] # "none"
    /\ lease[d] # "none" => status[d] \in InWork

(* A scan whose copy of the subscription is current works on the target    *)
(* the cursor names and on a subscription that is not completed, whatever  *)
(* download workers, users and other scans did while it searched.          *)
FreshScanIsCurrent ==
  \A s \in Scanners :
    scanFresh[s] => spc[s] # "idle" /\ state = "active" /\ scanKey[s] = Current

(* A scan that lost the subscription to another scan is harmless: its      *)
(* later steps, its error handling included, change nothing that the scan  *)
(* which holds the lease relies on.                                        *)
StaleScanIsHarmless ==
  [][\A s, r \in Scanners :
       s # r /\ Fenced(r) /\ spc'[s] # spc[s] /\ spc'[r] = spc[r] =>
         UNCHANGED <<status, state, cursor, target, subLease, subOwner>>]_vars

ReopenedNow(d) == target[d] = "queued" /\ target'[d] \in {"pending", "metadata_pending"}

(* Once a row entered "submitting", its target is not searched again while *)
(* nobody knows whether qB took the torrent.                               *)
UnknownSubmissionHolds ==
  [][\A e \in Episodes \cap unanswered : ReopenedNow(e) => status[e] = "fetching"]_vars

(* doc/auto-media-design.md: an unknown external submission stays in       *)
(* "reconciling"; a target only goes back from queued to pending when the  *)
(* fate of the submission is known.                                        *)
UnknownSubmissionKept ==
  [][\A e \in Episodes \cap unanswered : ~ReopenedNow(e)]_vars

(* From some moment on only the scheduler scans.                           *)
ScansByHandEnd == <>[](\A s \in Scanners \ {Scheduler} : spc[s] = "idle")

(* Every row the outbox works on is settled: submitted, failed or deleted; *)
(* though the process crashes for ever, if people stop scanning by hand,   *)
(* and though they scan for ever, if it stops crashing.                    *)
RowSettles ==
  <>[]booted \/ ScansByHandEnd =>
    \A d \in Rows : status[d] \in ActiveStatus ~> status[d] \notin ActiveStatus
=============================================================================
