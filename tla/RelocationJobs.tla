--------------------------- MODULE RelocationJobs ---------------------------
(***************************************************************************)
(* The rows of media_relocation_jobs and the loop that works on them:      *)
(* RelocationScheduler::tick claims one due row at a time under a lease,   *)
(* process_one decides what the row becomes, and the write at the end of   *)
(* the pass, like every other write of the pass, is refused when the row   *)
(* was changed or the lease ran out meanwhile.  What a pass does in each   *)
(* stage is in OpenListCopy and QbHandover.                                *)
(*                                                                         *)
(* Time and the count of errors are left open: any pass may find a limit   *)
(* passed, and any error may be the one too many (MAX_STAGE_ERROR_ATTEMPTS).*)
(***************************************************************************)
EXTENDS Naturals, FiniteSets

CONSTANTS
  MaxJob,       \* jobs are 1 .. MaxJob
  MaxFiles,     \* bound on the files of a torrent
  Setups        \* the job tables a run starts from

ASSUME JobsAssumption == MaxJob \in Nat /\ MaxFiles \in Nat \ {0}

Jobs == 1 .. MaxJob
AllFiles == 1 .. MaxFiles

(* What does not change: an automatic job belongs to a download of the     *)
(* media pipeline, a manual one also moves the torrent to the target       *)
(* qBittorrent, which may be the source one; whether the storage publishes *)
(* file hashes; the number of files, those that other torrents use as well *)
(* and those that somebody else puts at the target; whether the target     *)
(* directory is there at first.                                            *)
ASSUME SetupsAssumption ==
  Setups \subseteq [Jobs -> [kind : {"auto", "manual", "none"}, same : BOOLEAN,
                             hashed : BOOLEAN, files : AllFiles, shared : SUBSET AllFiles,
                             foreign : SUBSET AllFiles, dir : BOOLEAN]]

VARIABLES
  setup,    \* the job table of this run
  config,   \* openlist_settings: enabled now, and when the tick read them
  job,      \* media_relocation_jobs
  worker    \* the pass in progress

jobVars == <<setup, config, job, worker>>

NoCk == [op |-> "none", phase |-> "none"]

(* copy_checkpoint_json.  The file it names is always the one after the    *)
(* cursor.                                                                 *)
Checkpoints ==
  {NoCk} \cup [op : {"CopyFile", "CreateDirectory", "RemoveFile"},
               phase : {"Prepared", "Uncertain"}]
         \cup [op : {"ReviewExisting"}, phase : {"Prepared"}]

Finished == {"completed", "cancelled"}

Review == {"planning_manual_review", "copy_manual_review", "qb_manual_review",
           "source_remove_manual_review"}

CopyStages == {"copy_reconcile", "copy_legacy_reconcile", "copy_submitting", "copying"}

TargetQbStages == {"qb_reconcile", "source_qb_removed", "target_qb_submitted",
                   "target_qb_check_requested", "target_qb_checking",
                   "target_qb_starting", "source_removing", "source_removed"}

Stages == {"none", "waiting_download", "auto_copy_paused", "copy_verified",
           "torrent_exported"} \cup Finished \cup Review \cup CopyStages \cup TargetQbStages

NoRow == [stage |-> "none", planned |-> FALSE, ck |-> NoCk, cursor |-> 0, lock |-> FALSE,
          tasks |-> 0, exported |-> FALSE, leased |-> FALSE]

Idle == [pc |-> "idle", job |-> 0, fresh |-> FALSE, next |-> NoRow]

Manual(j) == setup[j].kind = "manual"
Files(j) == 1 .. setup[j].files

JobsInit ==
  /\ setup \in Setups
  /\ config = [enabled |-> TRUE, read |-> TRUE]
  /\ job = [j \in Jobs |-> NoRow]
  /\ worker = Idle

-----------------------------------------------------------------------------
(* Rows.                                                                   *)

Moved(row, stage) == [row EXCEPT !.stage = stage]

Without(row) == [row EXCEPT !.ck = NoCk, !.tasks = 0, !.lock = FALSE]

(* A write by somebody who holds no lease: the version moves on.           *)
Overwritten(j) == IF worker.job = j THEN [worker EXCEPT !.fresh = FALSE] ELSE worker

(* Automatic jobs whose download is still to be waited for are put aside   *)
(* while copying is switched off, whoever holds them.                      *)
PutAside(j) ==
  setup[j].kind = "auto" /\ job[j].stage = "waiting_download" /\ ~config.enabled

(* enqueue_submitted_media_relocation_jobs: a job for each download that   *)
(* was submitted meanwhile.                                                *)
Enqueue(new) ==
  /\ \A j \in new : setup[j].kind = "auto" /\ job[j].stage = "none"
  /\ job' = [j \in Jobs |->
       IF j \in new
         THEN [NoRow EXCEPT !.stage = IF config.enabled THEN "waiting_download"
                                                        ELSE "auto_copy_paused"]
       ELSE IF PutAside(j)
         THEN [job[j] EXCEPT !.stage = "auto_copy_paused", !.leased = FALSE]
       ELSE job[j]]

(* The start of a tick reads the settings.                                 *)
Tick(new) ==
  /\ worker.pc = "idle"
  /\ Enqueue(new)
  /\ config' = [config EXCEPT !.read = config.enabled]
  /\ UNCHANGED <<setup, worker>>

(* A person asks for a scan: the same, beside the pass that is going on.   *)
ScanNow(new) ==
  /\ Enqueue(new)
  /\ worker' = IF worker.pc # "idle" /\ PutAside(worker.job)
                 THEN [worker EXCEPT !.fresh = FALSE] ELSE worker
  /\ UNCHANGED <<setup, config>>

Claimable(j) ==
  /\ job[j].stage \notin {"none"} \cup Finished \cup Review
  /\ config.read \/ Manual(j) \/ job[j].stage \notin {"waiting_download", "auto_copy_paused"}
  /\ ~job[j].leased

Claim(j) ==
  /\ worker.pc = "idle"
  /\ Claimable(j)
  /\ job' = [job EXCEPT ![j].leased = TRUE]
  /\ worker' = [pc |-> "claimed", job |-> j, fresh |-> TRUE, next |-> NoRow]
  /\ UNCHANGED <<setup, config>>

(* Mutant: neither the version nor the lease is looked at.                 *)
OwnsAlways(j) == job[j].stage # "none"

(* WHERE id=? AND version=? AND stage=? AND lease_owner=? AND lease_until>=?*)
Owns(j) == worker.fresh /\ job[j].leased

Working(j, stages) ==
  worker.pc = "claimed" /\ worker.job = j /\ job[j].stage \in stages

(* The pass has decided what the row becomes.                              *)
Decide(j, row) ==
  /\ worker' = [worker EXCEPT !.pc = "decided", !.next = [row EXCEPT !.leased = FALSE]]
  /\ UNCHANGED <<setup, config, job>>

(* update_media_relocation_job: a pass that waited for the download also   *)
(* fails when the settings were saved since the tick read them.            *)
CommitAllowed(j) ==
  Owns(j) /\ (job[j].stage = "waiting_download" => config.enabled = config.read)

Commit ==
  /\ worker.pc = "decided"
  /\ CommitAllowed(worker.job)
  /\ job' = [job EXCEPT ![worker.job] = worker.next]
  /\ worker' = Idle
  /\ UNCHANGED <<setup, config>>

(* The stage that asks a person after too many errors.                     *)
ReviewOf(j) ==
  LET stage == job[j].stage IN
  IF stage = "waiting_download" /\ ~Manual(j) THEN "planning_manual_review"
  ELSE IF stage = "source_removing" THEN "source_remove_manual_review"
  ELSE IF stage \in CopyStages THEN "copy_manual_review"
  ELSE IF Manual(j) THEN "qb_manual_review"
  ELSE "copy_manual_review"

(* record_retry keeps everything the row says about what was submitted.    *)
Retried(j) ==
  {[job[j] EXCEPT !.leased = FALSE],
   [job[j] EXCEPT !.leased = FALSE, !.stage = ReviewOf(j)]}

(* Any call of a pass fails, its write is refused, or the heartbeat lost   *)
(* the lease and drops it; a request already sent is not called back.      *)
Fail ==
  /\ worker.pc # "idle"
  /\ IF Owns(worker.job)
       THEN \E row \in Retried(worker.job) : job' = [job EXCEPT ![worker.job] = row]
       ELSE UNCHANGED job
  /\ worker' = Idle
  /\ UNCHANGED <<setup, config>>

LeaseExpires(j) ==
  /\ job[j].leased
  /\ job' = [job EXCEPT ![j].leased = FALSE]
  /\ UNCHANGED <<setup, config, worker>>

(* The next process reads the settings before it claims anything.          *)
Crash ==
  /\ worker.pc # "idle"
  /\ worker' = Idle
  /\ config' = [config EXCEPT !.read = config.enabled]
  /\ UNCHANGED <<setup, job>>
=============================================================================
