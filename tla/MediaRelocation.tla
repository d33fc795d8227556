--------------------------- MODULE MediaRelocation ---------------------------
(***************************************************************************)
(* Relocation as a whole: the loop of RelocationJobs does the passes of    *)
(* OpenListCopy and QbHandover while people answer the questions jobs ask, *)
(* change the settings, stop the automatic jobs, and the process crashes.  *)
(***************************************************************************)
EXTENDS QbHandover

VARIABLE stopped   \* history: jobs ended whatever OpenList was doing for them

vars == <<jobVars, copyVars, qbVars, stopped>>

-----------------------------------------------------------------------------
(* People.                                                                 *)

(* enqueue_manual_media_relocation_jobs.                                   *)
EnqueueManual(j) ==
  /\ Manual(j)
  /\ job[j].stage = "none"
  /\ job' = [job EXCEPT ![j].stage = "waiting_download"]
  /\ UNCHANGED <<setup, config, worker, copyVars, qbVars, stopped>>

(* Copying is switched on or off, once between two ticks.                  *)
SaveSettings ==
  /\ \E j \in Jobs : setup[j].kind = "auto"
  /\ config.enabled = config.read
  /\ config' = [config EXCEPT !.enabled = ~@]
  /\ UNCHANGED <<setup, job, worker, copyVars, qbVars, stopped>>

(* A write by a person: nobody holds a lease.                              *)
Answered(j, row) ==
  /\ ~job[j].leased
  /\ job' = [job EXCEPT ![j] = row]
  /\ worker' = Overwritten(j)
  /\ UNCHANGED <<setup, config, copyVars, qbVars, stopped>>

(* resolve_media_relocation_copy "recheck": what is there is looked at     *)
(* again, and nothing that may have been sent is sent again.               *)
Recheck(j) ==
  \/ /\ job[j].stage = "planning_manual_review"
     /\ Answered(j, [job[j] EXCEPT !.stage = "waiting_download"])
  \/ /\ job[j].stage = "copy_manual_review"
     /\ Answered(j, [job[j] EXCEPT !.stage = IF job[j].ck = NoCk THEN "copy_legacy_reconcile"
                                                                ELSE "copy_submitting"])

(* Mutant: a copy that was never answered counts as over.                  *)
TaskOverUnlessRunning(j) == job[j].tasks = 0 \/ TaskState(j) # "running"

(* verify_openlist_tasks_for_cancel: nothing was sent, or the task that    *)
(* was is over.                                                            *)
TaskOver(j) ==
  IF job[j].tasks = 0 THEN job[j].ck.phase = "Prepared" /\ job[j].ck.op # "RemoveFile"
                      ELSE TaskState(j) \in {"succeeded", "over"}

CancelledRow(row) == [Without(row) EXCEPT !.stage = "cancelled", !.cursor = 0]

Cancel(j) ==
  /\ \/ job[j].stage \in {"planning_manual_review", "auto_copy_paused"}
     \/ job[j].stage = "copy_manual_review" /\ TaskOver(j)
  /\ Answered(j, CancelledRow(job[j]))

(* retry_media_relocation_migration.                                       *)
RetryMigration(j) ==
  /\ Manual(j)
  /\ \/ /\ job[j].stage = "source_remove_manual_review"
        /\ Answered(j, [job[j] EXCEPT !.stage = "source_removing", !.tasks = 0, !.lock = FALSE])
     \/ /\ job[j].stage = "qb_manual_review"
        /\ Answered(j, [Without(job[j]) EXCEPT !.stage =
                          IF ~job[j].planned THEN "waiting_download"
                          ELSE IF ~job[j].exported THEN "copy_verified"
                          ELSE "qb_reconcile"])

AbandonMigration(j) ==
  /\ Manual(j)
  /\ job[j].stage \in {"qb_manual_review", "source_remove_manual_review"}
  /\ Answered(j, [job[j] EXCEPT !.stage = "cancelled", !.lock = FALSE])

(* stop_and_clear_automatic_media_relocation_jobs: whoever works on them,  *)
(* and whatever has been sent.                                             *)
ToStop == {j \in Jobs : setup[j].kind = "auto" /\ job[j].stage # "none"} \ stopped

StopAutomatic ==
  /\ ToStop # {}
  /\ job' = [j \in Jobs |->
       IF j \in ToStop
         THEN [CancelledRow(job[j]) EXCEPT !.leased = FALSE,
                 !.stage = IF job[j].stage = "completed" THEN "completed" ELSE "cancelled"]
         ELSE job[j]]
  /\ worker' = IF worker.job \in ToStop THEN [worker EXCEPT !.fresh = FALSE] ELSE worker
  /\ stopped' = stopped \cup ToStop
  /\ UNCHANGED <<setup, config, copyVars, qbVars>>

(* A subscription is deleted, or a manual download is queued again whose   *)
(* torrent is missing: the row of its job goes with it, whatever it holds. *)
(* Nothing tells a deleted row from a cancelled one.                       *)
DeleteAutomatic(j) ==
  /\ setup[j].kind = "auto"
  /\ job[j].stage \notin {"none"} \cup Finished
  /\ job' = [job EXCEPT ![j] = [CancelledRow(job[j]) EXCEPT !.leased = FALSE]]
  /\ worker' = Overwritten(j)
  /\ stopped' = stopped \cup {j}
  /\ UNCHANGED <<setup, config, copyVars, qbVars>>

PeopleStep ==
  \/ SaveSettings \/ StopAutomatic
  \/ \E j \in Jobs :
       \/ EnqueueManual(j) \/ Recheck(j) \/ Cancel(j) \/ RetryMigration(j) \/ AbandonMigration(j)
       \/ DeleteAutomatic(j)
  \/ \E new \in SUBSET Jobs : ScanNow(new) /\ UNCHANGED <<copyVars, qbVars, stopped>>

-----------------------------------------------------------------------------
Init ==
  /\ JobsInit
  /\ CopyInit
  /\ QbInit
  /\ stopped = {}

LoopStep ==
  \/ \E new \in SUBSET Jobs : Tick(new) /\ UNCHANGED <<copyVars, qbVars, stopped>>
  \/ \E j \in Jobs : (Claim(j) \/ LeaseExpires(j)) /\ UNCHANGED <<copyVars, qbVars, stopped>>
  \/ (Commit \/ Fail \/ Crash) /\ UNCHANGED <<copyVars, qbVars, stopped>>

PassStep ==
  \E j \in Jobs :
    \/ CopyPass(j) /\ UNCHANGED <<qbVars, stopped>>
    \/ QbPass(j) /\ UNCHANGED stopped

OutsideStep ==
  \/ OpenListStep /\ UNCHANGED <<qbVars, stopped>>
  \/ QbStep /\ UNCHANGED stopped

Next == LoopStep \/ PassStep \/ PeopleStep \/ OutsideStep

Spec == Init /\ [][Next]_vars

-----------------------------------------------------------------------------
TypeOK ==
  /\ setup \in Setups
  /\ config \in [enabled : BOOLEAN, read : BOOLEAN]
  /\ \A row \in {job[j] : j \in Jobs} \cup {worker.next} :
       /\ row.stage \in Stages /\ row.ck \in Checkpoints
       /\ row.cursor \in 0 .. MaxFiles /\ row.tasks \in 0 .. MaxFiles
       /\ {row.planned, row.lock, row.exported, row.leased} \subseteq BOOLEAN
  /\ worker.pc \in {"idle", "claimed", "sending", "sent", "decided"}
  /\ worker.job \in {0} \cup Jobs
  /\ source \in [Jobs -> SUBSET AllFiles]
  /\ target \in [Jobs -> [AllFiles -> Content]]
  /\ op \in [Jobs -> [Items -> OpState]]
  /\ qb \in [Jobs -> [src : SourceStates, tgt : TargetStates]]

(* A request that may have been sent is never sent again, whatever answer  *)
(* was lost, whichever process died and whatever a person answered: one    *)
(* copy, one directory and one removal each at most (the checkpoints of    *)
(* copy_submitting and source_removing).                                   *)
RequestedOnce ==
  \A j \in Jobs :
    /\ \A i \in Items : sent[j][i] <= 1
    /\ \A f \in AllFiles : removals[j][f] <= 1

(* OpenList is writing for a job.                                          *)
Writing(j) == \E f \in Files(j) : Underway(j, f) /\ target[j][f] \in {"absent", "partial"}

(* OpenList never writes for two jobs into the same directory at once,     *)
(* however their answers got lost, unless one of them was stopped or       *)
(* deleted (try_acquire_media_relocation_target_lock and every release).     *)
OneWriter ==
  \A j, k \in Jobs \ stopped : Writing(j) /\ Writing(k) => j = k

(* An automatic job that is completed left the content of every source     *)
(* file at the target, not merely files of the same names and sizes.       *)
CopyProven ==
  \A j \in Jobs :
    setup[j].kind = "auto" /\ job[j].stage = "completed" =>
      \A f \in Files(j) : target[j][f] = "same"

(* A file of a manual job is at the source unless its content is at the    *)
(* target, and a file another torrent uses stays at the source.            *)
NothingLost ==
  \A j \in Jobs :
    \A f \in Files(j) : f \in source[j] \/ (target[j][f] = "same" /\ f \notin setup[j].shared)

(* The torrent is in the source qBittorrent, in the target one or in the   *)
(* row: no failure between the delete and the add loses it.                *)
TorrentKept ==
  \A j \in Jobs :
    Manual(j) => qb[j].src # "gone" \/ qb[j].tgt # "none" \/ job[j].exported

(* Where the content of a file is, as FileMove sees it; a file that is     *)
(* neither at the source nor at the target is at none of FileMove's places.*)
Place(j, f) ==
  IF f \in source[j] THEN IF target[j][f] = "same" THEN "both" ELSE "source"
                     ELSE IF target[j][f] = "same" THEN "target" ELSE "lost"

Moves == {j \in Jobs : Manual(j)}
FilesOf == [j \in Jobs |-> Files(j)]
OwnOf == [j \in Jobs |-> Files(j) \ setup[j].shared]
PlaceOf == [j \in Jobs |-> [f \in Files(j) |-> Place(j, f)]]
DoneOf == {j \in Jobs : job[j].stage = "completed"}

Move == INSTANCE FileMove WITH
  Job <- Jobs, File <- AllFiles,
  moves <- Moves, files <- FilesOf, own <- OwnOf, place <- PlaceOf, done <- DoneOf

(* A manual job that is completed has removed all its own source files,    *)
(* each with its content at the target, however often its removals were    *)
(* interrupted, retried, answered by a person or done by somebody else;    *)
(* and nothing is taken from the source afterwards.                        *)
MoveSpec == Move!Spec

(* No pass that a person overtook brings a job back that has ended.        *)
EndedForGood ==
  [][\A j \in Jobs : job[j].stage \in Finished => job'[j].stage = job[j].stage]_vars
=============================================================================
