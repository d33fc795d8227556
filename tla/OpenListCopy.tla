---------------------------- MODULE OpenListCopy ----------------------------
(***************************************************************************)
(* The part of a relocation that copies a finished download to the archive *)
(* directory: planning, the lock on the target directory, and one file or  *)
(* directory at a time behind a durable checkpoint, against an OpenList    *)
(* server that works on its own and whose answers get lost.                *)
(*                                                                         *)
(* All jobs copy into the same directory, so that their targets overlap;   *)
(* their files are different ones.                                         *)
(***************************************************************************)
EXTENDS RelocationJobs

CONSTANT Batch   \* files looked at in one pass (MANIFEST_FILES_PER_PASS)

ASSUME BatchAssumption == Batch \in Nat \ {0}

VARIABLES
  source,   \* files that are at the source, by job
  dir,      \* the target directory of a job's files exists
  target,   \* what is at the target, by job and file
  op,       \* what became of a job's request for an item; 0 is the directory
  sent      \* history: requests sent, by job and item

copyVars == <<source, dir, target, op, sent>>

Items == 0 .. MaxFiles

(* absent, being written, the source's content, or other content of the    *)
(* same size.                                                              *)
Content == {"absent", "partial", "same", "other"}

(* nothing sent, or nothing arrived; sent and not arrived yet; a task that *)
(* runs, that ended well, and that failed or is no longer listed.          *)
OpState == {"none", "flying", "running", "succeeded", "over"}

Underway(j, i) == op[j][i] \in {"flying", "running"}

CopyInit ==
  /\ source = [j \in Jobs |-> Files(j)]
  /\ dir = [j \in Jobs |-> setup[j].dir]
  /\ target = [j \in Jobs |-> [f \in AllFiles |-> "absent"]]
  /\ op = [j \in Jobs |-> [i \in Items |-> "none"]]
  /\ sent = [j \in Jobs |-> [i \in Items |-> 0]]

-----------------------------------------------------------------------------
(* What a pass sees.                                                       *)

(* inspect_manifest_file: without hashes only name and size are compared.  *)
Observed(j, f) ==
  IF f \notin source[j] THEN "conflict"
  ELSE IF ~dir[j] THEN "nodir"
  ELSE IF target[j][f] = "absent" THEN "missing"
  ELSE IF target[j][f] = "partial" THEN "conflict"
  ELSE IF ~setup[j].hashed THEN "sized"
  ELSE IF target[j][f] = "same" THEN "verified" ELSE "conflict"

(* Mutant: the size is enough for an automatic copy too.                   *)
AcceptedBySize(j, f) == Observed(j, f) \in {"verified", "sized"}

(* An automatic copy wants a hash that both sides publish.                 *)
Accepted(j, f) ==
  Observed(j, f) = "verified" \/ (Observed(j, f) = "sized" /\ Manual(j))

FirstOpen(j, scope, f) ==
  /\ f \in scope
  /\ ~Accepted(j, f)
  /\ \A g \in scope : g < f => Accepted(j, g)

(* The files of one pass.                                                  *)
Pass(j) == {f \in Files(j) : job[j].cursor < f /\ f <= job[j].cursor + Batch}

NextFile(j) == job[j].cursor + 1

-----------------------------------------------------------------------------
(* Planning.                                                               *)

(* A job that is not finished and whose torrent is complete gets its paths *)
(* and its manifest.                                                       *)
Plan(j) ==
  /\ Working(j, {"waiting_download"})
  /\ Decide(j, [Without(Moved(job[j], "copy_reconcile")) EXCEPT !.planned = TRUE, !.cursor = 0])
  /\ UNCHANGED copyVars

(* The torrent left qBittorrent, or its infohash is no infohash.           *)
PlanCancelled(j) ==
  /\ Working(j, {"waiting_download"})
  /\ Decide(j, [job[j] EXCEPT !.stage = "cancelled"])
  /\ UNCHANGED copyVars

(* The download goes on; past the limit, or in a state that does not lead  *)
(* anywhere, a person is asked.                                            *)
PlanWaits(j) ==
  /\ Working(j, {"waiting_download"})
  /\ Decide(j, job[j])
  /\ UNCHANGED copyVars

PlanGivesUp(j) ==
  /\ Working(j, {"waiting_download"})
  /\ Decide(j, [Without(job[j]) EXCEPT !.cursor = 0,
                  !.stage = IF Manual(j) THEN "qb_manual_review" ELSE "planning_manual_review"])
  /\ UNCHANGED copyVars

(* Copying was switched off.  Only a copy whose request is out is brought  *)
(* to an end first.                                                        *)
MayConverge(j) ==
  \/ job[j].stage \in {"copying", "copy_legacy_reconcile"}
  \/ job[j].stage = "copy_submitting" /\ job[j].ck.phase = "Uncertain"

Suspended(j) == ~Manual(j) /\ ~config.read /\ ~MayConverge(j)

(* A row that has no paths yet gets no further in these stages.            *)
CopyWork(j, stages) == Working(j, stages) /\ job[j].planned

Suspend(j) ==
  /\ CopyWork(j, CopyStages)
  /\ Suspended(j)
  /\ Decide(j, [Without(job[j]) EXCEPT !.stage = "auto_copy_paused"])
  /\ UNCHANGED copyVars

(* auto_copy_resume_stage: the last durable planning boundary.             *)
Resume(j) ==
  /\ Working(j, {"auto_copy_paused"})
  /\ config.read
  /\ Decide(j, [job[j] EXCEPT 
                  !.stage = IF job[j].planned THEN "copy_reconcile" ELSE "waiting_download"])
  /\ UNCHANGED copyVars

-----------------------------------------------------------------------------
(* The lock on the target directory.                                       *)

(* Mutant: a job that asks a person gives the directory free.              *)
LockHeldWhileCopying(k) == job[k].lock /\ job[k].stage \in CopyStages

(* Rows whose lock counts.                                                 *)
LockHeld(k) == job[k].lock /\ job[k].stage \in CopyStages \cup {"copy_manual_review"}

(* try_acquire_media_relocation_target_lock, a transaction of its own.     *)
AcquireLock(j) ==
  /\ CopyWork(j, CopyStages)
  /\ ~Suspended(j)
  /\ Owns(j)
  /\ ~job[j].lock
  /\ \A k \in Jobs \ {j} : ~LockHeld(k)
  /\ job' = [job EXCEPT ![j].lock = TRUE]
  /\ UNCHANGED <<setup, config, worker, copyVars>>

(* Another job copies there, or the row is no longer the pass's.           *)
LockRefused(j) ==
  /\ CopyWork(j, CopyStages)
  /\ ~Suspended(j)
  /\ ~job[j].lock
  /\ ~Owns(j) \/ \E k \in Jobs \ {j} : LockHeld(k)
  /\ Decide(j, job[j])
  /\ UNCHANGED copyVars

Copying(j, stages) == CopyWork(j, stages) /\ ~Suspended(j) /\ job[j].lock

-----------------------------------------------------------------------------
(* copy_reconcile and copy_legacy_reconcile.                               *)

Prepared(op0) == [op |-> op0, phase |-> "Prepared"]

(* set_review_existing_checkpoint: a person has to look at this file; what *)
(* is there is never overwritten and nothing is sent for it.               *)
ReviewExisting(row, f) ==
  [Moved(row, "copy_manual_review") EXCEPT !.cursor = f - 1, !.ck = Prepared("ReviewExisting")]

(* The first file of the pass that is not there.                           *)
AtOpenFile(j, f) ==
  LET row == [job[j] EXCEPT !.cursor = f - 1] IN
  IF Observed(j, f) \in {"missing", "nodir"} /\ job[j].stage = "copy_reconcile"
    THEN [Moved(row, "copy_submitting") EXCEPT !.tasks = 0,
            !.ck = Prepared(IF Observed(j, f) = "nodir" THEN "CreateDirectory" ELSE "CopyFile")]
    ELSE ReviewExisting(row, f)

Reconcile(j) ==
  /\ Copying(j, {"copy_reconcile", "copy_legacy_reconcile"})
  /\ \E f \in Pass(j) : FirstOpen(j, Pass(j), f) /\ Decide(j, AtOpenFile(j, f))
  /\ UNCHANGED copyVars

(* Mutant: the end of the manifest is not looked for.                      *)
ReconcileOnForever(j) ==
  /\ Copying(j, {"copy_reconcile", "copy_legacy_reconcile"})
  /\ \A f \in Pass(j) : Accepted(j, f)
  /\ Decide(j, [job[j] EXCEPT !.cursor = @ + Batch])
  /\ UNCHANGED copyVars

(* Everything in this pass is there, and more passes are needed.           *)
ReconcileOn(j) ==
  /\ Copying(j, {"copy_reconcile", "copy_legacy_reconcile"})
  /\ \A f \in Pass(j) : Accepted(j, f)
  /\ job[j].cursor + Batch < setup[j].files
  /\ Decide(j, [job[j] EXCEPT !.cursor = @ + Batch])
  /\ UNCHANGED copyVars

Unverified(j, f) == FirstOpen(j, Files(j), f)

(* The last pass: all files are looked at again, and the job leaves the    *)
(* copy's stages without the lock.                                         *)
ReconcileEnds(j) ==
  /\ Copying(j, {"copy_reconcile", "copy_legacy_reconcile"})
  /\ \A f \in Pass(j) : Accepted(j, f)
  /\ job[j].cursor + Batch >= setup[j].files
  /\ Decide(j,
       IF \E f \in Files(j) : Unverified(j, f)
         THEN ReviewExisting(job[j], CHOOSE f \in Files(j) : Unverified(j, f))
         ELSE [Without(Moved(job[j], IF Manual(j) THEN "copy_verified" ELSE "completed"))
                 EXCEPT !.cursor = setup[j].files])
  /\ UNCHANGED copyVars

-----------------------------------------------------------------------------
(* copy_submitting.                                                        *)

(* What the checkpoint asks for is there.                                  *)
Arrived(j) ==
  IF job[j].ck.op = "CreateDirectory" THEN Observed(j, NextFile(j)) \notin {"nodir", "conflict"}
                                      ELSE Accepted(j, NextFile(j))

(* It is there but is not known to be what was asked for, or there is      *)
(* something else.                                                         *)
Doubtful(j) ==
  \/ Observed(j, NextFile(j)) = "conflict"
  \/ job[j].ck.op # "CreateDirectory" /\ Observed(j, NextFile(j)) = "sized" /\ ~Manual(j)
  \/ job[j].ck.op = "ReviewExisting" /\ Observed(j, NextFile(j)) \in {"missing", "nodir"}

Absent(j) == ~Arrived(j) /\ ~Doubtful(j)

SubmissionArrived(j) ==
  /\ Copying(j, {"copy_submitting"})
  /\ Arrived(j)
  /\ Decide(j, [Moved(job[j], "copy_reconcile") EXCEPT !.ck = NoCk, !.tasks = 0,
                  !.cursor = IF job[j].ck.op = "CreateDirectory" THEN @ ELSE @ + 1])
  /\ UNCHANGED copyVars

(* Nothing was sent: the file is for a person to look at.  Something was:  *)
(* the checkpoint stays.                                                   *)
SubmissionDoubtful(j) ==
  /\ Copying(j, {"copy_submitting"})
  /\ Doubtful(j)
  /\ Decide(j, IF job[j].ck.phase = "Prepared" THEN ReviewExisting(job[j], NextFile(j))
                                               ELSE Moved(job[j], "copy_manual_review"))
  /\ UNCHANGED copyVars

(* The directory went missing before the copy was sent.                    *)
SubmissionNeedsDirectory(j) ==
  /\ Copying(j, {"copy_submitting"})
  /\ job[j].ck = Prepared("CopyFile")
  /\ Observed(j, NextFile(j)) = "nodir"
  /\ Decide(j, [job[j] EXCEPT !.ck = Prepared("CreateDirectory")])
  /\ UNCHANGED copyVars

(* Mutant: an unanswered request is sent again.                            *)
SendableAgain(j) ==
  Absent(j) /\ job[j].ck.op \in {"CopyFile", "CreateDirectory"}
  /\ ~(job[j].ck.op = "CopyFile" /\ Observed(j, NextFile(j)) = "nodir")

Sendable(j) ==
  /\ Absent(j)
  /\ job[j].ck.phase = "Prepared"
  /\ ~(job[j].ck.op = "CopyFile" /\ Observed(j, NextFile(j)) = "nodir")

(* checkpoint_media_relocation_copy_submission: before anything is sent    *)
(* the row says that it may have been.                                     *)
CheckpointSubmission(j) ==
  /\ Copying(j, {"copy_submitting"})
  /\ Sendable(j)
  /\ Owns(j)
  /\ job' = [job EXCEPT ![j].ck.phase = "Uncertain"]
  /\ worker' = [worker EXCEPT !.pc = "sending", !.next = [job'[j] EXCEPT !.leased = FALSE]]
  /\ UNCHANGED <<setup, config, copyVars>>

(* Sent and never seen: waited for, and then left to a person.             *)
SubmissionUncertain(j) ==
  /\ Copying(j, {"copy_submitting"})
  /\ Absent(j)
  /\ job[j].ck.phase = "Uncertain"
  /\ \E stage \in {"copy_submitting", "copy_manual_review"} : Decide(j, Moved(job[j], stage))
  /\ UNCHANGED copyVars

(* The item the pass is about to send, or has sent.                        *)
InHand == IF worker.next.ck.op = "CreateDirectory" THEN 0 ELSE worker.next.cursor + 1

InCopyCall(j, pc) ==
  worker.pc = pc /\ worker.job = j /\ worker.next.ck.op # "RemoveFile"

(* copy_manifest_file and create_directory_if_missing look once more; a    *)
(* conflict is an error.                                                   *)
StillWanted(j) == IF InHand = 0 THEN ~dir[j] ELSE Observed(j, InHand) = "missing"

StillUnneeded(j) == IF InHand = 0 THEN dir[j] ELSE Observed(j, InHand) \in {"verified", "sized"}

Requested(j, i) == sent' = [sent EXCEPT ![j][i] = IF @ < 2 THEN @ + 1 ELSE @]

Send(j) ==
  /\ InCopyCall(j, "sending")
  /\ StillWanted(j)
  /\ op' = [op EXCEPT ![j][InHand] = "flying"]
  /\ Requested(j, InHand)
  /\ worker' = [worker EXCEPT !.pc = "sent"]
  /\ UNCHANGED <<setup, config, job, source, dir, target>>

SendUnneeded(j) ==
  /\ InCopyCall(j, "sending")
  /\ StillUnneeded(j)
  /\ worker' = [worker EXCEPT !.pc = "decided"]
  /\ UNCHANGED <<setup, config, job, copyVars>>

(* OpenList answers with the task it has queued, or without one when it    *)
(* has done the work already.                                              *)
AnswerTask(j) ==
  /\ InCopyCall(j, "sent")
  /\ InHand # 0
  /\ op[j][InHand] \in {"running", "succeeded", "over"}
  /\ worker' = [worker EXCEPT !.pc = "decided",
                  !.next = [Moved(@, "copying") EXCEPT !.tasks = InHand]]
  /\ UNCHANGED <<setup, config, job, copyVars>>

AnswerDone(j) ==
  /\ InCopyCall(j, "sent")
  /\ op[j][InHand] = "succeeded"
  /\ worker' = [worker EXCEPT !.pc = "decided", !.next.tasks = 0]
  /\ UNCHANGED <<setup, config, job, copyVars>>

-----------------------------------------------------------------------------
(* copying.                                                                *)

TaskState(j) == op[j][job[j].tasks]

(* decide_copy_tasks for the one task of a file: it is waited for up to a  *)
(* limit; when it ended well its target is verified like that of an        *)
(* unanswered request; otherwise a person is asked.                        *)
TaskDecisions(j) ==
  IF TaskState(j) = "succeeded" THEN {"copy_submitting"}
  ELSE IF TaskState(j) = "running" THEN {"copying", "copy_manual_review"}
  ELSE {"copy_manual_review"}

FollowTask(j) ==
  /\ Copying(j, {"copying"})
  /\ \E stage \in TaskDecisions(j) : Decide(j, Moved(job[j], stage))
  /\ UNCHANGED copyVars

CopyPass(j) ==
  \/ Plan(j) \/ PlanCancelled(j) \/ PlanWaits(j) \/ PlanGivesUp(j) \/ Suspend(j) \/ Resume(j)
  \/ AcquireLock(j) \/ LockRefused(j)
  \/ Reconcile(j) \/ ReconcileOn(j) \/ ReconcileEnds(j)
  \/ SubmissionArrived(j) \/ SubmissionDoubtful(j) \/ SubmissionNeedsDirectory(j)
  \/ CheckpointSubmission(j) \/ SubmissionUncertain(j)
  \/ Send(j) \/ SendUnneeded(j) \/ AnswerTask(j) \/ AnswerDone(j) \/ FollowTask(j)

-----------------------------------------------------------------------------
(* OpenList and its storage.                                               *)

EnvUnchanged == UNCHANGED <<jobVars, source, sent>>

(* skip_existing: what is there stays.                                     *)
Copied(content) == IF content \in {"absent", "partial"} THEN "same" ELSE content

(* A request arrives: a directory is made, a copy is queued.               *)
Arrive(j, i) ==
  /\ op[j][i] = "flying"
  /\ op' = [op EXCEPT ![j][i] = IF i = 0 THEN "succeeded" ELSE "running"]
  /\ dir' = [dir EXCEPT ![j] = @ \/ i = 0]
  /\ UNCHANGED target
  /\ EnvUnchanged

Lose(j, i) ==
  /\ op[j][i] = "flying"
  /\ op' = [op EXCEPT ![j][i] = "none"]
  /\ UNCHANGED <<dir, target>>
  /\ EnvUnchanged

Write(j, f) ==
  /\ op[j][f] = "running"
  /\ target[j][f] = "absent"
  /\ target' = [target EXCEPT ![j][f] = "partial"]
  /\ UNCHANGED <<dir, op>>
  /\ EnvUnchanged

EndWell(j, f) ==
  /\ op[j][f] = "running"
  /\ op' = [op EXCEPT ![j][f] = "succeeded"]
  /\ target' = [target EXCEPT ![j][f] = Copied(@)]
  /\ UNCHANGED dir
  /\ EnvUnchanged

(* It fails, or OpenList restarts and no longer lists it.                  *)
EndBadly(j, f) ==
  /\ op[j][f] \in {"running", "succeeded"}
  /\ op' = [op EXCEPT ![j][f] = "over"]
  /\ UNCHANGED <<dir, target>>
  /\ EnvUnchanged

(* Somebody else puts a file of the same name and size there.              *)
PutForeign(j, f, content) ==
  /\ f \in setup[j].foreign
  /\ target[j][f] = "absent"
  /\ target' = [target EXCEPT ![j][f] = content]
  /\ dir' = [dir EXCEPT ![j] = TRUE]
  /\ UNCHANGED op
  /\ EnvUnchanged

(* Somebody removes a directory that was there before, while it is empty.  *)
TakeDirectory(j) ==
  /\ setup[j].dir /\ dir[j]
  /\ setup[j].foreign # {}
  /\ \A i \in Items : ~Underway(j, i)
  /\ \A f \in Files(j) : target[j][f] = "absent"
  /\ sent[j][0] = 0
  /\ dir' = [dir EXCEPT ![j] = FALSE]
  /\ UNCHANGED <<op, target>>
  /\ EnvUnchanged

OpenListStep ==
  \E j \in Jobs :
    \/ TakeDirectory(j)
    \/ \E i \in Items : Arrive(j, i) \/ Lose(j, i)
    \/ \E f \in Files(j) : Write(j, f) \/ EndWell(j, f) \/ EndBadly(j, f)
                           \/ PutForeign(j, f, "same") \/ PutForeign(j, f, "other")
=============================================================================
